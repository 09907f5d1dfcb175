---------------------------- MODULE MCLinuxPipes ----------------------------
(* The small instances of LinuxPipes that TLC checks; see the .cfg files.  *)
EXTENDS LinuxPipes

=============================================================================
