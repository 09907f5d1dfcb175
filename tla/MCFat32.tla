------------------------------ MODULE MCFat32 ------------------------------
EXTENDS Fat32Shell

MCPaths == {<<"a">>, <<"long">>, <<"D">>, <<"D", "a">>, <<"D", "long">>}
MCOwnPaths == {NvmePath, MultiPath, RemovePath}
MCContents == {<<Data(1)>>, <<Data(1), Data(2), Data(3)>>}
Commands == {"write", "append", "touch", "mkdir", "copy", "move", "delete"}
MCFaults == [op : Commands \cup {"mount"}, fault : {"io", "crash"}]
MCSturdy ==
  [op : Commands \ {"move", "delete"}, fault : {"crash"}]
  \cup [op : {"write"}, fault : {"long"}]
Seed(op, p, d) == [op |-> op, p |-> p, d |-> d]
Six == [i \in 1 .. 6 |-> Data(6)]
MCSeeds ==
  LET d == Seed("mkdir", <<"D">>, << >>)
  IN  {<<d, Seed("write", <<"D", "a">>, <<Data(7)>>),
         Seed("write", <<"a">>, <<Data(8), Data(9)>>)>>,
       <<d, Seed("write", <<"D", "1">>, Six), Seed("write", <<"D", "2">>, Six),
         Seed("write", <<"D", "3">>, Six), Seed("write", <<"a">>, Six),
         Seed("write", <<"D", "a">>, Six), Seed("append", <<"D", "a">>, <<Data(7)>>)>>}
MCLong == {"long", "written"}
=============================================================================
