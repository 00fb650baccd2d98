------------------------------- MODULE MCScan -------------------------------
(* A tree for TLC:
     1          the PATH, with name 11 (file z)
     1/2        names 3 (file x) and 4 (file y)
     1/2/5      names 6 (file x) and 7 (file z)
     1/8        names 9 (file x) and 10 (file z): a linked copy of 1/2/5, or
                the same directory mounted there *)
EXTENDS DuScan

MCDirs == {1, 2, 5, 8}
MCUp == [d \in MCDirs \ {1} |-> IF d = 5 THEN 2 ELSE 1]
MCNames == {3, 4, 6, 7, 9, 10, 11}
MCDirOf == [n \in MCNames |-> IF n < 5 THEN 2 ELSE IF n < 8 THEN 5 ELSE IF n < 11 THEN 8 ELSE 1]
MCNameOf == [n \in MCNames |-> IF n \in {3, 6, 9} THEN "p" ELSE "q"]
MCFileOf == [n \in MCNames |-> IF n \in {3, 6, 9} THEN "x" ELSE IF n = 4 THEN "y" ELSE "z"]
MCSize == [x |-> 20, y |-> 2, z |-> 2]
Plain == [d \in MCDirs |-> d]
MCShapes == {Plain, [Plain EXCEPT ![8] = 5]}
=============================================================================
