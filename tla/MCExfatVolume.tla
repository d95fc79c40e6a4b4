---- MODULE MCExfatVolume ----
(* A small volume for TLC: in the root a directory, behind its only cluster the *)
(* two of a file in it, behind them two free ones.                              *)
EXTENDS ExfatVolume, TLC
CONSTANTS i1, i2
MCNameLen == [n \in Names |-> IF n = "long" THEN 2 ELSE 1]
Populated ==
    [bitmap |-> 2 .. 6,
     fat |-> (3 :> EOC) @@ [c \in Clusters |-> Nil],
     slots |-> (<<3, 0>> :> NewHead("dir", "a", 3, 4, 1) @@ <<3, 1>> :> Unused
                @@ <<4, 0>> :> NewHead("file", "a", 3, 5, 2) @@ <<4, 1>> :> Deleted)
               @@ Block(Clusters, Data)]
MCDisks == {Populated}
Symmetry == Permutations({i1, i2})
====
