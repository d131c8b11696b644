---------------------------- MODULE MCMemoryModel ----------------------------
(***************************************************************************)
(* Hierarchies of two and three levels, direct-mapped and associative, one *)
(* with as many sets in both levels, one with as many lines; every way to  *)
(* share the accesses in quarters that tells them apart, and thirds that   *)
(* never come out even.                                                    *)
(***************************************************************************)
EXTENDS MemoryModel

Cache(l, w) == [lines |-> l, ways |-> w]
MCHierarchies ==
    {<<Cache(4, 1), Cache(4, 4)>>,
     <<Cache(2, 1), Cache(8, 2)>>, <<Cache(4, 1), Cache(16, 2)>>,
     <<Cache(4, 2), Cache(8, 4)>>, <<Cache(4, 2), Cache(16, 4)>>,
     <<Cache(2, 1), Cache(16, 2)>>,
     <<Cache(4, 1), Cache(8, 2), Cache(32, 4)>>,
     <<Cache(2, 1), Cache(8, 2), Cache(32, 4)>>}
MCRatios ==
    {<<100, 0>>, <<50, 50>>, <<75, 25>>, <<25, 75>>, <<33, 67>>, <<0, 100>>,
     <<50, 25, 25>>, <<50, 0, 50>>, <<0, 50, 50>>}
=============================================================================
