----------------------------- MODULE MCFindRange -----------------------------
(* Every blacklist of up to two ranges, empty and inverted ones included,  *)
(* over an address space of 48 bytes.                                      *)
EXTENDS FindRange, FiniteSets

MCEnds == {0, 3, 16, 25, 41, 47}

MCMemories == {[start |-> s, end |-> e] : s \in {0, 4}, e \in {30, 46}}

MCRanges == {[start |-> s, end |-> e, mode |-> m] :
               s \in MCEnds, e \in MCEnds, m \in {"ForbiddenDL"}}

MCBlacklists == {<<>>} \cup {<<r>> : r \in MCRanges}
                \cup {<<r, s>> : r \in MCRanges, s \in {x \in MCRanges : x.start <= x.end}}

MCSizes == {0, 8, 9, 44}
=============================================================================
