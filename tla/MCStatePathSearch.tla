-------------------------- MODULE MCStatePathSearch --------------------------
(* Small instances of StatePathSearch for TLC. *)
EXTENDS StatePathSearch, TLC

CONSTANTS here, there, s2, s3, s4

Five == {here, there, s2, s3, s4}

AtMostTwo(S) == UNION {kSubset(n, S) : n \in 0..2}

\* Workflows of five states with at most two transitions out of each, none back
\* to the first and none out of the last, where no search would use them: two
\* walks of different length to one state, and cycles, fit in.
Sparse ==
    {{e \in Five \X Five : e[1] # there /\ e[2] \in out[e[1]]} :
        out \in {f \in [Five \ {there} -> AtMostTwo(Five \ {here})] :
                    \A s \in DOMAIN f : s \notin f[s]}}

\* Every workflow of four states.
Dense == LET Four == {here, there, s2, s3}
         IN SUBSET {e \in Four \X Four : e[1] # e[2]}

SparseOrDense == Sparse \cup Dense

HereToThere == {<<here, there>>}

===============================================================================
