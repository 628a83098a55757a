------------------------------- MODULE MCOffice -------------------------------
\* Office on a small instance of each component.
EXTENDS Office, TLC

OpeningWindows ==
    {<<>>, <<<<0, 1>>>>, <<<<2, 3>>>>, <<<<0, 1>>, <<2, 3>>>>, <<<<0, 2>>, <<3, 3>>>>}

\* Bounds.  An imported or uploaded item is edited once and without others, an
\* upload is followed alone, executions of a classification overlap until
\* a call fails, and rollups do on the first day.
Started(s) == rows[s].state # "absent"
Edited == {x \in L!Items : item[x].text > 1}
Bound ==
    /\ chosen = "library" =>
          \/ L!Pieces \cap {piece[d] : d \in Files} = {}
          \/ \A k \in DOMAIN rows : k[1] = "import" => ~Started(k)
    /\ chosen = "library" /\ Edited \ Manual # {} =>
          /\ Cardinality(Edited) = 1
          /\ \A x \in Edited : item[x].text = 2
          /\ \A x \in Manual : item[x].text = 0
    /\ chosen = "intake" => cost = 0 \/ \E c \in Messages : rows[c].state # "running"
    /\ chosen = "rollup" => today = 1 \/ \E r \in Rollups : rollup[r].at = "idle"

\* Whoever acts at a time, and what they act on where there are two of it.
Symmetry == Permutations(Messages) \cup Permutations(Tokens)
=============================================================================
