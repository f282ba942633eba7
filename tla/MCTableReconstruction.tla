------------------------ MODULE MCTableReconstruction ------------------------
(* Grids of three columns and up to five rows, and four pages around them.      *)
EXTENDS TableReconstruction

CONSTANTS balance, income

Headers == { <<"items", "year", "year">>, <<"items", "code", "year">>,
             <<"items", "total", "year">>, <<"blank", "term", "merged">> }

Captions == { <<"heading", "merged", "merged">>, <<"unit", "merged", "merged">> }

Body == { <<"name", "amount", "amount">>, <<"total", "amount", "amount">>,
          <<"name", "small", "blank">>, <<"name", "blank", "blank">>,
          <<"merged", "amount", "dash">>, <<"dash", "dash", "blank">>,
          <<"name", "amount">> }

SeqsUpTo(n, S) == UNION {[1..k -> S] : k \in 0..n}

\* Every grid of up to four rows, and five rows of what may be taken for headers.
Grids == SeqsUpTo(4, Headers \cup Captions \cup Body)
            \cup [1..5 -> Headers \cup {<<"name", "small", "blank">>}]

Around(hint, shown, heading, unit) ==
    [hint |-> hint, shown |-> shown, heading |-> heading, unit |-> unit]

Pages == { Around(NoSection, {}, NoSection, FALSE),
           Around(income, {income}, income, TRUE),
           Around(balance, {balance}, balance, TRUE),
           Around(NoSection, {balance, income}, balance, TRUE) }
=============================================================================
