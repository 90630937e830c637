-------------------------------- MODULE AccountsMC --------------------------------
(* TLC instances of Accounts.                                               *)
EXTENDS Accounts, TLC

\* Requests are interchangeable, and so are names.
Symmetry == Permutations(Requests) \union Permutations(Names)

\* No step depends on what was answered.  Tokens that are refused for ever, and
\* codes that neither a row nor a request holds, make no difference to what
\* follows: versions only grow, and no code is generated twice.
UsableTokens == {t \in tokens : t.user \in Rows /\ t.version >= users[t.user].version}
HeldCodes == {codes[i].code : i \in Ids} \union {req[r].code : r \in Requests}
View ==
    <<users, codes, UsableTokens, req, issued, begun, faults,
      mailed \intersect HeldCodes, spent \intersect HeldCodes, raced \intersect HeldCodes, mixed>>
===================================================================================
