--------------------------- MODULE MCRegistration ---------------------------
(* The symmetry of Registration: request slots are alike, and so are names   *)
(* and addresses.                                                            *)
EXTENDS Registration, TLC

Symmetry == Permutations(Request) \cup Permutations(Email) \cup Permutations(Username)

\* When mails were sent is read by MailGap only: no action has it in a guard, so
\* the run that does not check MailGap takes states apart without it.
AllButLastMail ==
  <<now, dbVars, lock, stage, argVars, started, readVars, issued, historyVars, mailed>>
=============================================================================
