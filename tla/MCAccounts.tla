----------------------------- MODULE MCAccounts -----------------------------
(* Values of the constants of Accounts for the model checker. *)
EXTENDS Accounts

\* One subject whose address changed at the provider, one with the address of
\* a local account.
MCClaims == {[sub |-> 1, email |-> "a"], [sub |-> 1, email |-> "b"], [sub |-> 2, email |-> "b"]}

Known == Edits + Faults + 2
Person(email, secret) ==
    [email |-> email, pw |-> Known, sub |-> NoOne, secret |-> secret, enabled |-> FALSE,
     admin |-> TRUE]

\* A new installation; two administrators who are connected, one about to enable
\* TOTP; two people on their way to the provider.
MCStarts ==
    {[users |-> <<>>, sessions |-> <<>>, states |-> <<>>],
     [users |-> <<Person("root", NoOne), Person("a", Known)>>,
      sessions |-> <<[user |-> 1, age |-> "fresh"], [user |-> 2, age |-> "due"]>>,
      states |-> <<>>],
     [users |-> <<Person("a", NoOne)>>, sessions |-> <<>>,
      states |-> <<[age |-> "open"], [age |-> "open"]>>]}
=============================================================================
