------------------------------ MODULE UserModel ------------------------------
(***************************************************************************)
(* UserModel, and ThemeConfig as far as it decides whether the model may be *)
(* cut short.  Users are numbers, in the order of their names.              *)
(***************************************************************************)
EXTENDS Integers, Sequences, SequencesExt, FiniteSets, FiniteSetsExt

CONSTANT Threshold \* DisableAvatarsThreshold

ASSUME ThresholdAssumption == Threshold \in Nat

Nobody == 0 \* the empty name

\* ThemeConfig::setTo and value: the theme's own file, over it what theme.conf.user
\* says that is not empty, else the default.
ThemeValue(theme, user, default) ==
  IF user # "empty" THEN user = "true" ELSE IF theme # "empty" THEN theme = "true" ELSE default

\* Mutant of AddLastUser: the account is not asked for.
StopShort(passwd, st, last) == [st EXCEPT !.done = TRUE, !.all = FALSE]

\* A model that stops short still gets the last user, if there is such an account.
AddLastUser(passwd, st, last) ==
  [st EXCEPT !.done = TRUE, !.all = FALSE,
             !.users = IF ~st.found /\ (\E i \in DOMAIN passwd : passwd[i].name = last)
                         THEN Append(@, last) ELSE @]

\* The constructor of UserModel over the accounts getpwent() returns, hidden ones
\* included, which may be the same account from several sources.
NewUserModel(passwd, needAllUsers, last) ==
  LET Account(st, u) ==
        IF st.done \/ u.hidden THEN st
        ELSE LET more == [st EXCEPT !.users = Append(@, u.name), !.found = @ \/ u.name = last]
             IN IF ~needAllUsers /\ Len(more.users) > Threshold
                  THEN AddLastUser(passwd, more, last) ELSE more
      read == FoldLeft(Account, [users |-> <<>>, all |-> TRUE, found |-> FALSE, done |-> FALSE], passwd)
      users == SetToSortSeq(ToSet(read.users), <)
      at == {i \in DOMAIN users : users[i] = last}
  IN [users |-> users, containsAllUsers |-> read.all,
      lastIndex |-> IF at = {} THEN 0 ELSE Min(at) - 1]
=============================================================================
