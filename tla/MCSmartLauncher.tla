--------------------------- MODULE MCSmartLauncher ---------------------------
(***************************************************************************)
(* Two applications that may announce any of the URIs: of one desktop file  *)
(* in two ways, of another, and of none; tasks of both desktop files, one   *)
(* of them started from a launcher the mapping rules rename.               *)
(***************************************************************************)
EXTENDS SmartLauncher

MCStorageOf == ("application://a" :> "a") @@ ("a" :> "a") @@ ("b" :> "b") @@ ("unknown" :> None)
MCMenuIdOf == [appA |-> "a", betaB |-> "beta", folder |-> None]
MCRules == [beta |-> "b", a |-> None]
MCUpdates == {[count |-> 1, countVisible |-> TRUE], [count |-> 3, progress |-> 120],
              [countVisible |-> FALSE, progress |-> NaN, progressVisible |-> TRUE, urgent |-> TRUE]}
MCBlacklists == {{}, {"a"}}

Symmetry == Permutations(Items) \union Permutations(Services)
=============================================================================
