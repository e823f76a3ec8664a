--------------------------- MODULE MCConfiguration ---------------------------
(* Files, accounts and sessions for the configuration runs. *)
EXTENDS Configuration

MCWayland == <<"usr-local-wayland", "usr-wayland">>
MCX11 == <<"usr-x11">>
MCNames == {1, 2}

Old == <<Text, Header("Users"), Entry("RememberLastUser", "false"),
         Header("XDisplay"), Entry("ServerPath", "/usr/bin/Xvnc")>>
New == <<Entry("RememberLastUser", "false"), Header("Users"), Entry("RememberLastSession", "false"),
         Entry("RememberLastUser", "true"), Header("X11"), Entry("ServerPath", "/usr/bin/Xorg")>>

MCMainEdits == {
  <<"sysdir", New, FALSE>>, <<"confdir", Old, FALSE>>, <<"confdir", Absent, FALSE>>,
  <<"conf", New, FALSE>>, <<"conf", New, TRUE>>, <<"conf", Absent, FALSE>>}

\* A fresh one, one as it is written, one edited by hand.
MCStateFiles == {
  <<>>,
  <<Header("Last"), Blank, Text, Entry("User", 3), Blank>>,
  <<Entry("Theme", "dark"), Text, Header("Seats"), Text, Entry("User", 1), Header("Last"),
    Entry("User", 2), Header("General"), Header("Last"), Entry("User", 1), Text>>}

\* Sorted by the sources, not by name; one account is hidden, one is there twice.
MCAccounts == <<[name |-> 4, hidden |-> TRUE], [name |-> 2, hidden |-> FALSE],
                [name |-> 2, hidden |-> FALSE], [name |-> 3, hidden |-> FALSE]>>

MCFirstSessions ==
  ("usr-local-wayland" :> (1 :> "absent" @@ 2 :> "absent")) @@ ("usr-wayland" :> (1 :> "shown" @@ 2 :> "hidden"))
  @@ ("usr-x11" :> (1 :> "shown" @@ 2 :> "shown"))

MCSessionEdits == {
  <<"usr-local-wayland", 1, "shown">>, <<"usr-local-wayland", 1, "unreadable">>,
  <<"usr-wayland", 1, "absent">>, <<"usr-wayland", 2, "shown">>, <<"usr-x11", 1, "hidden">>}
=============================================================================
