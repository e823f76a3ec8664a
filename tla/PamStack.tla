------------------------------ MODULE PamStack ------------------------------
(***************************************************************************)
(* hash-security-helper: enabling and disabling sign-in methods on the PAM *)
(* stacks of /etc/pam.d, restoring them, and the wiring of himmelblau.     *)
(*                                                                         *)
(* The helper is started anew for every command and takes no lock; the     *)
(* front end's windows do not wait for each other, so several may run at   *)
(* once.  Each may be killed between any two of its steps.                 *)
(*                                                                         *)
(* Of a line there remain its phase, what it contributes and whose marker  *)
(* it bears; comments and blank lines are left out.                        *)
(***************************************************************************)
EXTENDS Integers, SequencesExt

CONSTANTS
  Services, \* the files a surface may stand for: sddm, kde, sudo
  Original, \* their lines as installed, <<>> for a file that does not exist
  Methods,  \* the methods that may be toggled
  Procs,    \* helpers that may run at one time
  Stamps    \* what local time to the second may be

Phases == {"auth", "account", "password", "session"}
Contributions == {"unix", "remote", "other", "preauth", "face", "fingerprint",
                  "totp", "authfail", "himmelblau"}
Lines == [phase : Phases, what : Contributions, mark : {"none", "security", "azure"}]

AsInstalled == {l \in Lines : l.mark = "none"}

ASSUME StackAssumption ==
  /\ IsFiniteSet(Services)
  /\ Original \in [Services -> Seq(AsInstalled)]
  /\ Methods \subseteq {"face", "fingerprint", "totp"}
  /\ Stamps \subseteq Nat

VARIABLES
  file,    \* the PAM files
  backups, \* for each file its backups, by stamp
  proc     \* the helpers

vars == <<file, backups, proc>>

-----------------------------------------------------------------------------
(* Stacks: parsing, building, validation *)

Security(what) == [phase |-> "auth", what |-> what, mark |-> "security"]
Azure(phase) == [phase |-> phase, what |-> "himmelblau", mark |-> "azure"]

Managed(line) == line.mark = "security"
Wired(line) == line.mark = "azure"

NotManaged == {l \in Lines : ~Managed(l)}
NotWired == {l \in Lines : ~Wired(l)}

\* The lines of a text that are kept, in their order.
Keep(text, kept) ==
  LET from[n \in 0 .. Len(text)] ==
        IF n = 0 THEN <<>>
        ELSE IF text[n] \in kept THEN Append(from[n - 1], text[n]) ELSE from[n - 1]
  IN from[Len(text)]

\* has_password_fallback: "remote" is an include of system-remote-login, and
\* "unix" is pam_unix itself or any other of the distribution's stacks.
HasFallback(text) ==
  \E i \in 1 .. Len(text) : text[i].phase = "auth" /\ text[i].what \in {"unix", "remote"}

\* find_password_anchor, 0 for None; it does not know system-remote-login.
Anchor(text) == SelectInSeq(text, LAMBDA l : l.phase = "auth" /\ l.what = "unix")

\* Mutant of Unmanaged: lines are recognised by their module.
UnmanagedByModule(text) == Keep(text, {l \in Lines : l.what \in {"unix", "remote", "other", "himmelblau"}})

\* strip_managed.
Unmanaged(text) == Keep(text, NotManaged)

\* Mutant of EnabledOn: face is not looked for.
EnabledOnButFace(text) ==
  {text[i].what : i \in {j \in 1 .. Len(text) : Managed(text[j])}} \cap (Methods \ {"face"})

\* current_managed_methods.
EnabledOn(text) == {text[i].what : i \in {j \in 1 .. Len(text) : Managed(text[j])}} \cap Methods

\* desired_managed: what goes before and what goes after the password.
Only(what, methods) == IF what \in methods THEN <<what>> ELSE <<>>
Pre(methods) == <<"preauth">> \o Only("face", methods) \o Only("fingerprint", methods)
Post(methods) == Only("totp", methods) \o <<"authfail">>
Marked(whats) == [i \in 1 .. Len(whats) |-> Security(whats[i])]

\* Mutant of Around: both blocks go after the password.
AllAfter(lines, anchor, methods) ==
  SubSeq(lines, 1, anchor) \o Marked(Pre(methods) \o Post(methods))
    \o SubSeq(lines, anchor + 1, Len(lines))

\* The managed block put around the password.
Around(lines, anchor, methods) ==
  SubSeq(lines, 1, anchor - 1) \o Marked(Pre(methods)) \o <<lines[anchor]>>
    \o Marked(Post(methods)) \o SubSeq(lines, anchor + 1, Len(lines))

\* rebuild.
Rebuild(text, methods) ==
  LET lines == Unmanaged(text)
      anchor == Anchor(lines)
  IN  IF methods = {} \/ anchor = 0 THEN lines ELSE Around(lines, anchor, methods)

\* hb_rebuild: a line before the first one of its phase, or at the end; the loop
\* over the lines does for all phases what is done here for one after another.
WireIn(lines, phase) ==
  LET first == SelectInSeq(lines, LAMBDA l : l.phase = phase)
  IN  IF first = 0 THEN Append(lines, Azure(phase)) ELSE InsertAt(lines, first, Azure(phase))

WireRebuild(text, on) ==
  LET lines == Keep(text, NotWired)
  IN  IF on THEN WireIn(WireIn(WireIn(WireIn(lines, "auth"), "account"), "password"), "session")
      ELSE lines

\* validate_candidate; the lines are well-formed here.
Valid(text) ==
  /\ HasFallback(text)
  /\ \A i, j \in 1 .. Len(text) :
       Managed(text[i]) /\ Managed(text[j]) /\ text[i].what = text[j].what => i = j

-----------------------------------------------------------------------------
(* The helper's commands *)

\* What a helper does: "do" to the services of "left" in turn.
Toggles == [do : {"enable", "disable"}, method : Methods, left : {<<s>> : s \in Services}]
Restores == [do : {"restore"}, method : {"none"}, left : {<<s>> : s \in Services}]
Wirings == [do : {"wire", "unwire"}, method : {"none"}, left : SetToAllKPermutations(Services) \ {<<>>}]
NoCommand == [do |-> "none", method |-> "none", left |-> <<>>]

\* A helper that does not run, and one that writes: "text" is what it will
\* install, "saved" what it copies to the backup "stamp".
Idle == [at |-> "idle", cmd |-> NoCommand, text |-> <<>>, saved |-> <<>>, stamp |-> 0]
Reading(cmd) == [Idle EXCEPT !.at = "read", !.cmd = cmd]

Service(p) == proc[p].cmd.left[1]

\* The helper turns to the next surface or ends.
Onward(p) ==
  IF Len(proc[p].cmd.left) = 1 THEN Idle
  ELSE Reading([proc[p].cmd EXCEPT !.left = Tail(@)])

StartCommand(p) ==
  /\ proc[p].at = "idle"
  /\ \E cmd \in Toggles \cup Restores \cup Wirings : proc' = [proc EXCEPT ![p] = Reading(cmd)]
  /\ UNCHANGED <<file, backups>>

\* What the command makes of a file.
Candidate(cmd, text) ==
  CASE cmd.do = "enable" -> Rebuild(text, EnabledOn(text) \cup {cmd.method})
    [] cmd.do = "disable" -> Rebuild(text, EnabledOn(text) \ {cmd.method})
    [] cmd.do = "wire" -> WireRebuild(text, TRUE)
    [] cmd.do = "unwire" -> WireRebuild(text, FALSE)

\* Nothing is to be done to this file.
NoOp(cmd, text) ==
  CASE cmd.do = "enable" -> text = <<>> \/ cmd.method \in EnabledOn(text)
    [] cmd.do = "disable" -> text = <<>> \/ cmd.method \notin EnabledOn(text)
    [] cmd.do \in {"wire", "unwire"} -> text = <<>> \/ Candidate(cmd, text) = text

\* cmd_enable, cmd_disable, hb_pam_wire up to the validation in write_atomic;
\* an invalid candidate ends the helper, whatever is left to do.
ReadFile(p) ==
  /\ proc[p].at = "read" /\ proc[p].cmd.do # "restore"
  /\ LET cmd == proc[p].cmd
         text == file[Service(p)]
     IN  proc' = [proc EXCEPT ![p] =
                    IF NoOp(cmd, text) THEN Onward(p)
                    ELSE IF Valid(Candidate(cmd, text))
                      THEN [@ EXCEPT !.at = "backup", !.text = Candidate(cmd, text)]
                      ELSE Idle]
  /\ UNCHANGED <<file, backups>>

\* Mutant of ReadBackup: the backup is not validated.
ReadBackupBlindly(p) ==
  /\ proc[p].at = "read" /\ proc[p].cmd.do = "restore"
  /\ LET old == backups[Service(p)]
     IN  proc' = [proc EXCEPT ![p] =
                    IF DOMAIN old = {} THEN Idle
                    ELSE [@ EXCEPT !.at = "replace", !.text = old[Max(DOMAIN old)]]]
  /\ UNCHANGED <<file, backups>>

\* cmd_restore up to the validation; the latest backup is the one with the
\* greatest stamp.
ReadBackup(p) ==
  /\ proc[p].at = "read" /\ proc[p].cmd.do = "restore"
  /\ LET old == backups[Service(p)]
     IN  proc' = [proc EXCEPT ![p] =
                    IF DOMAIN old # {} /\ Valid(old[Max(DOMAIN old)])
                      THEN [@ EXCEPT !.at = "replace", !.text = old[Max(DOMAIN old)]]
                      ELSE Idle]
  /\ UNCHANGED <<file, backups>>

\* A backup of this stamp is made, or overwritten.
Save(old, stamp, text) ==
  [t \in DOMAIN old \cup {stamp} |-> IF t = stamp THEN text ELSE old[t]]

\* write_atomic opens the file and creates the backup; local time may be the
\* stamp of an earlier backup, or before it.
OpenBackup(p) ==
  /\ proc[p].at = "backup"
  /\ \E stamp \in Stamps :
       /\ backups' = [backups EXCEPT ![Service(p)] = Save(@, stamp, <<>>)]
       /\ proc' = [proc EXCEPT ![p].at = "copy", ![p].saved = file[Service(p)],
                               ![p].stamp = stamp]
  /\ UNCHANGED file

CopyBackup(p) ==
  /\ proc[p].at = "copy"
  /\ backups' = [backups EXCEPT ![Service(p)] = Save(@, proc[p].stamp, proc[p].saved)]
  /\ proc' = [proc EXCEPT ![p].at = "replace", ![p].saved = <<>>, ![p].stamp = 0]
  /\ UNCHANGED file

\* The temporary file, which is the process's own, replaces the PAM file.
ReplaceFile(p) ==
  /\ proc[p].at = "replace"
  /\ file' = [file EXCEPT ![Service(p)] = proc[p].text]
  /\ proc' = [proc EXCEPT ![p] = Onward(p)]
  /\ UNCHANGED backups

\* The helper is killed.
Killed(p) ==
  /\ proc[p].at # "idle"
  /\ proc' = [proc EXCEPT ![p] = Idle]
  /\ UNCHANGED <<file, backups>>

-----------------------------------------------------------------------------
Init ==
  /\ file = Original
  /\ backups = [s \in Services |-> <<>>]
  /\ proc = [p \in Procs |-> Idle]

Next == \E p \in Procs :
  \/ StartCommand(p) \/ ReadFile(p) \/ ReadBackup(p)
  \/ OpenBackup(p) \/ CopyBackup(p) \/ ReplaceFile(p) \/ Killed(p)

Spec == Init /\ [][Next]_vars

-----------------------------------------------------------------------------
(* Properties *)

\* The types of files, backups and helpers.
TypeOK ==
  /\ file \in [Services -> Seq(Lines)]
  /\ \A s \in Services : /\ DOMAIN backups[s] \subseteq Stamps
                         /\ \A t \in DOMAIN backups[s] : backups[s][t] \in Seq(Lines)
  /\ \A p \in Procs :
       /\ proc[p].at \in {"idle", "read", "backup", "copy", "replace"}
       /\ proc[p].at # "idle" => proc[p].cmd \in Toggles \cup Restores \cup Wirings
       /\ proc[p].text \in Seq(Lines) /\ proc[p].saved \in Seq(Lines)

\* A file the helper has written is a stack it would accept: however commands
\* interleave, and wherever they are killed, the password remains a way to
\* sign in and no managed line is there twice ("NEVER remove the password
\* fallback", and the validation of write_atomic and cmd_restore).
FallbackKept == \A s \in Services : file[s] = Original[s] \/ Valid(file[s])

\* The lines there were before the helper first ran stay, in their order, whatever
\* is enabled, wired, disabled or restored ("we add/remove ONLY our own lines").
\* Nobody else edits the files meanwhile: a restore would undo that.
OriginalKept ==
  \A s \in Services : Keep(file[s], AsInstalled) = Original[s]

\* Stacks look as documented: biometrics and Entra ID come before the password,
\* TOTP after it, and faillock brackets them exactly if one is enabled.
StackOrder ==
  \A s \in {r \in Services : file[r] # <<>>} :
    LET text == file[s]
        Place(what, mark) == SelectInSeq(text, LAMBDA l : l.phase = "auth" /\ l.what = what
                                                           /\ l.mark = mark)
        password == Place("unix", "none")
        preauth == Place("preauth", "security")
        authfail == Place("authfail", "security")
    IN  /\ EnabledOn(text) # {} <=> preauth # 0
        /\ preauth # 0 <=> authfail # 0
        /\ \A m \in EnabledOn(text) : /\ preauth < Place(m, "security")
                                      /\ Place(m, "security") < authfail
                                      /\ m = "totp" <=> password < Place(m, "security")
        /\ Place("himmelblau", "azure") < password

\* The phases himmelblau is wired into.
WiredPhases(text) == {text[i].phase : i \in {j \in 1 .. Len(text) : Wired(text[j])}}

\* What a command that is about to write is to have made of the text it read.
AsAsked(cmd, old, new) ==
  /\ EnabledOn(new) = CASE cmd.do = "enable" -> EnabledOn(old) \cup {cmd.method}
                        [] cmd.do = "disable" -> EnabledOn(old) \ {cmd.method}
                        [] OTHER -> EnabledOn(old)
  /\ WiredPhases(new) = CASE cmd.do = "wire" -> Phases
                          [] cmd.do = "unwire" -> {}
                          [] OTHER -> WiredPhases(old)

\* A command writes what it was asked for: the methods enabled become those it
\* read with its own added or removed and himmelblau's lines stay as read, or
\* the reverse (rebuild and hb_rebuild against the markers they share a file
\* with).
WritesWhatIsAsked ==
  [][\A p \in Procs :
       proc[p].at = "read" /\ proc'[p].at = "backup" =>
         AsAsked(proc[p].cmd, file[Service(p)], proc'[p].text)]_vars

=============================================================================
