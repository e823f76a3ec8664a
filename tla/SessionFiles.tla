---------------------------- MODULE SessionFiles ----------------------------
(***************************************************************************)
(* Session and SessionModel: how the .desktop files of the directories for  *)
(* wayland and X11 sessions become the list of sessions, and how a session  *)
(* is found again from its type and file.                                   *)
(***************************************************************************)
EXTENDS Integers, Sequences, SequencesExt, FiniteSets, FiniteSetsExt

CONSTANTS
  WaylandDirs, X11Dirs, \* SessionDir of both sections, in order
  Names                 \* base names of session files, in the order of a listing

ASSUME SessionAssumption ==
  /\ ToSet(WaylandDirs) \cap ToSet(X11Dirs) = {}
  /\ Len(WaylandDirs) > 0 /\ Len(X11Dirs) > 0 /\ Names \subseteq Nat

Directories == ToSet(WaylandDirs) \cup ToSet(X11Dirs)

\* A file may be there and be hidden (Hidden, NoDisplay, TryExec without a
\* program), or be there and not be readable.
FileStates == {"absent", "shown", "hidden", "unreadable"}

DirsOf(type) == CASE type = "wayland" -> WaylandDirs [] type = "x11" -> X11Dirs [] OTHER -> <<>>

Unknown(path) == [type |-> "unknown", path |-> path, valid |-> FALSE, hidden |-> FALSE]

\* Session::setTo with a base name: the first directory whose file opens.
SetTo(fs, type, name) ==
  LET dirs == DirsOf(type)
      open == {i \in DOMAIN dirs : fs[dirs[i]][name] \in {"shown", "hidden"}}
  IN IF open = {} THEN Unknown(<<Last(dirs), name>>)
     ELSE LET d == dirs[Min(open)]
          IN [type |-> type, path |-> <<d, name>>, valid |-> TRUE, hidden |-> fs[d][name] = "hidden"]

\* Session::setTo with an absolute file name, which no directory changes.
SetToPath(fs, type, path) ==
  IF DirsOf(type) # <<>> /\ fs[path[1]][path[2]] \in {"shown", "hidden"}
    THEN [type |-> type, path |-> path, valid |-> TRUE, hidden |-> fs[path[1]][path[2]] = "hidden"]
    ELSE Unknown(path)

\* Display::findSessionEntry for an absolute file name.
FindSessionEntry(fs, dirs, path) ==
  path[1] \in ToSet(dirs) /\ fs[path[1]][path[2]] # "absent"

\* The .desktop files of the directories, each name once.
EntryList(fs, dirs) ==
  LET Listing(d) == SetToSortSeq({n \in Names : fs[d][n] # "absent"}, <)
      Fresh(ns, n) == IF n \in ToSet(ns) THEN ns ELSE Append(ns, n)
  IN FoldLeft(Fresh, <<>>, FlattenSeq([i \in DOMAIN dirs |-> Listing(dirs[i])]))

\* Mutant of FindLast: only the sessions just added are looked through.
FindAmongNew(model, old, last) ==
  LET at == {i \in 1 .. Len(model.sessions) - old : model.sessions[i + old].path = last}
  IN [model EXCEPT !.lastIndex = IF at = {} THEN @ ELSE Min(at) - 1]

\* The index of the last session; it stays what it was when there is none.
FindLast(model, old, last) ==
  LET at == {i \in DOMAIN model.sessions : model.sessions[i].path = last}
  IN [model EXCEPT !.lastIndex = IF at = {} THEN @ ELSE Min(at) - 1]

\* SessionModel::populate.  A file that does not open has no field that hides it.
Populate(model, fs, type, last) ==
  LET Session(n) == SetTo(fs, type, n)
      Listed(n) == ~Session(n).hidden
      names == SelectSeq(EntryList(fs, DirsOf(type)), Listed)
  IN FindLast([model EXCEPT !.sessions = @ \o [i \in DOMAIN names |-> Session(names[i])]],
              Len(model.sessions), last)

\* The population of the model at its creation and when a directory has changed;
\* dri is /dev/dri.
Refresh(model, fs, dri, last) ==
  LET empty == [model EXCEPT !.sessions = <<>>]
  IN Populate(IF dri THEN Populate(empty, fs, "wayland", last) ELSE empty, fs, "x11", last)

NoSessions == [sessions |-> <<>>, lastIndex |-> 0]
=============================================================================
