---------------------------- MODULE SmartLauncher ----------------------------
(***************************************************************************)
(* The badges of the task manager (com.hash.tasks): SmartLauncher::Backend, *)
(* one for all tasks, keeps what applications announce with the Update      *)
(* signal of com.canonical.Unity.LauncherEntry, and a SmartLauncher::Item   *)
(* per task shows the launcher of its desktop file.  The backend lives as   *)
(* long as an item does.                                                   *)
(*                                                                         *)
(* bus is the session bus: the connections of the applications, the match   *)
(* rules it has taken and the messages on their way to the task manager.    *)
(***************************************************************************)
EXTENDS Integers, SequencesExt

CONSTANTS
  Services,   \* connections of applications to the bus: a name is never used again
  StorageOf,  \* KService::serviceByStorageId, from the URIs announced to storage ids or none
  Items,      \* the tasks' items
  MenuIdOf,   \* the storage id of a launcher URL, or none
  Rules,      \* the Unity Launcher Mapping of taskmanagerrulesrc, from storage ids
  Updates,    \* the properties an Update may carry
  Blacklists, \* the launchers the settings may hide, sets of storage ids
  NaN,        \* a progress that is no finite number
  IntMax,     \* the largest int
  MaxSends    \* bound of the updates sent

None == "none"
Fields == {"count", "countVisible", "progress", "progressVisible", "urgent"}

ASSUME SmartLauncherAssumption ==
  /\ IntMax \in Nat /\ MaxSends \in Nat
  /\ \A u \in Updates : DOMAIN u \subseteq Fields

VARIABLES
  backend,  \* Backend
  item,     \* the items
  settings, \* NotificationManager::Settings, and whether do-not-disturb is on
  bus,
  stale     \* do-not-disturb has changed since the last reload

vars == <<backend, item, settings, bus, stale>>

Entry == [count |-> 0, countVisible |-> FALSE, progress |-> 0,
          progressVisible |-> FALSE, urgent |-> FALSE]

NewItem == [there |-> FALSE, url |-> None, id |-> None, inited |-> FALSE, shows |-> Entry]

NewBackend(blacklist) ==
  [launchers |-> <<>>,  \* m_launchers: from storage ids to entries
   urls |-> <<>>,       \* m_launcherUrlToStorageId
   services |-> <<>>,   \* m_dbusServiceToLauncherUrl
   watched |-> {},      \* by m_watcher
   lost |-> {},         \* the URLs whose service has announced another since
   blacklist |-> blacklist]

Init ==
  /\ settings = [badges |-> TRUE, blacklist |-> {}, dnd |-> FALSE]
  /\ backend = NewBackend(settings.blacklist)
  /\ item = [i \in Items |-> NewItem]
  /\ bus = [alive |-> {}, gone |-> {}, rules |-> {}, inbox |-> <<>>, sent |-> 0]
  /\ stale = FALSE

Put(f, k, v) == [x \in DOMAIN f \union {k} |-> IF x = k THEN v ELSE f[x]]
Take(f, k) == [x \in DOMAIN f \ {k} |-> f[x]]

There(its) == {i \in Items : its[i].there}

\* m_unityMappingRules: setupUnity leaves out the empty values.
MappingRules == [k \in {k \in DOMAIN Rules : Rules[k] # None} |-> Rules[k]]

-----------------------------------------------------------------------------
(* Backend: what it answers, and to whom it tells *)

HasLauncher(b, id) == id \in DOMAIN b.launchers

\* count and countVisible are hidden by the settings; the rest never is.
Hidden(cfg, b, id) == ~cfg.badges \/ cfg.dnd \/ id \in b.blacklist

Answer(cfg, b, id, f) ==
  IF ~HasLauncher(b, id) \/ (f \in {"count", "countVisible"} /\ Hidden(cfg, b, id))
  THEN Entry[f] ELSE b.launchers[id][f]

\* setProgress bounds what it is told; the others take it.
Shown(f, v) == IF f # "progress" THEN v ELSE IF v < 0 THEN 0 ELSE IF v > 100 THEN 100 ELSE v

\* The change signals, for the items of that storage id.
Tell(its, id, f, v) ==
  [i \in Items |-> IF its[i].inited /\ its[i].id = id
                     THEN [its[i] EXCEPT !.shows[f] = Shown(f, v)] ELSE its[i]]

\* qint64 to int.
ToInt(n) == ((n + IntMax + 1) % (2 * (IntMax + 1))) - (IntMax + 1)

\* What value<T>() and qRound make of a property; a progress that is no finite
\* number is zero.
Value(f, v) ==
  IF f = "count" THEN ToInt(v) ELSE IF f = "progress" /\ v = NaN THEN 0 ELSE v

WithField(b, id, f, v) == [b EXCEPT !.launchers[id][f] = v]

\* update's own treatment of the count, which it tells as it came.
UpdateCount(st, id, props) ==
  IF "count" \notin DOMAIN props THEN st
  ELSE LET n == ToInt(props["count"])
       IN IF props["count"] >= IntMax \/ n = st.backend.launchers[id].count THEN st
          ELSE [backend |-> WithField(st.backend, id, "count", n),
                items |-> Tell(st.items, id, "count", n)]

\* Mutant of UpdateLauncherProperty: the change signal carries the raw value.
UpdateAndTellRaw(st, id, props, f) ==
  IF f \notin DOMAIN props THEN st
  ELSE LET v == Value(f, props[f])
       IN [backend |-> WithField(st.backend, id, f, v),
           items |-> IF v # st.backend.launchers[id][f] THEN Tell(st.items, id, f, v)
                     ELSE st.items]

UpdateLauncherProperty(st, id, props, f) ==
  IF f \notin DOMAIN props THEN st
  ELSE LET b == WithField(st.backend, id, f, Value(f, props[f]))
           new == Answer(settings, b, id, f)
       IN [backend |-> b,
           items |-> IF new # Answer(settings, st.backend, id, f) THEN Tell(st.items, id, f, new)
                     ELSE st.items]

\* All properties, in the order of the code.
UpdateProperties(st, id, props) ==
  LET UpdateField(was, f) == UpdateLauncherProperty(was, id, props, f)
      count   == UpdateField(UpdateCount(st, id, props), "count")
      visible == UpdateField(count, "countVisible")
      percent == UpdateField(visible, "progress")
      bar     == UpdateField(percent, "progressVisible")
  IN UpdateField(bar, "urgent")

\* A URI seen for the first time is looked up, and its sender watched.  A service
\* stands for one URL: that of an earlier one is left without.
Register(b, service, uri) ==
  [b EXCEPT !.urls = Put(@, uri, StorageOf[uri]), !.services = Put(@, service, uri),
            !.watched = @ \union {service},
            !.lost = IF service \in DOMAIN b.services THEN @ \union {b.services[service]} ELSE @]

\* The launcher of an id, made when there is none.
WithLauncher(b, id) ==
  IF HasLauncher(b, id) THEN b ELSE [b EXCEPT !.launchers = Put(@, id, Entry)]

\* Backend::update
Update(service, uri, props) ==
  LET known == uri \in DOMAIN backend.urls
      b == IF known THEN backend ELSE Register(backend, service, uri)
      id == b.urls[uri]
      st == [backend |-> WithLauncher(b, id), items |-> item]
      done == UpdateProperties(st, id, props)
  IN IF ~known /\ StorageOf[uri] = None THEN UNCHANGED <<backend, item>>
     ELSE backend' = done.backend /\ item' = done.items

-----------------------------------------------------------------------------
(* Item *)

Clear(it) == [it EXCEPT !.shows = Entry]

Populate(cfg, b, it) ==
  IF it.id = None \/ ~HasLauncher(b, it.id) THEN it
  ELSE [it EXCEPT !.shows = [f \in Fields |-> Shown(f, Answer(cfg, b, it.id, f))]]

\* Mutant of OnServiceUnregistered: only the URL is forgotten.
ForgetUrl(service) ==
  /\ IF service \notin DOMAIN backend.services THEN UNCHANGED backend
     ELSE LET url == backend.services[service]
          IN backend' = [backend EXCEPT !.services = Take(@, service), !.urls = Take(@, url)]
  /\ UNCHANGED item

\* onServiceUnregistered: the launcher of the last URL the service was the first
\* to announce is removed, and its items cleared.
OnServiceUnregistered(service) ==
  IF service \notin DOMAIN backend.services THEN UNCHANGED <<backend, item>>
  ELSE LET url == backend.services[service]
           b == [backend EXCEPT !.services = Take(@, service)]
       IN IF url \notin DOMAIN b.urls THEN backend' = b /\ UNCHANGED item
          ELSE LET id == b.urls[url]
               IN /\ backend' = [b EXCEPT !.urls = Take(@, url), !.launchers = Take(@, id)]
                  /\ item' = [i \in Items |-> IF item[i].inited /\ item[i].id = id
                                                THEN Clear(item[i]) ELSE item[i]]

\* Item::Item: the first one makes the backend.
Create(i) ==
  /\ ~item[i].there
  /\ item' = [item EXCEPT ![i] = [NewItem EXCEPT !.there = TRUE]]
  /\ backend' = IF There(item) = {} THEN NewBackend(settings.blacklist) ELSE backend
  /\ stale' = (stale /\ There(item) # {})
  /\ UNCHANGED <<settings, bus>>

\* The last one takes it along, with its match rules.
Destroy(i) ==
  /\ item[i].there
  /\ item' = [item EXCEPT ![i] = NewItem]
  /\ IF There(item') = {} THEN /\ backend' = NewBackend({})
                               /\ bus' = [bus EXCEPT !.rules = {}, !.inbox = <<>>]
                          ELSE UNCHANGED <<backend, bus>>
  /\ UNCHANGED <<settings, stale>>

\* setLauncherUrl: the storage id of the new URL, or the one it is mapped to.
SetLauncherUrl(i, url) ==
  /\ item[i].there /\ item[i].url # url
  /\ LET menuId == MenuIdOf[url]
         id == IF menuId \in DOMAIN MappingRules THEN MappingRules[menuId] ELSE menuId
         it == [there |-> TRUE, url |-> url, id |-> id, inited |-> item[i].inited \/ id # None,
                shows |-> Entry]
     IN item' = [item EXCEPT ![i] = Populate(settings, backend, it)]
  /\ UNCHANGED <<backend, settings, bus, stale>>

\* Backend::reload, on settingsChanged: the blacklist is copied, items populate.
Reload ==
  /\ backend' = IF There(item) = {} THEN backend
                ELSE [backend EXCEPT !.blacklist = settings'.blacklist]
  /\ item' = [i \in Items |-> IF item[i].inited THEN Populate(settings', backend', item[i])
                                                ELSE item[i]]
  /\ stale' = FALSE

SettingsChanged ==
  /\ \E badges \in BOOLEAN, blacklist \in Blacklists :
       settings' = [settings EXCEPT !.badges = badges, !.blacklist = blacklist]
  /\ settings' # settings
  /\ Reload
  /\ UNCHANGED bus

\* An application inhibits notifications, or the time of do-not-disturb is over.
DoNotDisturbChanges ==
  /\ settings' = [settings EXCEPT !.dnd = ~@]
  /\ stale' = (There(item) # {})
  /\ UNCHANGED <<backend, item, bus>>

-----------------------------------------------------------------------------
(* The bus *)

\* An application announces something for a URI, its own or another (the silent
\* ones are left out); without a backend nobody listens.
Sends(s, uri, props) ==
  /\ s \notin bus.gone /\ There(item) # {} /\ bus.sent < MaxSends
  /\ bus' = [bus EXCEPT !.alive = @ \union {s}, !.sent = @ + 1,
                        !.inbox = Append(@, [from |-> s, uri |-> uri, props |-> props])]
  /\ UNCHANGED <<backend, item, settings, stale>>

\* The bus takes the match rule that addWatchedService asked for.
TakesRule(s) ==
  /\ s \in (backend.watched \intersect bus.alive) \ bus.rules
  /\ bus' = [bus EXCEPT !.rules = @ \union {s}]
  /\ UNCHANGED <<backend, item, settings, stale>>

\* An application goes; the task manager hears of it if the rule is there.
Leaves(s) ==
  /\ s \in bus.alive
  /\ bus' = [bus EXCEPT !.alive = @ \ {s}, !.gone = @ \union {s},
                        !.inbox = IF s \in bus.rules THEN Append(@, [from |-> s, left |-> TRUE])
                                                     ELSE @]
  /\ UNCHANGED <<backend, item, settings, stale>>

\* The task manager reads its next message.
Reads ==
  /\ bus.inbox # <<>>
  /\ LET m == Head(bus.inbox)
     IN IF "left" \in DOMAIN m THEN OnServiceUnregistered(m.from) ELSE Update(m.from, m.uri, m.props)
  /\ bus' = [bus EXCEPT !.inbox = Tail(@)]
  /\ UNCHANGED <<settings, stale>>

Next ==
  \/ \E i \in Items : Create(i) \/ Destroy(i) \/ \E url \in DOMAIN MenuIdOf : SetLauncherUrl(i, url)
  \/ SettingsChanged \/ DoNotDisturbChanges \/ Reads
  \/ \E s \in Services :
       TakesRule(s) \/ Leaves(s) \/ \E u \in DOMAIN StorageOf, p \in Updates : Sends(s, u, p)

Spec == Init /\ [][Next]_vars

-----------------------------------------------------------------------------
(* Properties *)

\* What an item shows is what the backend answers for its storage id now: an
\* update, a change of the settings, a launcher that goes, a new URL all reach
\* it.  The count matters while it is visible: hidden ones are told raw.  A
\* change of do-not-disturb alone is not told to anyone.
ItemsAgree ==
  \A i \in There(item) :
    LET Says(f) == IF item[i].id = None THEN Entry[f]
                   ELSE Shown(f, Answer(settings, backend, item[i].id, f))
    IN ~stale => \A f \in Fields :
         item[i].shows[f] = Says(f) \/ (f = "count" /\ ~Says("countVisible"))

\* No badge outlives the application its URL is watched for, once its departure
\* has been read; only one that left before the bus took the match rule for it is
\* never missed.  Except the badge of a URL whose service went on to announce
\* another for the first time, which nobody stands for any more.
NoBadgeOfTheGone ==
  LET Departed(s) == \E i \in DOMAIN bus.inbox :
                       bus.inbox[i].from = s /\ "left" \in DOMAIN bus.inbox[i]
      StandsFor(s, u) == /\ backend.services[s] = u
                         /\ s \in bus.alive \/ s \notin bus.rules \/ Departed(s)
  IN \A id \in DOMAIN backend.launchers : \E u \in DOMAIN backend.urls :
       /\ backend.urls[u] = id
       /\ u \in backend.lost \/ \E s \in DOMAIN backend.services : StandsFor(s, u)
=============================================================================
