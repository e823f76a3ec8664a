------------------------- MODULE SmartLauncherProofs -------------------------
(***************************************************************************)
(* What a task shows is what the backend answers, and no badge outlives its *)
(* application, for all applications, tasks, mappings and updates.         *)
(***************************************************************************)
EXTENDS SmartLauncher, SequenceTheorems, TLAPS

\* What is needed of the types.
BackendShape(b) ==
  /\ b = [launchers |-> b.launchers, urls |-> b.urls, services |-> b.services,
          watched |-> b.watched, lost |-> b.lost, blacklist |-> b.blacklist]
  /\ b.launchers = [id \in DOMAIN b.launchers |-> b.launchers[id]]
  /\ \A id \in DOMAIN b.launchers : b.launchers[id] = [f \in Fields |-> b.launchers[id][f]]

ItemShape(it) ==
  /\ it = [there |-> it.there, url |-> it.url, id |-> it.id, inited |-> it.inited,
           shows |-> it.shows]
  /\ it.shows = [f \in Fields |-> it.shows[f]]
  /\ it.there \in BOOLEAN /\ it.inited \in BOOLEAN

\* An item that is not there shows nothing, one with a launcher to follow is told.
ItemStates(it) ==
  /\ ~it.there => it = NewItem
  /\ it.id # None => it.inited

\* A launcher is never kept for "no desktop file".
UrlsMeanLaunchers(b) == \A u \in DOMAIN b.urls : b.urls[u] # None

\* An item shows a field as the backend has it.  What is hidden may differ: the
\* count is told raw, and do-not-disturb is told to nobody.
Excepted(cfg, old, b, id, f) ==
  /\ HasLauncher(b, id)
  /\ \/ f = "count" /\ Hidden(cfg, b, id)
     \/ f \in {"count", "countVisible"} /\ old

Said(cfg, b, id, f) == IF id = None THEN Entry[f] ELSE Shown(f, Answer(cfg, b, id, f))

Fits(cfg, old, b, it) ==
  \A f \in Fields : \/ it.shows[f] = Said(cfg, b, it.id, f)
                    \/ it.id # None /\ Excepted(cfg, old, b, it.id, f)

StateOK(cfg, old, b, its) ==
  /\ BackendShape(b) /\ UrlsMeanLaunchers(b)
  /\ its = [i \in Items |-> its[i]]
  /\ \A i \in Items : ItemShape(its[i]) /\ ItemStates(its[i]) /\ Fits(cfg, old, b, its[i])

BadgeInv ==
  /\ StateOK(settings, stale, backend, item)
  /\ settings = [badges |-> settings.badges, blacklist |-> settings.blacklist, dnd |-> settings.dnd]
  /\ stale \in BOOLEAN

-----------------------------------------------------------------------------
(* One property of one launcher *)

\* The new entry of a launcher has a value for each field, and shows as it is.
LEMMA EntryShows ==
  /\ Entry = [f \in Fields |-> Entry[f]]
  /\ \A f \in Fields : Shown(f, Entry[f]) = Entry[f]
<1>1. Entry = [f \in Fields |-> Entry[f]]
  BY DEF Entry, Fields
<1>2. \A f \in Fields : f = "progress" => Entry[f] = 0
  BY DEF Entry
<1>. QED BY <1>1, <1>2 DEF Shown

\* A field of a launcher is set, and nothing else of the backend.
LEMMA SetField ==
  ASSUME NEW b, BackendShape(b), NEW id \in DOMAIN b.launchers, NEW f \in Fields, NEW v,
         NEW c, c = WithField(b, id, f, v)
  PROVE  /\ BackendShape(c)
         /\ c.urls = b.urls /\ c.services = b.services
         /\ c.watched = b.watched /\ c.lost = b.lost /\ c.blacklist = b.blacklist
         /\ DOMAIN c.launchers = DOMAIN b.launchers
         /\ \A j \in DOMAIN b.launchers : \A g \in Fields :
              c.launchers[j][g] = IF j = id /\ g = f THEN v ELSE b.launchers[j][g]
<1>. DEFINE new == [b.launchers EXCEPT ![id] = [b.launchers[id] EXCEPT ![f] = v]]
<1>1. b = [launchers |-> b.launchers, urls |-> b.urls, services |-> b.services,
           watched |-> b.watched, lost |-> b.lost, blacklist |-> b.blacklist]
  BY DEF BackendShape
<1>2. c = [launchers |-> new, urls |-> b.urls, services |-> b.services,
           watched |-> b.watched, lost |-> b.lost, blacklist |-> b.blacklist]
  BY <1>1 DEF WithField
<1>3. /\ b.launchers = [j \in DOMAIN b.launchers |-> b.launchers[j]]
      /\ \A j \in DOMAIN b.launchers : b.launchers[j] = [g \in Fields |-> b.launchers[j][g]]
  BY DEF BackendShape
<1>4. /\ DOMAIN new = DOMAIN b.launchers
      /\ new = [j \in DOMAIN new |-> new[j]]
      /\ \A j \in DOMAIN new : new[j] = [g \in Fields |-> new[j][g]]
      /\ \A j \in DOMAIN new : \A g \in Fields :
           new[j][g] = IF j = id /\ g = f THEN v ELSE b.launchers[j][g]
  BY <1>3
<1>. HIDE DEF new
<1>5. /\ c.launchers = new /\ c.urls = b.urls /\ c.services = b.services
      /\ c.watched = b.watched /\ c.lost = b.lost /\ c.blacklist = b.blacklist
  BY <1>2
<1>6. BackendShape(c)
  <2>1. c = [launchers |-> c.launchers, urls |-> c.urls, services |-> c.services,
             watched |-> c.watched, lost |-> c.lost, blacklist |-> c.blacklist]
    BY <1>2, <1>5
  <2>. QED BY <1>4, <1>5, <2>1 DEF BackendShape
<1>. QED BY <1>4, <1>5, <1>6

\* The items have their shape and state.
WellFormed(its) == \A i \in Items : ItemShape(its[i]) /\ ItemStates(its[i])

\* The items of a launcher show a value for a field, the others what they did.
AreTold(its, new, id, f, v) ==
  /\ new = [i \in Items |-> new[i]]
  /\ \A i \in Items :
       /\ ItemShape(new[i]) /\ ItemStates(new[i])
       /\ new[i].id = its[i].id /\ new[i].there = its[i].there
       /\ new[i].inited = its[i].inited
       /\ \A g \in Fields :
            new[i].shows[g] = IF its[i].inited /\ its[i].id = id /\ g = f
                              THEN Shown(f, v) ELSE its[i].shows[g]

\* What the items show when they are told of a field.
LEMMA TellItems ==
  ASSUME NEW its, WellFormed(its), NEW id, NEW f \in Fields, NEW v, NEW new, new = Tell(its, id, f, v)
  PROVE  AreTold(its, new, id, f, v)
<1>1. new = [i \in Items |-> new[i]]
  BY DEF Tell
<1>2. ASSUME NEW i \in Items
      PROVE  /\ ItemShape(new[i]) /\ ItemStates(new[i])
             /\ new[i].id = its[i].id /\ new[i].there = its[i].there
             /\ new[i].inited = its[i].inited
             /\ \A g \in Fields :
                  new[i].shows[g] = IF its[i].inited /\ its[i].id = id /\ g = f
                                    THEN Shown(f, v) ELSE its[i].shows[g]
  <2>. DEFINE it == its[i]
              shows == [it.shows EXCEPT ![f] = Shown(f, v)]
  <2>1. ItemShape(it) /\ ItemStates(it)
    BY DEF WellFormed
  <2>2. new[i] = IF it.inited /\ it.id = id THEN [it EXCEPT !.shows[f] = Shown(f, v)] ELSE it
    BY DEF Tell
  <2>. HIDE DEF it
  <2>3. CASE ~(it.inited /\ it.id = id)
    BY <2>1, <2>2, <2>3 DEF it
  <2>4. CASE it.inited /\ it.id = id
    <3>1. it = [there |-> it.there, url |-> it.url, id |-> it.id, inited |-> it.inited,
                shows |-> it.shows]
      BY <2>1 DEF ItemShape
    <3>2. new[i] = [there |-> it.there, url |-> it.url, id |-> it.id, inited |-> it.inited,
                    shows |-> shows]
      BY <2>2, <2>4, <3>1
    <3>3. it.shows = [g \in Fields |-> it.shows[g]] /\ it.there \in BOOLEAN /\ it.inited \in BOOLEAN
      BY <2>1 DEF ItemShape
    <3>4. /\ shows = [g \in Fields |-> shows[g]]
          /\ \A g \in Fields : shows[g] = IF g = f THEN Shown(f, v) ELSE it.shows[g]
      BY <3>3
    <3>. HIDE DEF shows
    <3>5. it.there
      <4>1. ~NewItem.inited
        BY DEF NewItem
      <4>. QED BY <2>1, <2>4, <4>1 DEF ItemStates
    <3>6. ItemShape(new[i]) /\ ItemStates(new[i])
      BY <2>4, <3>2, <3>3, <3>4, <3>5 DEF ItemShape, ItemStates
    <3>. QED BY <2>4, <3>2, <3>4, <3>6 DEF it
  <2>. QED BY <2>3, <2>4
<1>. QED BY <1>1, <1>2 DEF AreTold

\* Two backends with the same launchers and the same registry.
SameRegistry(b, c) ==
  /\ DOMAIN c.launchers = DOMAIN b.launchers
  /\ c.urls = b.urls /\ c.services = b.services
  /\ c.watched = b.watched /\ c.lost = b.lost /\ c.blacklist = b.blacklist

\* An item fits on when a field of one launcher is set: those of the launcher are
\* told of it, or it looks as before.
LEMMA SetAndTold ==
  ASSUME NEW cfg, NEW old, NEW b, NEW its, StateOK(cfg, old, b, its),
         NEW id \in DOMAIN b.launchers, id # None,
         NEW f \in Fields, NEW v, NEW c, c = WithField(b, id, f, v), NEW told,
         \/ told = Tell(its, id, f, Answer(cfg, c, id, f))
         \/ told = its /\ Answer(cfg, c, id, f) = Answer(cfg, b, id, f)
         \/ told = Tell(its, id, f, v) /\ f = "count"
  PROVE  StateOK(cfg, old, c, told) /\ SameRegistry(b, c)
<1>. DEFINE new == Answer(cfg, c, id, f)
<1>1. /\ BackendShape(b) /\ UrlsMeanLaunchers(b) /\ its = [i \in Items |-> its[i]]
      /\ \A i \in Items : ItemShape(its[i]) /\ ItemStates(its[i]) /\ Fits(cfg, old, b, its[i])
  BY DEF StateOK
<1>2. /\ BackendShape(c) /\ SameRegistry(b, c)
      /\ \A j \in DOMAIN b.launchers : \A g \in Fields :
           c.launchers[j][g] = IF j = id /\ g = f THEN v ELSE b.launchers[j][g]
  <2>1. /\ BackendShape(c)
        /\ c.urls = b.urls /\ c.services = b.services
        /\ c.watched = b.watched /\ c.lost = b.lost /\ c.blacklist = b.blacklist
        /\ DOMAIN c.launchers = DOMAIN b.launchers
        /\ \A j \in DOMAIN b.launchers : \A g \in Fields :
             c.launchers[j][g] = IF j = id /\ g = f THEN v ELSE b.launchers[j][g]
    BY <1>1, SetField
  <2>. QED BY <2>1 DEF SameRegistry
<1>3. \/ told = Tell(its, id, f, new)
      \/ told = its /\ new = Answer(cfg, b, id, f)
      \/ told = Tell(its, id, f, v) /\ f = "count"
  OBVIOUS
<1>4. UrlsMeanLaunchers(c)
  BY <1>1, <1>2 DEF UrlsMeanLaunchers, SameRegistry
<1>5. \A j : \A g \in Fields : ~(j = id /\ g = f) => Answer(cfg, c, j, g) = Answer(cfg, b, j, g)
  BY <1>2 DEF Answer, HasLauncher, Hidden, SameRegistry
<1>6. \A j, g : Excepted(cfg, old, c, j, g) <=> Excepted(cfg, old, b, j, g)
  BY <1>2 DEF Excepted, HasLauncher, Hidden, SameRegistry
<1>7. f = "count" => new = v \/ Excepted(cfg, old, c, id, f)
  <2>1. HasLauncher(c, id) /\ c.launchers[id][f] = v
    BY <1>2 DEF HasLauncher, SameRegistry
  <2>. QED BY <2>1 DEF Answer, Excepted
<1>. DEFINE AsSet(it) == it.shows[f] = Shown(f, new)
            AsWas(i) == new = Answer(cfg, b, id, f) /\ told[i].shows[f] = its[i].shows[f]
            AsCame(it) == f = "count" /\ it.shows[f] = Shown(f, v)
            Told ==
              /\ told = [i \in Items |-> told[i]]
              /\ \A i \in Items :
                   /\ ItemShape(told[i]) /\ ItemStates(told[i]) /\ told[i].id = its[i].id
                   /\ \A g \in Fields :
                        ~(told[i].id = id /\ g = f) => told[i].shows[g] = its[i].shows[g]
                   /\ told[i].id = id => AsSet(told[i]) \/ AsWas(i) \/ AsCame(told[i])
<1>8. Told
  <2>1. CASE told = its /\ new = Answer(cfg, b, id, f)
    BY <1>1, <2>1
  <2>2. ASSUME NEW w, told = Tell(its, id, f, w), w = new \/ (w = v /\ f = "count")
        PROVE  Told
    <3>1. AreTold(its, told, id, f, w)
      <4>1. WellFormed(its)
        BY <1>1 DEF WellFormed
      <4>. QED BY <2>2, <4>1, TellItems
    <3>2. \A i \in Items : its[i].id = id => its[i].inited
      BY <1>1 DEF ItemStates
    <3>. QED BY <2>2, <3>1, <3>2 DEF AreTold
  <2>. QED BY <1>3, <2>1, <2>2
<1>9. ASSUME NEW i \in Items, NEW g \in Fields
      PROVE  \/ told[i].shows[g] = Said(cfg, c, told[i].id, g)
             \/ told[i].id # None /\ Excepted(cfg, old, c, told[i].id, g)
  <2>1. \/ its[i].shows[g] = Said(cfg, b, its[i].id, g)
        \/ its[i].id # None /\ Excepted(cfg, old, b, its[i].id, g)
    BY <1>1 DEF Fits
  <2>2. CASE ~(told[i].id = id /\ g = f)
    BY <1>5, <1>6, <1>8, <2>1, <2>2 DEF Said
  <2>3. CASE told[i].id = id /\ g = f
    <3>1. CASE told[i].shows[f] = Shown(f, new)
      BY <2>3, <3>1 DEF Said
    <3>2. CASE new = Answer(cfg, b, id, f) /\ told[i].shows[f] = its[i].shows[f]
      BY <1>6, <1>8, <2>1, <2>3, <3>2 DEF Said
    <3>3. CASE f = "count" /\ told[i].shows[f] = Shown(f, v)
      BY <1>7, <2>3, <3>3 DEF Said
    <3>. QED BY <1>8, <2>3, <3>1, <3>2, <3>3
  <2>. QED BY <2>2, <2>3
<1>10. \A i \in Items : Fits(cfg, old, c, told[i])
  BY <1>9 DEF Fits
<1>11. StateOK(cfg, old, c, told)
  BY <1>2, <1>4, <1>8, <1>10 DEF StateOK
<1>. QED BY <1>2, <1>11

-----------------------------------------------------------------------------
(* One update *)

\* A backend and its items, as update hands them on.
Good(st) ==
  st = [backend |-> st.backend, items |-> st.items] /\ StateOK(settings, stale, st.backend, st.items)

Keeps(st, r) == Good(r) /\ SameRegistry(st.backend, r.backend)

\* Setting a property, and telling of it when the answer changes, keeps every item
\* right.
LEMMA PropertyKeeps ==
  ASSUME NEW st, Good(st), NEW id \in DOMAIN st.backend.launchers, id # None,
         NEW props, NEW f \in Fields, NEW r, r = UpdateLauncherProperty(st, id, props, f)
  PROVE  Keeps(st, r)
<1>1. CASE f \notin DOMAIN props
  <2>1. r = st
    BY <1>1 DEF UpdateLauncherProperty
  <2>. QED BY <2>1 DEF Keeps, SameRegistry
<1>2. CASE f \in DOMAIN props
  <2>. DEFINE b == WithField(st.backend, id, f, Value(f, props[f]))
              new == Answer(settings, b, id, f)
              told == IF new # Answer(settings, st.backend, id, f)
                      THEN Tell(st.items, id, f, new) ELSE st.items
  <2>1. r = [backend |-> b, items |-> told]
    BY <1>2 DEF UpdateLauncherProperty
  <2>2. \/ told = Tell(st.items, id, f, Answer(settings, b, id, f))
        \/ told = st.items /\ Answer(settings, b, id, f) = Answer(settings, st.backend, id, f)
    OBVIOUS
  <2>3. b = WithField(st.backend, id, f, Value(f, props[f]))
    OBVIOUS
  <2>. HIDE DEF b, told
  <2>4. StateOK(settings, stale, st.backend, st.items)
    BY DEF Good
  <2>5. StateOK(settings, stale, b, told) /\ SameRegistry(st.backend, b)
    BY <2>2, <2>3, <2>4, SetAndTold
  <2>. QED BY <2>1, <2>5 DEF Keeps, Good
<1>. QED BY <1>1, <1>2

\* So does what update itself does with the count.
LEMMA CountKeeps ==
  ASSUME NEW st, Good(st), NEW id \in DOMAIN st.backend.launchers, id # None,
         NEW props, NEW r, r = UpdateCount(st, id, props)
  PROVE  Keeps(st, r)
<1>. DEFINE n == ToInt(props["count"])
            b == WithField(st.backend, id, "count", n)
            told == Tell(st.items, id, "count", n)
<1>1. \/ r = st
      \/ r = [backend |-> b, items |-> told]
  <2>. HIDE DEF n
  <2>. QED BY DEF UpdateCount, n
<1>2. StateOK(settings, stale, st.backend, st.items) /\ "count" \in Fields
  BY DEF Good, Fields
<1>3. b = WithField(st.backend, id, "count", n) /\ told = Tell(st.items, id, "count", n)
  OBVIOUS
<1>. HIDE DEF n, b, told
<1>4. StateOK(settings, stale, b, told) /\ SameRegistry(st.backend, b)
  BY <1>2, <1>3, SetAndTold
<1>. QED BY <1>1, <1>4 DEF Keeps, Good, SameRegistry

\* All of them, one after the other.
LEMMA PropertiesKeep ==
  ASSUME NEW st, Good(st), NEW id \in DOMAIN st.backend.launchers, id # None,
         NEW props, NEW r, r = UpdateProperties(st, id, props)
  PROVE  Keeps(st, r)
<1>. DEFINE s0 == UpdateCount(st, id, props)
            s1 == UpdateLauncherProperty(s0, id, props, "count")
            s2 == UpdateLauncherProperty(s1, id, props, "countVisible")
            s3 == UpdateLauncherProperty(s2, id, props, "progress")
            s4 == UpdateLauncherProperty(s3, id, props, "progressVisible")
<1>1. r = UpdateLauncherProperty(s4, id, props, "urgent")
  BY DEF UpdateProperties
<1>2. /\ "count" \in Fields /\ "countVisible" \in Fields /\ "progress" \in Fields
      /\ "progressVisible" \in Fields /\ "urgent" \in Fields
  BY DEF Fields
<1>. HIDE DEF s0, s1, s2, s3, s4
<1>3. Keeps(st, s0)
  BY CountKeeps DEF s0
<1>4. \A q : Keeps(st, q) => Good(q) /\ id \in DOMAIN q.backend.launchers
  BY DEF Keeps, SameRegistry
<1>5. \A q, w : Keeps(st, q) /\ Keeps(q, w) => Keeps(st, w)
  BY DEF Keeps, SameRegistry
<1>6. \A q : \A f \in Fields : Keeps(st, q) => Keeps(st, UpdateLauncherProperty(q, id, props, f))
  <2>. SUFFICES ASSUME NEW q, NEW f \in Fields, Keeps(st, q)
                PROVE  Keeps(st, UpdateLauncherProperty(q, id, props, f))
    OBVIOUS
  <2>1. Good(q) /\ id \in DOMAIN q.backend.launchers
    BY <1>4
  <2>2. Keeps(q, UpdateLauncherProperty(q, id, props, f))
    BY <2>1, PropertyKeeps
  <2>. QED BY <1>5, <2>2
<1>7. Keeps(st, s1)
  BY <1>2, <1>3, <1>6 DEF s1
<1>8. Keeps(st, s2)
  BY <1>2, <1>7, <1>6 DEF s2
<1>9. Keeps(st, s3)
  BY <1>2, <1>8, <1>6 DEF s3
<1>10. Keeps(st, s4)
  BY <1>2, <1>9, <1>6 DEF s4
<1>. QED BY <1>1, <1>2, <1>6, <1>10

\* Making a launcher that is not there changes what nobody shows.
LEMMA LauncherMade ==
  ASSUME NEW cfg, NEW old, NEW b, NEW its, StateOK(cfg, old, b, its), NEW id, id # None,
         NEW c, c = WithLauncher(b, id)
  PROVE  /\ StateOK(cfg, old, c, its) /\ DOMAIN c.launchers = DOMAIN b.launchers \union {id}
         /\ c.urls = b.urls /\ c.services = b.services /\ c.lost = b.lost
<1>1. /\ BackendShape(b) /\ UrlsMeanLaunchers(b) /\ its = [i \in Items |-> its[i]]
      /\ \A i \in Items : ItemShape(its[i]) /\ ItemStates(its[i]) /\ Fits(cfg, old, b, its[i])
  BY DEF StateOK
<1>2. b = [launchers |-> b.launchers, urls |-> b.urls, services |-> b.services,
           watched |-> b.watched, lost |-> b.lost, blacklist |-> b.blacklist]
  BY <1>1 DEF BackendShape
<1>3. CASE HasLauncher(b, id)
  <2>1. c = b
    BY <1>3 DEF WithLauncher
  <2>. QED BY <1>3, <2>1 DEF HasLauncher
<1>4. CASE ~HasLauncher(b, id)
  <2>. DEFINE new == Put(b.launchers, id, Entry)
  <2>1. c = [launchers |-> new, urls |-> b.urls, services |-> b.services,
             watched |-> b.watched, lost |-> b.lost, blacklist |-> b.blacklist]
    BY <1>2, <1>4 DEF WithLauncher
  <2>2. /\ b.launchers = [j \in DOMAIN b.launchers |-> b.launchers[j]]
        /\ \A j \in DOMAIN b.launchers : b.launchers[j] = [g \in Fields |-> b.launchers[j][g]]
    BY <1>1 DEF BackendShape
  <2>3. /\ DOMAIN new = DOMAIN b.launchers \union {id}
        /\ new = [j \in DOMAIN new |-> new[j]]
        /\ new[id] = Entry
        /\ \A j \in DOMAIN b.launchers : new[j] = b.launchers[j]
    BY <1>4 DEF Put, HasLauncher
  <2>. HIDE DEF new
  <2>4. /\ c.launchers = new /\ c.urls = b.urls /\ c.services = b.services
        /\ c.watched = b.watched /\ c.lost = b.lost /\ c.blacklist = b.blacklist
    BY <2>1
  <2>5. BackendShape(c) /\ UrlsMeanLaunchers(c)
    <3>1. \A j \in DOMAIN new : new[j] = [g \in Fields |-> new[j][g]]
      BY <2>2, <2>3, EntryShows
    <3>2. c = [launchers |-> c.launchers, urls |-> c.urls, services |-> c.services,
               watched |-> c.watched, lost |-> c.lost, blacklist |-> c.blacklist]
      BY <2>1, <2>4
    <3>. QED BY <1>1, <2>3, <2>4, <3>1, <3>2 DEF BackendShape, UrlsMeanLaunchers
  <2>6. \A j : \A g \in Fields : Answer(cfg, c, j, g) = Answer(cfg, b, j, g)
    <3>1. \A g \in Fields : c.launchers[id][g] = Entry[g]
      BY <2>3, <2>4
    <3>2. \A j : Hidden(cfg, c, j) <=> Hidden(cfg, b, j)
      BY <2>4 DEF Hidden
    <3>. QED BY <1>4, <2>3, <2>4, <3>1, <3>2 DEF Answer, HasLauncher
  <2>7. \A j, g : Excepted(cfg, old, b, j, g) => Excepted(cfg, old, c, j, g)
    BY <2>3, <2>4 DEF Excepted, HasLauncher, Hidden
  <2>8. \A i \in Items : Fits(cfg, old, c, its[i])
    BY <1>1, <2>6, <2>7 DEF Fits, Said
  <2>9. StateOK(cfg, old, c, its)
    BY <1>1, <2>5, <2>8 DEF StateOK
  <2>. QED BY <2>3, <2>4, <2>9
<1>. QED BY <1>3, <1>4

\* The URLs nobody stands for when a service is registered.
LostBy(b, service) ==
  IF service \in DOMAIN b.services THEN b.lost \union {b.services[service]} ELSE b.lost

\* Nor does a new URI.
LEMMA Registered ==
  ASSUME NEW cfg, NEW old, NEW b, NEW its, StateOK(cfg, old, b, its), NEW service, NEW uri,
         StorageOf[uri] # None, NEW c, c = Register(b, service, uri)
  PROVE  /\ StateOK(cfg, old, c, its) /\ c.launchers = b.launchers
         /\ c.urls = Put(b.urls, uri, StorageOf[uri]) /\ c.services = Put(b.services, service, uri)
         /\ c.lost = LostBy(b, service)
<1>1. /\ BackendShape(b) /\ UrlsMeanLaunchers(b) /\ its = [i \in Items |-> its[i]]
      /\ \A i \in Items : ItemShape(its[i]) /\ ItemStates(its[i]) /\ Fits(cfg, old, b, its[i])
  BY DEF StateOK
<1>2. b = [launchers |-> b.launchers, urls |-> b.urls, services |-> b.services,
           watched |-> b.watched, lost |-> b.lost, blacklist |-> b.blacklist]
  BY <1>1 DEF BackendShape
<1>3. c = [launchers |-> b.launchers, urls |-> Put(b.urls, uri, StorageOf[uri]),
           services |-> Put(b.services, service, uri), watched |-> b.watched \union {service},
           lost |-> LostBy(b, service), blacklist |-> b.blacklist]
  BY <1>2 DEF Register, LostBy
<1>4. /\ c.launchers = b.launchers /\ c.urls = Put(b.urls, uri, StorageOf[uri])
      /\ c.services = Put(b.services, service, uri) /\ c.lost = LostBy(b, service)
      /\ c.blacklist = b.blacklist
  BY <1>3
<1>5. BackendShape(c)
  <2>1. c = [launchers |-> c.launchers, urls |-> c.urls, services |-> c.services,
             watched |-> c.watched, lost |-> c.lost, blacklist |-> c.blacklist]
    BY <1>3
  <2>. QED BY <1>1, <1>4, <2>1 DEF BackendShape
<1>6. UrlsMeanLaunchers(c)
  BY <1>1, <1>4 DEF UrlsMeanLaunchers, Put
<1>7. \A j, g : /\ Answer(cfg, c, j, g) = Answer(cfg, b, j, g)
                /\ Excepted(cfg, old, b, j, g) => Excepted(cfg, old, c, j, g)
  BY <1>4 DEF Answer, Excepted, HasLauncher, Hidden
<1>8. \A i \in Items : Fits(cfg, old, c, its[i])
  BY <1>1, <1>7 DEF Fits, Said
<1>9. StateOK(cfg, old, c, its)
  BY <1>1, <1>5, <1>6, <1>8 DEF StateOK
<1>. QED BY <1>4, <1>9

\* What update makes of the registry: an unknown URI is registered, if it has a
\* desktop file, and its launcher made.
RegistryUpdated(service, uri, b, c) ==
  \/ c = b /\ uri \notin DOMAIN b.urls
  \/ /\ DOMAIN c.launchers = DOMAIN b.launchers \union {c.urls[uri]}
     /\ \/ /\ uri \in DOMAIN b.urls
           /\ c.urls = b.urls /\ c.services = b.services /\ c.lost = b.lost
        \/ /\ uri \notin DOMAIN b.urls
           /\ c.urls = Put(b.urls, uri, StorageOf[uri])
           /\ c.services = Put(b.services, service, uri) /\ c.lost = LostBy(b, service)

\* update keeps every item right.
LEMMA UpdateStep ==
  ASSUME BadgeInv, NEW service, NEW uri, NEW props, Update(service, uri, props),
         UNCHANGED <<settings, stale>>
  PROVE  BadgeInv' /\ RegistryUpdated(service, uri, backend, backend')
<1>. DEFINE known == uri \in DOMAIN backend.urls
            b == IF known THEN backend ELSE Register(backend, service, uri)
            id == b.urls[uri]
            w == WithLauncher(b, id)
            st == [backend |-> w, items |-> item]
            done == UpdateProperties(st, id, props)
<1>1. StateOK(settings, stale, backend, item)
  BY DEF BadgeInv
<1>2. \/ ~known /\ StorageOf[uri] = None /\ UNCHANGED <<backend, item>>
      \/ (known \/ StorageOf[uri] # None) /\ backend' = done.backend /\ item' = done.items
  BY DEF Update
<1>3. CASE ~known /\ StorageOf[uri] = None /\ UNCHANGED <<backend, item>>
  BY <1>3 DEF BadgeInv, RegistryUpdated
<1>4. CASE (known \/ StorageOf[uri] # None) /\ backend' = done.backend /\ item' = done.items
  <2>1. /\ StateOK(settings, stale, b, item)
        /\ b.launchers = backend.launchers
        /\ b.urls = IF known THEN backend.urls ELSE Put(backend.urls, uri, StorageOf[uri])
        /\ b.services = IF known THEN backend.services ELSE Put(backend.services, service, uri)
        /\ b.lost = IF known THEN backend.lost ELSE LostBy(backend, service)
    BY <1>1, <1>4, Registered
  <2>2. id # None
    BY <1>4, <2>1 DEF StateOK, UrlsMeanLaunchers, Put
  <2>3. w = WithLauncher(b, id)
    OBVIOUS
  <2>4. st = [backend |-> w, items |-> item] /\ id = b.urls[uri]
    OBVIOUS
  <2>. HIDE DEF b, id, w
  <2>5. /\ StateOK(settings, stale, w, item) /\ DOMAIN w.launchers = DOMAIN b.launchers \union {id}
        /\ w.urls = b.urls /\ w.services = b.services /\ w.lost = b.lost
    BY <2>1, <2>2, <2>3, LauncherMade
  <2>. HIDE DEF st
  <2>6. Good(st) /\ id \in DOMAIN st.backend.launchers /\ st.backend = w
    BY <2>4, <2>5 DEF Good
  <2>7. done = UpdateProperties(st, id, props)
    OBVIOUS
  <2>. HIDE DEF done
  <2>8. Keeps(st, done)
    BY <2>2, <2>6, <2>7, PropertiesKeep
  <2>9. StateOK(settings, stale, backend', item') /\ SameRegistry(w, backend')
    BY <1>4, <2>6, <2>8 DEF Keeps, Good
  <2>10. BadgeInv'
    BY <2>9 DEF BadgeInv
  <2>11. /\ backend'.urls = b.urls /\ backend'.services = b.services /\ backend'.lost = b.lost
         /\ DOMAIN backend'.launchers = DOMAIN backend.launchers \union {id}
    BY <2>1, <2>5, <2>9 DEF SameRegistry
  <2>. QED BY <2>1, <2>4, <2>10, <2>11 DEF RegistryUpdated
<1>. QED BY <1>2, <1>3, <1>4

-----------------------------------------------------------------------------
(* The other steps *)

\* An item that is not there, or follows no launcher, shows as a new one, whatever
\* the backend and the settings.
LEMMA NothingToShow ==
  ASSUME NEW cfg, NEW old, NEW b, NEW it, it.id = None \/ ~HasLauncher(b, it.id)
  PROVE  Fits(cfg, old, b, it) <=> \A f \in Fields : it.shows[f] = Entry[f]
<1>1. \A f \in Fields : Said(cfg, b, it.id, f) = Entry[f]
  BY EntryShows DEF Said, Answer
<1>. QED BY <1>1 DEF Fits, Excepted

\* The items of a task manager that has none.
LEMMA AllNew ==
  ASSUME NEW cfg, NEW old, NEW b, BackendShape(b), UrlsMeanLaunchers(b), NEW its,
         its = [i \in Items |-> its[i]],
         \A i \in Items : \/ its[i] = NewItem
                          \/ its[i] = [NewItem EXCEPT !.there = TRUE]
  PROVE  StateOK(cfg, old, b, its)
<1>1. ASSUME NEW it, it = NewItem \/ it = [NewItem EXCEPT !.there = TRUE]
      PROVE  ItemShape(it) /\ ItemStates(it) /\ Fits(cfg, old, b, it)
  <2>1. PICK t \in BOOLEAN :
          it = [there |-> t, url |-> None, id |-> None, inited |-> FALSE, shows |-> Entry]
               /\ (t = FALSE => it = NewItem)
    <3>1. CASE it = NewItem
      BY <3>1 DEF NewItem
    <3>2. CASE it = [NewItem EXCEPT !.there = TRUE]
      BY <3>2 DEF NewItem
    <3>. QED BY <1>1, <3>1, <3>2
  <2>2. ItemShape(it) /\ ItemStates(it)
    <3>1. /\ it.there = t /\ it.url = None /\ it.id = None /\ it.inited = FALSE /\ it.shows = Entry
      BY <2>1
    <3>2. it = [there |-> it.there, url |-> it.url, id |-> it.id, inited |-> it.inited,
                shows |-> it.shows]
      BY <2>1, <3>1
    <3>. QED BY <2>1, <3>1, <3>2, EntryShows DEF ItemShape, ItemStates
  <2>3. it.id = None /\ it.shows = Entry
    BY <2>1
  <2>4. Fits(cfg, old, b, it)
    BY <2>3, NothingToShow
  <2>. QED BY <2>2, <2>4
<1>. QED BY <1>1 DEF StateOK

\* A backend as it is made has its shape.
LEMMA NewBackendShape ==
  ASSUME NEW blacklist
  PROVE  BackendShape(NewBackend(blacklist)) /\ UrlsMeanLaunchers(NewBackend(blacklist))
BY DEF NewBackend, BackendShape, UrlsMeanLaunchers

\* populate shows what the backend answers, if it is called with a clean item or
\* with a launcher to show.
LEMMA PopulateFits ==
  ASSUME NEW cfg, NEW old, NEW b, NEW it, ItemShape(it), ItemStates(it),
         it.id = None \/ ~HasLauncher(b, it.id) => \A f \in Fields : it.shows[f] = Entry[f],
         NEW r, r = Populate(cfg, b, it)
  PROVE  ItemShape(r) /\ ItemStates(r) /\ Fits(cfg, old, b, r)
<1>1. CASE it.id = None \/ ~HasLauncher(b, it.id)
  <2>1. r = it
    BY <1>1 DEF Populate
  <2>. QED BY <1>1, <2>1, NothingToShow
<1>2. CASE ~(it.id = None \/ ~HasLauncher(b, it.id))
  <2>. DEFINE shows == [f \in Fields |-> Shown(f, Answer(cfg, b, it.id, f))]
  <2>1. it = [there |-> it.there, url |-> it.url, id |-> it.id, inited |-> it.inited,
              shows |-> it.shows]
    BY DEF ItemShape
  <2>2. r = [there |-> it.there, url |-> it.url, id |-> it.id, inited |-> it.inited,
             shows |-> shows]
    BY <1>2, <2>1 DEF Populate
  <2>3. /\ shows = [f \in Fields |-> shows[f]]
        /\ \A f \in Fields : shows[f] = Shown(f, Answer(cfg, b, it.id, f))
    OBVIOUS
  <2>. HIDE DEF shows
  <2>4. /\ r.there = it.there /\ r.url = it.url /\ r.id = it.id /\ r.inited = it.inited
        /\ r.shows = shows
    BY <2>2
  <2>5. it.there
    BY <1>2 DEF ItemStates, NewItem
  <2>6. ItemShape(r) /\ ItemStates(r)
    <3>1. r = [there |-> r.there, url |-> r.url, id |-> r.id, inited |-> r.inited,
               shows |-> r.shows]
      BY <2>2, <2>4
    <3>. QED BY <2>3, <2>4, <2>5, <3>1 DEF ItemShape, ItemStates
  <2>7. Fits(cfg, old, b, r)
    BY <1>2, <2>3, <2>4 DEF Fits, Said
  <2>. QED BY <2>6, <2>7
<1>. QED BY <1>1, <1>2

\* What a departed service leaves of the registry.
RegistryForgot(service, b, c) ==
  \/ c = b /\ service \notin DOMAIN b.services
  \/ /\ service \in DOMAIN b.services /\ c.services = Take(b.services, service) /\ c.lost = b.lost
     /\ \/ /\ b.services[service] \notin DOMAIN b.urls
           /\ c.urls = b.urls /\ DOMAIN c.launchers = DOMAIN b.launchers
        \/ /\ b.services[service] \in DOMAIN b.urls
           /\ c.urls = Take(b.urls, b.services[service])
           /\ DOMAIN c.launchers = DOMAIN b.launchers \ {b.urls[b.services[service]]}

\* Removing a launcher and clearing its items keeps every item right.
LEMMA DepartureStep ==
  ASSUME BadgeInv, NEW service, OnServiceUnregistered(service), UNCHANGED <<settings, stale>>
  PROVE  BadgeInv' /\ RegistryForgot(service, backend, backend')
<1>. DEFINE url == backend.services[service]
            id == backend.urls[url]
<1>1. StateOK(settings, stale, backend, item)
  BY DEF BadgeInv
<1>2. /\ BackendShape(backend) /\ UrlsMeanLaunchers(backend) /\ item = [i \in Items |-> item[i]]
      /\ \A i \in Items : ItemShape(item[i]) /\ ItemStates(item[i])
                          /\ Fits(settings, stale, backend, item[i])
  BY <1>1 DEF StateOK
<1>3. backend = [launchers |-> backend.launchers, urls |-> backend.urls,
                 services |-> backend.services, watched |-> backend.watched, lost |-> backend.lost,
                 blacklist |-> backend.blacklist]
  BY <1>2 DEF BackendShape
<1>4. CASE service \notin DOMAIN backend.services
  <2>1. UNCHANGED <<backend, item>>
    BY <1>4 DEF OnServiceUnregistered
  <2>. QED BY <1>4, <2>1 DEF BadgeInv, RegistryForgot
<1>5. CASE service \in DOMAIN backend.services /\ url \notin DOMAIN backend.urls
  <2>1. backend' = [backend EXCEPT !.services = Take(@, service)] /\ UNCHANGED item
    BY <1>3, <1>5 DEF OnServiceUnregistered
  <2>2. backend' = [launchers |-> backend.launchers, urls |-> backend.urls,
                    services |-> Take(backend.services, service),
                    watched |-> backend.watched, lost |-> backend.lost,
                    blacklist |-> backend.blacklist]
    BY <1>3, <2>1
  <2>3. /\ backend'.launchers = backend.launchers /\ backend'.urls = backend.urls
        /\ backend'.services = Take(backend.services, service)
        /\ backend'.lost = backend.lost /\ backend'.blacklist = backend.blacklist
    BY <2>2
  <2>4. BackendShape(backend') /\ UrlsMeanLaunchers(backend')
    <3>1. backend' = [launchers |-> backend'.launchers, urls |-> backend'.urls,
                      services |-> backend'.services,
                      watched |-> backend'.watched, lost |-> backend'.lost,
                      blacklist |-> backend'.blacklist]
      BY <2>2
    <3>. QED BY <1>2, <2>3, <3>1 DEF BackendShape, UrlsMeanLaunchers
  <2>5. \A i \in Items : Fits(settings, stale, backend', item[i])
    BY <1>2, <2>3 DEF Fits, Said, Answer, Excepted, HasLauncher, Hidden
  <2>6. StateOK(settings, stale, backend', item')
    BY <1>2, <2>1, <2>4, <2>5 DEF StateOK
  <2>. QED BY <1>5, <2>3, <2>6 DEF BadgeInv, RegistryForgot
<1>6. CASE service \in DOMAIN backend.services /\ url \in DOMAIN backend.urls
  <2>. DEFINE left == Take(backend.launchers, id)
              Of(i) == item[i].inited /\ item[i].id = id
  <2>1. /\ backend' = [launchers |-> left, urls |-> Take(backend.urls, url),
                       services |-> Take(backend.services, service),
                       watched |-> backend.watched, lost |-> backend.lost,
                       blacklist |-> backend.blacklist]
        /\ item' = [i \in Items |-> IF Of(i) THEN Clear(item[i]) ELSE item[i]]
    BY <1>3, <1>6 DEF OnServiceUnregistered
  <2>2. /\ backend.launchers = [j \in DOMAIN backend.launchers |-> backend.launchers[j]]
        /\ \A j \in DOMAIN backend.launchers :
             backend.launchers[j] = [g \in Fields |-> backend.launchers[j][g]]
    BY <1>2 DEF BackendShape
  <2>3. /\ DOMAIN left = DOMAIN backend.launchers \ {id}
        /\ left = [j \in DOMAIN left |-> left[j]]
        /\ \A j \in DOMAIN left : left[j] = backend.launchers[j]
    BY DEF Take
  <2>. HIDE DEF left
  <2>4. /\ backend'.launchers = left /\ backend'.urls = Take(backend.urls, url)
        /\ backend'.services = Take(backend.services, service)
        /\ backend'.lost = backend.lost /\ backend'.blacklist = backend.blacklist
    BY <2>1
  <2>5. BackendShape(backend')
    <3>1. \A j \in DOMAIN left : left[j] = [g \in Fields |-> left[j][g]]
      BY <2>2, <2>3
    <3>2. backend' = [launchers |-> backend'.launchers, urls |-> backend'.urls,
                      services |-> backend'.services,
                      watched |-> backend'.watched, lost |-> backend'.lost,
                      blacklist |-> backend'.blacklist]
      BY <2>1, <2>4
    <3>. QED BY <2>3, <2>4, <3>1, <3>2 DEF BackendShape
  <2>6. UrlsMeanLaunchers(backend')
    BY <1>2, <2>4 DEF UrlsMeanLaunchers, Take
  <2>7. id # None
    BY <1>2, <1>6 DEF UrlsMeanLaunchers
  <2>8. ASSUME NEW i \in Items
        PROVE  /\ ItemShape(item'[i]) /\ ItemStates(item'[i])
               /\ Fits(settings, stale, backend', item'[i])
    <3>. DEFINE it == item[i]
                new == item'[i]
    <3>1. ItemShape(it) /\ ItemStates(it) /\ Fits(settings, stale, backend, it)
      BY <1>2
    <3>2. new = IF it.inited /\ it.id = id THEN [it EXCEPT !.shows = Entry] ELSE it
      BY <2>1 DEF Clear
    <3>. HIDE DEF it, new
    <3>3. CASE it.inited /\ it.id = id
      <4>1. it = [there |-> it.there, url |-> it.url, id |-> it.id, inited |-> it.inited,
                  shows |-> it.shows]
        BY <3>1 DEF ItemShape
      <4>2. new = [there |-> it.there, url |-> it.url, id |-> it.id, inited |-> it.inited,
                   shows |-> Entry]
        BY <3>2, <3>3, <4>1
      <4>3. /\ new.there = it.there /\ new.url = it.url /\ new.id = it.id
            /\ new.inited = it.inited /\ new.shows = Entry
        BY <4>2
      <4>4. it.there
        BY <3>1, <3>3 DEF ItemStates, NewItem
      <4>5. ItemShape(new) /\ ItemStates(new)
        <5>1. new = [there |-> new.there, url |-> new.url, id |-> new.id,
                     inited |-> new.inited, shows |-> new.shows]
          BY <4>2, <4>3
        <5>. QED BY <3>1, <3>3, <4>3, <4>4, <5>1, EntryShows DEF ItemShape, ItemStates
      <4>6. ~HasLauncher(backend', new.id)
        BY <2>3, <2>4, <3>3, <4>3 DEF HasLauncher
      <4>7. Fits(settings, stale, backend', new)
        BY <4>3, <4>6, NothingToShow
      <4>. QED BY <4>5, <4>7 DEF new
    <3>4. CASE ~(it.inited /\ it.id = id)
      <4>1. new = it
        BY <3>2, <3>4
      <4>2. it.id # id
        BY <2>7, <3>1, <3>4 DEF ItemStates
      <4>3. Fits(settings, stale, backend', it)
        <5>1. \A g \in Fields : /\ Said(settings, backend', it.id, g) = Said(settings, backend, it.id, g)
                                /\ Excepted(settings, stale, backend, it.id, g)
                                     => Excepted(settings, stale, backend', it.id, g)
          BY <2>3, <2>4, <4>2 DEF Said, Answer, Excepted, HasLauncher, Hidden
        <5>. QED BY <3>1, <5>1 DEF Fits
      <4>. QED BY <3>1, <4>1, <4>3 DEF new
    <3>. QED BY <3>3, <3>4
  <2>9. item' = [i \in Items |-> item'[i]]
    BY <2>1
  <2>10. StateOK(settings, stale, backend', item')
    BY <2>5, <2>6, <2>8, <2>9 DEF StateOK
  <2>. QED BY <1>6, <2>3, <2>4, <2>10 DEF BadgeInv, RegistryForgot
<1>. QED BY <1>4, <1>5, <1>6

\* No task manager runs at first.
LEMMA BadgeInit == Init => BadgeInv
<1>. SUFFICES ASSUME Init PROVE BadgeInv
  OBVIOUS
<1>1. /\ settings = [badges |-> TRUE, blacklist |-> {}, dnd |-> FALSE] /\ stale = FALSE
      /\ backend = NewBackend(settings.blacklist) /\ item = [i \in Items |-> NewItem]
  BY DEF Init
<1>2. BackendShape(backend) /\ UrlsMeanLaunchers(backend)
  BY <1>1, NewBackendShape
<1>3. item = [i \in Items |-> item[i]] /\ \A i \in Items : item[i] = NewItem
  BY <1>1
<1>4. StateOK(settings, stale, backend, item)
  BY <1>2, <1>3, AllNew
<1>. QED BY <1>1, <1>4 DEF BadgeInv

\* A new item is right, and the backend the first one makes.
LEMMA CreateStep ==
  ASSUME BadgeInv, NEW i \in Items, Create(i)
  PROVE  BadgeInv'
<1>1. /\ item' = [item EXCEPT ![i] = [NewItem EXCEPT !.there = TRUE]]
      /\ UNCHANGED <<settings, bus>> /\ ~item[i].there
  BY DEF Create
<1>2. /\ BackendShape(backend) /\ UrlsMeanLaunchers(backend) /\ item = [k \in Items |-> item[k]]
      /\ \A k \in Items : ItemShape(item[k]) /\ ItemStates(item[k])
                          /\ Fits(settings, stale, backend, item[k])
  BY DEF BadgeInv, StateOK
<1>3. /\ item' = [k \in Items |-> item'[k]]
      /\ \A k \in Items : item'[k] = IF k = i THEN [NewItem EXCEPT !.there = TRUE] ELSE item[k]
  BY <1>1, <1>2
<1>4. CASE There(item) = {}
  <2>1. backend' = NewBackend(settings.blacklist) /\ stale' = (stale /\ There(item) # {})
    BY <1>4 DEF Create
  <2>2. stale' = FALSE
    BY <1>4, <2>1
  <2>3. BackendShape(backend') /\ UrlsMeanLaunchers(backend')
    BY <2>1, NewBackendShape
  <2>4. \A k \in Items : item[k] = NewItem
    BY <1>2, <1>4 DEF There, ItemStates
  <2>5. \A k \in Items : item'[k] = NewItem \/ item'[k] = [NewItem EXCEPT !.there = TRUE]
    BY <1>3, <2>4
  <2>6. StateOK(settings, stale', backend', item')
    BY <1>3, <2>3, <2>5, AllNew
  <2>. QED BY <1>1, <2>2, <2>6 DEF BadgeInv
<1>5. CASE There(item) # {}
  <2>1. backend' = backend /\ stale' = (stale /\ There(item) # {})
    BY <1>5 DEF Create
  <2>2. stale' = stale
    BY <1>5, <2>1 DEF BadgeInv
  <2>3. StateOK(settings, stale, backend, [k \in Items |-> [NewItem EXCEPT !.there = TRUE]])
    <3>. DEFINE its == [k \in Items |-> [NewItem EXCEPT !.there = TRUE]]
    <3>1. /\ its = [k \in Items |-> its[k]]
          /\ \A k \in Items : its[k] = NewItem \/ its[k] = [NewItem EXCEPT !.there = TRUE]
      OBVIOUS
    <3>. HIDE DEF its
    <3>. QED BY <1>2, <3>1, AllNew
  <2>4. /\ ItemShape([NewItem EXCEPT !.there = TRUE]) /\ ItemStates([NewItem EXCEPT !.there = TRUE])
        /\ Fits(settings, stale, backend, [NewItem EXCEPT !.there = TRUE])
    BY <2>3 DEF StateOK
  <2>5. StateOK(settings, stale, backend', item')
    BY <1>2, <1>3, <2>1, <2>4 DEF StateOK
  <2>. QED BY <1>1, <2>2, <2>5 DEF BadgeInv
<1>. QED BY <1>4, <1>5

\* Those that stay are right, and the last one leaves nothing.
LEMMA DestroyStep ==
  ASSUME BadgeInv, NEW i \in Items, Destroy(i)
  PROVE  BadgeInv'
<1>1. item' = [item EXCEPT ![i] = NewItem] /\ UNCHANGED <<settings, stale>>
  BY DEF Destroy
<1>2. /\ BackendShape(backend) /\ UrlsMeanLaunchers(backend) /\ item = [k \in Items |-> item[k]]
      /\ \A k \in Items : ItemShape(item[k]) /\ ItemStates(item[k])
                          /\ Fits(settings, stale, backend, item[k])
  BY DEF BadgeInv, StateOK
<1>3. /\ item' = [k \in Items |-> item'[k]]
      /\ \A k \in Items : item'[k] = IF k = i THEN NewItem ELSE item[k]
  BY <1>1, <1>2
<1>4. ItemShape(NewItem) /\ ItemStates(NewItem) /\ \A b : Fits(settings, stale, b, NewItem)
  <2>1. /\ NewItem.there = FALSE /\ NewItem.inited = FALSE /\ NewItem.url = None
        /\ NewItem.id = None /\ NewItem.shows = Entry
    BY DEF NewItem
  <2>2. ItemShape(NewItem) /\ ItemStates(NewItem)
    BY <2>1, EntryShows DEF ItemShape, ItemStates, NewItem
  <2>. QED BY <2>1, <2>2, NothingToShow
<1>5. /\ BackendShape(backend') /\ UrlsMeanLaunchers(backend')
      /\ backend' = backend \/ \A k \in Items : item'[k] = NewItem
  <2>1. CASE There(item') = {}
    <3>1. backend' = NewBackend({})
      BY <2>1 DEF Destroy
    <3>2. \A k \in Items : ItemStates(item'[k])
      BY <1>2, <1>3, <1>4
    <3>. QED BY <2>1, <3>1, <3>2, NewBackendShape DEF There, ItemStates
  <2>2. CASE There(item') # {}
    BY <1>2, <2>2 DEF Destroy
  <2>. QED BY <2>1, <2>2
<1>6. \A k \in Items : /\ ItemShape(item'[k]) /\ ItemStates(item'[k])
                       /\ Fits(settings, stale, backend', item'[k])
  BY <1>2, <1>3, <1>4, <1>5
<1>7. StateOK(settings, stale, backend', item')
  BY <1>3, <1>5, <1>6 DEF StateOK
<1>. QED BY <1>1, <1>7 DEF BadgeInv

\* An item that gets another URL is cleared and populated.
LEMMA SetLauncherUrlStep ==
  ASSUME BadgeInv, NEW i \in Items, NEW url, SetLauncherUrl(i, url)
  PROVE  BadgeInv'
<1>. DEFINE menuId == MenuIdOf[url]
            id == IF menuId \in DOMAIN MappingRules THEN MappingRules[menuId] ELSE menuId
            it == [there |-> TRUE, url |-> url, id |-> id,
                   inited |-> item[i].inited \/ id # None, shows |-> Entry]
            new == Populate(settings, backend, it)
<1>1. /\ item' = [item EXCEPT ![i] = new] /\ UNCHANGED <<backend, settings, stale>>
      /\ item[i].there
  BY DEF SetLauncherUrl
<1>2. /\ BackendShape(backend) /\ UrlsMeanLaunchers(backend) /\ item = [k \in Items |-> item[k]]
      /\ \A k \in Items : ItemShape(item[k]) /\ ItemStates(item[k])
                          /\ Fits(settings, stale, backend, item[k])
  BY DEF BadgeInv, StateOK
<1>. HIDE DEF id
<1>3. it = [there |-> TRUE, url |-> url, id |-> id, inited |-> item[i].inited \/ id # None,
            shows |-> Entry]
  OBVIOUS
<1>4. new = Populate(settings, backend, it)
  OBVIOUS
<1>. HIDE DEF it, new
<1>5. /\ it.there = TRUE /\ it.url = url /\ it.id = id /\ it.shows = Entry
      /\ it.inited = (item[i].inited \/ id # None)
  BY <1>3
<1>6. ItemShape(it) /\ ItemStates(it)
  <2>1. it = [there |-> it.there, url |-> it.url, id |-> it.id, inited |-> it.inited,
              shows |-> it.shows]
    BY <1>3, <1>5
  <2>2. it.inited \in BOOLEAN /\ (it.id # None => it.inited)
    BY <1>5
  <2>. QED BY <1>1, <1>2, <1>5, <2>1, <2>2, EntryShows DEF ItemShape, ItemStates
<1>7. ItemShape(new) /\ ItemStates(new) /\ Fits(settings, stale, backend, new)
  BY <1>4, <1>5, <1>6, PopulateFits
<1>8. /\ item' = [k \in Items |-> item'[k]]
      /\ \A k \in Items : item'[k] = IF k = i THEN new ELSE item[k]
  BY <1>1, <1>2
<1>9. StateOK(settings, stale, backend, item')
  BY <1>2, <1>7, <1>8 DEF StateOK
<1>. QED BY <1>1, <1>9 DEF BadgeInv

\* A reload populates every item that follows a launcher.
LEMMA SettingsStep ==
  ASSUME BadgeInv, SettingsChanged
  PROVE  BadgeInv'
<1>1. /\ \A i \in Items : ItemShape(item[i]) /\ ItemStates(item[i])
                          /\ Fits(settings, stale, backend, item[i])
      /\ BackendShape(backend) /\ UrlsMeanLaunchers(backend)
  BY DEF BadgeInv, StateOK
<1>2. PICK badges \in BOOLEAN, blacklist \in Blacklists :
        settings' = [settings EXCEPT !.badges = badges, !.blacklist = blacklist]
  BY DEF SettingsChanged
<1>3. settings' = [badges |-> settings'.badges, blacklist |-> settings'.blacklist,
                   dnd |-> settings'.dnd]
  <2>1. settings = [badges |-> settings.badges, blacklist |-> settings.blacklist,
                    dnd |-> settings.dnd]
    BY DEF BadgeInv
  <2>2. settings' = [badges |-> badges, blacklist |-> blacklist, dnd |-> settings.dnd]
    BY <1>2, <2>1
  <2>. QED BY <2>2
<1>4. /\ backend' = IF There(item) = {} THEN backend
                    ELSE [backend EXCEPT !.blacklist = settings'.blacklist]
      /\ item' = [i \in Items |-> IF item[i].inited THEN Populate(settings', backend', item[i])
                                                    ELSE item[i]]
      /\ stale' = FALSE
  BY DEF SettingsChanged, Reload
<1>5. /\ BackendShape(backend') /\ UrlsMeanLaunchers(backend')
      /\ backend'.launchers = backend.launchers
  <2>1. CASE There(item) = {}
    BY <1>1, <1>4, <2>1
  <2>2. CASE There(item) # {}
    <3>1. backend' = [launchers |-> backend.launchers, urls |-> backend.urls,
                      services |-> backend.services,
                      watched |-> backend.watched, lost |-> backend.lost,
                      blacklist |-> settings'.blacklist]
      BY <1>1, <1>4, <2>2 DEF BackendShape
    <3>2. /\ backend'.launchers = backend.launchers /\ backend'.urls = backend.urls
          /\ backend'.services = backend.services /\ backend'.watched = backend.watched
          /\ backend'.lost = backend.lost
          /\ backend'.blacklist = settings'.blacklist
      BY <3>1
    <3>3. backend' = [launchers |-> backend'.launchers, urls |-> backend'.urls,
                      services |-> backend'.services,
                      watched |-> backend'.watched, lost |-> backend'.lost,
                      blacklist |-> backend'.blacklist]
      BY <3>1, <3>2
    <3>. QED BY <1>1, <3>2, <3>3 DEF BackendShape, UrlsMeanLaunchers
  <2>. QED BY <2>1, <2>2
<1>6. ASSUME NEW i \in Items
      PROVE  /\ ItemShape(item'[i]) /\ ItemStates(item'[i])
             /\ Fits(settings', FALSE, backend', item'[i])
  <2>. DEFINE it == item[i]
  <2>1. ItemShape(it) /\ ItemStates(it) /\ Fits(settings, stale, backend, it)
    BY <1>1
  <2>2. item'[i] = IF it.inited THEN Populate(settings', backend', it) ELSE it
    BY <1>4
  <2>. HIDE DEF it
  <2>3. it.id = None \/ ~HasLauncher(backend', it.id) => \A f \in Fields : it.shows[f] = Entry[f]
    <3>1. HasLauncher(backend', it.id) <=> HasLauncher(backend, it.id)
      BY <1>5 DEF HasLauncher
    <3>. QED BY <2>1, <3>1, NothingToShow
  <2>4. CASE it.inited
    BY <2>1, <2>2, <2>3, <2>4, PopulateFits
  <2>5. CASE ~it.inited
    <3>1. it.id = None
      BY <2>1, <2>5 DEF ItemStates
    <3>2. Fits(settings', FALSE, backend', it)
      BY <2>3, <3>1, NothingToShow
    <3>. QED BY <2>1, <2>2, <2>5, <3>2
  <2>. QED BY <2>4, <2>5
<1>7. item' = [i \in Items |-> item'[i]]
  BY <1>4
<1>8. StateOK(settings', FALSE, backend', item')
  BY <1>5, <1>6, <1>7 DEF StateOK
<1>. QED BY <1>3, <1>4, <1>8 DEF BadgeInv

\* do-not-disturb is told to nobody, and what items show is stale until a reload.
LEMMA DoNotDisturbStep ==
  ASSUME BadgeInv, DoNotDisturbChanges
  PROVE  BadgeInv'
<1>1. /\ settings' = [settings EXCEPT !.dnd = ~@] /\ stale' = (There(item) # {})
      /\ UNCHANGED <<backend, item>>
  BY DEF DoNotDisturbChanges
<1>2. /\ BackendShape(backend) /\ UrlsMeanLaunchers(backend) /\ item = [i \in Items |-> item[i]]
      /\ \A i \in Items : ItemShape(item[i]) /\ ItemStates(item[i])
                          /\ Fits(settings, stale, backend, item[i])
  BY DEF BadgeInv, StateOK
<1>3. settings' = [badges |-> settings'.badges, blacklist |-> settings'.blacklist,
                   dnd |-> settings'.dnd]
  <2>1. settings = [badges |-> settings.badges, blacklist |-> settings.blacklist,
                    dnd |-> settings.dnd]
    BY DEF BadgeInv
  <2>2. settings' = [badges |-> settings.badges, blacklist |-> settings.blacklist,
                     dnd |-> ~settings.dnd]
    BY <1>1, <2>1
  <2>. QED BY <2>2
<1>4. ASSUME NEW i \in Items
      PROVE  Fits(settings', stale', backend, item[i])
  <2>. DEFINE it == item[i]
  <2>1. ItemStates(it) /\ Fits(settings, stale, backend, it)
    BY <1>2
  <2>. HIDE DEF it
  <2>2. CASE it.id = None \/ ~HasLauncher(backend, it.id)
    BY <2>1, <2>2, NothingToShow DEF it
  <2>3. CASE ~(it.id = None \/ ~HasLauncher(backend, it.id))
    <3>1. it.there
      BY <2>3, <2>1 DEF ItemStates, NewItem
    <3>2. stale'
      BY <1>1, <3>1 DEF There, it
    <3>3. ASSUME NEW f \in Fields
          PROVE  it.shows[f] = Said(settings', backend, it.id, f)
                 \/ Excepted(settings', stale', backend, it.id, f)
      <4>1. CASE f \in {"count", "countVisible"}
        BY <2>3, <3>2, <4>1 DEF Excepted
      <4>2. CASE f \notin {"count", "countVisible"}
        <5>1. ~Excepted(settings, stale, backend, it.id, f)
          BY <4>2 DEF Excepted
        <5>2. Said(settings', backend, it.id, f) = Said(settings, backend, it.id, f)
          BY <4>2 DEF Said, Answer
        <5>. QED BY <2>1, <5>1, <5>2 DEF Fits
      <4>. QED BY <4>1, <4>2
    <3>. QED BY <2>3, <3>3 DEF Fits, it
  <2>. QED BY <2>2, <2>3
<1>5. StateOK(settings', stale', backend', item')
  BY <1>1, <1>2, <1>4 DEF StateOK
<1>6. stale' \in BOOLEAN
  BY <1>1
<1>. QED BY <1>3, <1>5, <1>6 DEF BadgeInv

\* Reading a message is an update or a departure.
LEMMA ReadsStep ==
  ASSUME BadgeInv, Reads
  PROVE  LET m == Head(bus.inbox)
         IN /\ BadgeInv'
            /\ \/ "left" \in DOMAIN m /\ RegistryForgot(m.from, backend, backend')
               \/ "left" \notin DOMAIN m /\ RegistryUpdated(m.from, m.uri, backend, backend')
<1>. DEFINE m == Head(bus.inbox)
<1>1. UNCHANGED <<settings, stale>>
  BY DEF Reads
<1>2. CASE "left" \in DOMAIN m
  <2>1. OnServiceUnregistered(m.from)
    BY <1>2 DEF Reads
  <2>. HIDE DEF m
  <2>2. BadgeInv' /\ RegistryForgot(m.from, backend, backend')
    BY <1>1, <2>1, DepartureStep
  <2>. QED BY <1>2, <2>2 DEF m
<1>3. CASE "left" \notin DOMAIN m
  <2>1. Update(m.from, m.uri, m.props)
    BY <1>3 DEF Reads
  <2>. HIDE DEF m
  <2>2. BadgeInv' /\ RegistryUpdated(m.from, m.uri, backend, backend')
    BY <1>1, <2>1, UpdateStep
  <2>. QED BY <1>3, <2>2 DEF m
<1>. QED BY <1>2, <1>3

\* Every step keeps the items right.
LEMMA BadgeNext == BadgeInv /\ [Next]_vars => BadgeInv'
<1>. SUFFICES ASSUME BadgeInv, [Next]_vars PROVE BadgeInv'
  OBVIOUS
<1>1. CASE UNCHANGED <<backend, item, settings, stale>>
  BY <1>1 DEF BadgeInv
<1>2. ASSUME NEW i \in Items, Create(i) PROVE BadgeInv'
  BY <1>2, CreateStep
<1>3. ASSUME NEW i \in Items, Destroy(i) PROVE BadgeInv'
  BY <1>3, DestroyStep
<1>4. ASSUME NEW i \in Items, NEW url, SetLauncherUrl(i, url) PROVE BadgeInv'
  BY <1>4, SetLauncherUrlStep
<1>5. CASE SettingsChanged
  BY <1>5, SettingsStep
<1>6. CASE DoNotDisturbChanges
  BY <1>6, DoNotDisturbStep
<1>7. CASE Reads
  BY <1>7, ReadsStep
<1>8. ASSUME NEW s \in Services,
             TakesRule(s) \/ Leaves(s) \/ \E u \in DOMAIN StorageOf, p \in Updates : Sends(s, u, p)
      PROVE  UNCHANGED <<backend, item, settings, stale>>
  BY <1>8 DEF TakesRule, Leaves, Sends
<1>9. CASE UNCHANGED vars
  BY <1>1, <1>9 DEF vars
<1>. QED BY <1>1, <1>2, <1>3, <1>4, <1>5, <1>6, <1>7, <1>8, <1>9 DEF Next

\* Every item that is there shows what the backend answers.
LEMMA BadgeInvAgrees == BadgeInv => ItemsAgree
<1>. SUFFICES ASSUME BadgeInv, NEW i \in There(item), ~stale, NEW f \in Fields
              PROVE  \/ item[i].shows[f] = Said(settings, backend, item[i].id, f)
                     \/ f = "count" /\ ~Said(settings, backend, item[i].id, "countVisible")
  BY DEF ItemsAgree, Said
<1>1. Fits(settings, stale, backend, item[i])
  BY DEF BadgeInv, StateOK, There
<1>2. CASE item[i].shows[f] = Said(settings, backend, item[i].id, f)
  BY <1>2
<1>3. CASE item[i].id # None /\ Excepted(settings, stale, backend, item[i].id, f)
  <2>1. f = "count" /\ Hidden(settings, backend, item[i].id)
    BY <1>3 DEF Excepted
  <2>2. Said(settings, backend, item[i].id, "countVisible") = FALSE
    BY <1>3, <2>1 DEF Said, Answer, Shown, Entry
  <2>. QED BY <2>1, <2>2
<1>. QED BY <1>1, <1>2, <1>3 DEF Fits

\* What a task shows is what the backend answers for its launcher (ItemsAgree):
\* after any sequence of updates, departures, settings, URLs, tasks that come and
\* go, for all applications, storage ids and mapping rules.
THEOREM ItemsShowTheBackend == Spec => []ItemsAgree
<1>1. Spec => []BadgeInv
  BY BadgeInit, BadgeNext, PTL DEF Spec
<1>. QED BY <1>1, BadgeInvAgrees, PTL

-----------------------------------------------------------------------------
(* No badge of the gone *)

\* The messages on their way.
Announcements == [from : Services, uri : DOMAIN StorageOf, props : Updates]
Departures == [from : Services, left : {TRUE}]

BusShape(b) ==
  /\ b = [alive |-> b.alive, gone |-> b.gone, rules |-> b.rules, inbox |-> b.inbox,
          sent |-> b.sent]
  /\ b.inbox \in Seq(Announcements \union Departures)

\* The departure of s is on its way, behind the k-th message.
LeavesAfter(b, k, s) ==
  \E j \in DOMAIN b.inbox : j > k /\ b.inbox[j].from = s /\ "left" \in DOMAIN b.inbox[j]

\* s is there, or will be missed, or was never watched in time.
Accounted(b, k, s) == s \in b.alive \/ s \notin b.rules \/ LeavesAfter(b, k, s)

\* Every launcher has a URI that stands for it, every URI that is not lost a sender
\* that is accounted for, and so has every update that is not read yet.
LaunchersHaveUrls(b) == \A id \in DOMAIN b.launchers : \E u \in DOMAIN b.urls : b.urls[u] = id

UrlsHaveServices(b, c) ==
  \A u \in DOMAIN b.urls :
    u \in b.lost \/ \E s \in DOMAIN b.services : b.services[s] = u /\ Accounted(c, 0, s)

UpdatesHaveServices(c) ==
  \A k \in DOMAIN c.inbox : "left" \in DOMAIN c.inbox[k] \/ Accounted(c, k, c.inbox[k].from)

RegistryOK(b, c) ==
  /\ BusShape(c) /\ LaunchersHaveUrls(b) /\ UrlsHaveServices(b, c)
  /\ UpdatesHaveServices(c)

GoneInv == RegistryOK(backend, bus)

\* Nobody has announced anything.
LEMMA GoneInit == Init => GoneInv
<1>. SUFFICES ASSUME Init PROVE GoneInv
  OBVIOUS
<1>1. /\ bus = [alive |-> {}, gone |-> {}, rules |-> {}, inbox |-> <<>>, sent |-> 0]
      /\ backend = NewBackend(settings.blacklist)
  BY DEF Init
<1>2. BusShape(bus) /\ UpdatesHaveServices(bus)
  BY <1>1 DEF BusShape, UpdatesHaveServices
<1>3. LaunchersHaveUrls(backend) /\ UrlsHaveServices(backend, bus)
  BY <1>1 DEF NewBackend, LaunchersHaveUrls, UrlsHaveServices
<1>. QED BY <1>2, <1>3 DEF GoneInv, RegistryOK

\* A message at the end loses none, and comes behind all.
LEMMA Arrives ==
  ASSUME NEW b, NEW c, RegistryOK(b, c), NEW m \in Announcements \union Departures,
         NEW d, BusShape(d), d.rules = c.rules, d.inbox = Append(c.inbox, m),
         \A s : s \in c.alive \ d.alive => s \notin c.rules \/ (m.from = s /\ "left" \in DOMAIN m),
         "left" \in DOMAIN m \/ m.from \in d.alive
  PROVE  RegistryOK(b, d)
<1>1. c.inbox \in Seq(Announcements \union Departures)
  BY DEF RegistryOK, BusShape
<1>2. /\ DOMAIN c.inbox = 1..Len(c.inbox) /\ DOMAIN d.inbox = 1..(Len(c.inbox) + 1)
      /\ Len(c.inbox) \in Nat
      /\ \A k \in 1..Len(c.inbox) : d.inbox[k] = c.inbox[k]
      /\ d.inbox[Len(c.inbox) + 1] = m
  BY <1>1
<1>3. \A k \in 0..Len(c.inbox) : \A s : LeavesAfter(c, k, s) => LeavesAfter(d, k, s)
  BY <1>2 DEF LeavesAfter
<1>4. \A k \in 0..Len(c.inbox) : \A s :
        m.from = s /\ "left" \in DOMAIN m => LeavesAfter(d, k, s)
  BY <1>2 DEF LeavesAfter
<1>5. \A k \in 0..Len(c.inbox) : \A s : Accounted(c, k, s) => Accounted(d, k, s)
  BY <1>3, <1>4 DEF Accounted
<1>6. UrlsHaveServices(b, d)
  BY <1>2, <1>5 DEF RegistryOK, UrlsHaveServices
<1>7. UpdatesHaveServices(d)
  <2>. SUFFICES ASSUME NEW k \in 1..(Len(c.inbox) + 1), "left" \notin DOMAIN d.inbox[k]
                PROVE  Accounted(d, k, d.inbox[k].from)
    BY <1>2 DEF UpdatesHaveServices
  <2>1. CASE k = Len(c.inbox) + 1
    BY <1>2, <2>1 DEF Accounted
  <2>2. CASE k # Len(c.inbox) + 1
    BY <1>2, <1>5, <2>2 DEF RegistryOK, UpdatesHaveServices
  <2>. QED BY <2>1, <2>2
<1>. QED BY <1>6, <1>7 DEF RegistryOK

\* The steps of the bus.
LEMMA BusStep ==
  ASSUME GoneInv, UNCHANGED backend, NEW s \in Services,
         TakesRule(s) \/ Leaves(s) \/ \E u \in DOMAIN StorageOf, p \in Updates : Sends(s, u, p)
  PROVE  GoneInv'
<1>1. /\ BusShape(bus) /\ RegistryOK(backend, bus)
      /\ bus = [alive |-> bus.alive, gone |-> bus.gone, rules |-> bus.rules,
                inbox |-> bus.inbox, sent |-> bus.sent]
      /\ bus.inbox \in Seq(Announcements \union Departures)
  BY DEF GoneInv, RegistryOK, BusShape
<1>2. ASSUME NEW u \in DOMAIN StorageOf, NEW p \in Updates, Sends(s, u, p)
      PROVE  GoneInv'
  <2>. DEFINE m == [from |-> s, uri |-> u, props |-> p]
  <2>1. bus' = [alive |-> bus.alive \union {s}, gone |-> bus.gone, rules |-> bus.rules,
                inbox |-> Append(bus.inbox, m), sent |-> bus.sent + 1]
    BY <1>1, <1>2 DEF Sends
  <2>2. m \in Announcements \union Departures /\ m.from = s
    BY DEF Announcements
  <2>. HIDE DEF m
  <2>3. /\ bus'.alive = bus.alive \union {s} /\ bus'.rules = bus.rules
        /\ bus'.inbox = Append(bus.inbox, m) /\ BusShape(bus')
    BY <1>1, <2>1, <2>2 DEF BusShape
  <2>4. RegistryOK(backend, bus')
    BY <1>1, <2>2, <2>3, Arrives
  <2>. QED BY <2>4 DEF GoneInv
<1>3. ASSUME Leaves(s)
      PROVE  GoneInv'
  <2>. DEFINE m == [from |-> s, left |-> TRUE]
  <2>1. bus' = [alive |-> bus.alive \ {s}, gone |-> bus.gone \union {s}, rules |-> bus.rules,
                inbox |-> IF s \in bus.rules THEN Append(bus.inbox, m) ELSE bus.inbox,
                sent |-> bus.sent]
    BY <1>1, <1>3 DEF Leaves
  <2>2. m \in Announcements \union Departures /\ m.from = s /\ "left" \in DOMAIN m
    BY DEF Departures
  <2>. HIDE DEF m
  <2>3. /\ bus'.alive = bus.alive \ {s} /\ bus'.rules = bus.rules
        /\ bus'.inbox = IF s \in bus.rules THEN Append(bus.inbox, m) ELSE bus.inbox
        /\ BusShape(bus')
    BY <1>1, <2>1, <2>2 DEF BusShape
  <2>4. CASE s \in bus.rules
    <3>1. RegistryOK(backend, bus')
      BY <1>1, <2>2, <2>3, <2>4, Arrives
    <3>. QED BY <1>3, <3>1 DEF GoneInv
  <2>5. CASE s \notin bus.rules
    <3>1. \A k, t : Accounted(bus, k, t) => Accounted(bus', k, t)
      BY <2>3, <2>5 DEF Accounted, LeavesAfter
    <3>2. RegistryOK(backend, bus')
      BY <1>1, <2>3, <2>5, <3>1 DEF RegistryOK, UrlsHaveServices, UpdatesHaveServices
    <3>. QED BY <3>2 DEF GoneInv
  <2>. QED BY <2>4, <2>5
<1>4. ASSUME TakesRule(s)
      PROVE  GoneInv'
  <2>1. /\ bus' = [alive |-> bus.alive, gone |-> bus.gone, rules |-> bus.rules \union {s},
                   inbox |-> bus.inbox, sent |-> bus.sent]
        /\ s \in bus.alive
    BY <1>1, <1>4 DEF TakesRule
  <2>2. /\ bus'.alive = bus.alive /\ bus'.rules = bus.rules \union {s} /\ bus'.inbox = bus.inbox
        /\ BusShape(bus')
    BY <1>1, <2>1 DEF BusShape
  <2>3. \A k, t : Accounted(bus, k, t) => Accounted(bus', k, t)
    BY <2>1, <2>2 DEF Accounted, LeavesAfter
  <2>4. RegistryOK(backend, bus')
    BY <1>1, <2>2, <2>3 DEF RegistryOK, UrlsHaveServices, UpdatesHaveServices
  <2>. QED BY <2>4 DEF GoneInv
<1>. QED BY <1>2, <1>3, <1>4

\* Behind the first message all stays as it was.
LEMMA Behind ==
  ASSUME NEW c, BusShape(c), c.inbox # <<>>, NEW d, d = [c EXCEPT !.inbox = Tail(@)]
  PROVE  /\ BusShape(d) /\ d.alive = c.alive /\ d.rules = c.rules
         /\ DOMAIN d.inbox = 1..(Len(c.inbox) - 1) /\ Len(c.inbox) \in Nat
         /\ DOMAIN c.inbox = 1..Len(c.inbox)
         /\ \A k \in DOMAIN d.inbox : d.inbox[k] = c.inbox[k + 1]
         /\ \A k \in 0..(Len(c.inbox) - 1) : \A s : Accounted(c, k + 1, s) => Accounted(d, k, s)
<1>1. /\ c.inbox \in Seq(Announcements \union Departures)
      /\ c = [alive |-> c.alive, gone |-> c.gone, rules |-> c.rules, inbox |-> c.inbox,
              sent |-> c.sent]
  BY DEF BusShape
<1>2. d = [alive |-> c.alive, gone |-> c.gone, rules |-> c.rules, inbox |-> Tail(c.inbox),
           sent |-> c.sent]
  BY <1>1
<1>3. /\ d.alive = c.alive /\ d.rules = c.rules /\ d.inbox = Tail(c.inbox)
      /\ Tail(c.inbox) \in Seq(Announcements \union Departures)
      /\ d = [alive |-> d.alive, gone |-> d.gone, rules |-> d.rules, inbox |-> d.inbox,
              sent |-> d.sent]
  <2>1. /\ d.alive = c.alive /\ d.rules = c.rules /\ d.inbox = Tail(c.inbox)
        /\ d.gone = c.gone /\ d.sent = c.sent
    BY <1>2
  <2>2. Tail(c.inbox) \in Seq(Announcements \union Departures)
    BY <1>1
  <2>. QED BY <1>2, <2>1, <2>2
<1>4. BusShape(d)
  BY <1>3 DEF BusShape
<1>5. /\ Len(c.inbox) \in Nat /\ DOMAIN c.inbox = 1..Len(c.inbox)
      /\ DOMAIN d.inbox = 1..(Len(c.inbox) - 1)
      /\ \A k \in 1..(Len(c.inbox) - 1) : d.inbox[k] = c.inbox[k + 1]
  BY <1>1, <1>3
<1>6. ASSUME NEW k \in 0..(Len(c.inbox) - 1), NEW s, LeavesAfter(c, k + 1, s)
      PROVE  LeavesAfter(d, k, s)
  <2>1. PICK j \in 1..Len(c.inbox) :
          j > k + 1 /\ c.inbox[j].from = s /\ "left" \in DOMAIN c.inbox[j]
    BY <1>5, <1>6 DEF LeavesAfter
  <2>2. j - 1 \in 1..(Len(c.inbox) - 1) /\ j - 1 > k /\ d.inbox[j - 1] = c.inbox[j]
    BY <1>5, <2>1
  <2>. QED BY <1>5, <2>1, <2>2 DEF LeavesAfter
<1>7. \A k \in 0..(Len(c.inbox) - 1) : \A s : Accounted(c, k + 1, s) => Accounted(d, k, s)
  BY <1>3, <1>6 DEF Accounted
<1>. QED BY <1>3, <1>4, <1>5, <1>7

\* Only of the sender of the first message less may be known than before.
LEMMA OthersAccounted ==
  ASSUME NEW c, BusShape(c), c.inbox # <<>>, NEW s,
         "left" \in DOMAIN Head(c.inbox) => s # Head(c.inbox).from,
         Accounted(c, 0, s)
  PROVE  Accounted(c, 1, s)
<1>1. c.inbox \in Seq(Announcements \union Departures) /\ Head(c.inbox) = c.inbox[1]
  BY DEF BusShape
<1>. QED BY <1>1 DEF Accounted, LeavesAfter

\* A message is read.
LEMMA ReadsRegistry ==
  ASSUME BadgeInv, GoneInv, Reads
  PROVE  GoneInv'
<1>. DEFINE m == Head(bus.inbox)
<1>1. /\ BusShape(bus) /\ LaunchersHaveUrls(backend) /\ UrlsHaveServices(backend, bus)
      /\ UpdatesHaveServices(bus)
  BY DEF GoneInv, RegistryOK
<1>2. bus.inbox # <<>> /\ bus' = [bus EXCEPT !.inbox = Tail(@)]
  BY DEF Reads
<1>3. /\ BusShape(bus') /\ bus'.alive = bus.alive /\ bus'.rules = bus.rules
      /\ DOMAIN bus'.inbox = 1..(Len(bus.inbox) - 1) /\ Len(bus.inbox) \in Nat
      /\ DOMAIN bus.inbox = 1..Len(bus.inbox)
      /\ \A k \in DOMAIN bus'.inbox : bus'.inbox[k] = bus.inbox[k + 1]
      /\ \A k \in 0..(Len(bus.inbox) - 1) : \A s :
           Accounted(bus, k + 1, s) => Accounted(bus', k, s)
  BY <1>1, <1>2, Behind
<1>4. Len(bus.inbox) > 0 /\ m = bus.inbox[1]
  BY <1>1, <1>2 DEF BusShape
<1>5. UpdatesHaveServices(bus')
  <2>. SUFFICES ASSUME NEW k \in 1..(Len(bus.inbox) - 1), "left" \notin DOMAIN bus.inbox[k + 1]
                PROVE  Accounted(bus', k, bus.inbox[k + 1].from)
    BY <1>3 DEF UpdatesHaveServices
  <2>1. Accounted(bus, k + 1, bus.inbox[k + 1].from)
    BY <1>1, <1>3 DEF UpdatesHaveServices
  <2>. QED BY <1>3, <2>1
<1>6. \A s : ("left" \in DOMAIN m => s # m.from) /\ Accounted(bus, 0, s) => Accounted(bus', 0, s)
  <2>. SUFFICES ASSUME NEW s, "left" \in DOMAIN m => s # m.from, Accounted(bus, 0, s)
                PROVE  Accounted(bus', 0, s)
    OBVIOUS
  <2>1. Accounted(bus, 1, s)
    BY <1>1, <1>2, OthersAccounted
  <2>. QED BY <1>3, <1>4, <2>1
<1>7. \/ "left" \in DOMAIN m /\ RegistryForgot(m.from, backend, backend')
      \/ "left" \notin DOMAIN m /\ RegistryUpdated(m.from, m.uri, backend, backend')
  BY ReadsStep
<1>8. "left" \notin DOMAIN m => Accounted(bus', 0, m.from)
  <2>1. "left" \notin DOMAIN m => Accounted(bus, 1, m.from)
    BY <1>1, <1>3, <1>4 DEF UpdatesHaveServices
  <2>. QED BY <1>3, <1>4, <2>1
<1>. HIDE DEF m
<1>9. CASE "left" \in DOMAIN m /\ RegistryForgot(m.from, backend, backend')
  <2>. DEFINE s0 == m.from
              url == backend.services[s0]
  <2>1. CASE backend' = backend /\ s0 \notin DOMAIN backend.services
    <3>1. UrlsHaveServices(backend', bus')
      BY <1>1, <1>6, <2>1 DEF UrlsHaveServices
    <3>. QED BY <1>1, <1>3, <1>5, <2>1, <3>1 DEF GoneInv, RegistryOK
  <2>2. CASE /\ s0 \in DOMAIN backend.services /\ backend'.services = Take(backend.services, s0)
             /\ backend'.lost = backend.lost
             /\ url \notin DOMAIN backend.urls
             /\ backend'.urls = backend.urls /\ DOMAIN backend'.launchers = DOMAIN backend.launchers
    <3>1. UrlsHaveServices(backend', bus')
      BY <1>1, <1>6, <2>2 DEF UrlsHaveServices, Take
    <3>2. LaunchersHaveUrls(backend')
      BY <1>1, <2>2 DEF LaunchersHaveUrls, Take
    <3>. QED BY <1>3, <1>5, <3>1, <3>2 DEF GoneInv, RegistryOK
  <2>3. CASE /\ s0 \in DOMAIN backend.services /\ backend'.services = Take(backend.services, s0)
             /\ backend'.lost = backend.lost
             /\ url \in DOMAIN backend.urls /\ backend'.urls = Take(backend.urls, url)
             /\ DOMAIN backend'.launchers = DOMAIN backend.launchers \ {backend.urls[url]}
    <3>1. UrlsHaveServices(backend', bus')
      BY <1>1, <1>6, <2>3 DEF UrlsHaveServices, Take
    <3>2. LaunchersHaveUrls(backend')
      BY <1>1, <2>3 DEF LaunchersHaveUrls, Take
    <3>. QED BY <1>3, <1>5, <3>1, <3>2 DEF GoneInv, RegistryOK
  <2>. QED BY <1>9, <2>1, <2>2, <2>3 DEF RegistryForgot
<1>10. CASE "left" \notin DOMAIN m /\ RegistryUpdated(m.from, m.uri, backend, backend')
  <2>. DEFINE s0 == m.from
              uri == m.uri
  <2>1. CASE backend' = backend
    <3>1. UrlsHaveServices(backend', bus')
      BY <1>1, <1>6, <1>10, <2>1 DEF UrlsHaveServices
    <3>. QED BY <1>1, <1>3, <1>5, <2>1, <3>1 DEF GoneInv, RegistryOK
  <2>2. CASE /\ uri \in DOMAIN backend.urls /\ backend'.urls = backend.urls
             /\ backend'.services = backend.services /\ backend'.lost = backend.lost
             /\ DOMAIN backend'.launchers = DOMAIN backend.launchers \union {backend'.urls[uri]}
    <3>1. UrlsHaveServices(backend', bus')
      BY <1>1, <1>6, <1>10, <2>2 DEF UrlsHaveServices
    <3>2. LaunchersHaveUrls(backend')
      BY <1>1, <2>2 DEF LaunchersHaveUrls
    <3>. QED BY <1>3, <1>5, <3>1, <3>2 DEF GoneInv, RegistryOK
  <2>3. CASE /\ uri \notin DOMAIN backend.urls
             /\ backend'.urls = Put(backend.urls, uri, StorageOf[uri])
             /\ backend'.services = Put(backend.services, s0, uri)
             /\ backend'.lost = LostBy(backend, s0)
             /\ DOMAIN backend'.launchers = DOMAIN backend.launchers \union {backend'.urls[uri]}
    <3>1. \A u \in DOMAIN backend.urls : u \in backend'.lost \/ \E s \in DOMAIN backend.services :
            s # s0 /\ backend.services[s] = u /\ Accounted(bus', 0, s)
      BY <1>1, <1>6, <1>10, <2>3 DEF UrlsHaveServices, LostBy
    <3>2. UrlsHaveServices(backend', bus')
      BY <1>8, <1>10, <2>3, <3>1 DEF UrlsHaveServices, Put
    <3>3. LaunchersHaveUrls(backend')
      BY <1>1, <2>3 DEF LaunchersHaveUrls, Put
    <3>. QED BY <1>3, <1>5, <3>2, <3>3 DEF GoneInv, RegistryOK
  <2>. QED BY <1>10, <2>1, <2>2, <2>3 DEF RegistryUpdated
<1>. QED BY <1>7, <1>9, <1>10 DEF m

\* A backend without launchers, and the bus of a task manager that has ended.
LEMMA EmptyRegistry ==
  ASSUME NEW blacklist, NEW c, BusShape(c), UpdatesHaveServices(c)
  PROVE  RegistryOK(NewBackend(blacklist), c)
BY DEF NewBackend, RegistryOK, LaunchersHaveUrls, UrlsHaveServices

\* The tasks' steps.
LEMMA TaskStep ==
  ASSUME GoneInv, NEW i \in Items,
         Create(i) \/ Destroy(i) \/ \E url \in DOMAIN MenuIdOf : SetLauncherUrl(i, url)
  PROVE  GoneInv'
<1>1. RegistryOK(backend, bus) /\ BusShape(bus) /\ UpdatesHaveServices(bus)
  BY DEF GoneInv, RegistryOK
<1>2. CASE Create(i)
  <2>1. bus' = bus /\ (backend' = NewBackend(settings.blacklist) \/ backend' = backend)
    BY <1>2 DEF Create
  <2>. QED BY <1>1, <2>1, EmptyRegistry DEF GoneInv
<1>3. CASE Destroy(i)
  <2>1. \/ UNCHANGED <<backend, bus>>
        \/ backend' = NewBackend({}) /\ bus' = [bus EXCEPT !.rules = {}, !.inbox = <<>>]
    BY <1>3 DEF Destroy
  <2>2. CASE UNCHANGED <<backend, bus>>
    BY <2>2 DEF GoneInv
  <2>3. CASE backend' = NewBackend({}) /\ bus' = [bus EXCEPT !.rules = {}, !.inbox = <<>>]
    <3>1. bus' = [alive |-> bus.alive, gone |-> bus.gone, rules |-> {}, inbox |-> <<>>,
                  sent |-> bus.sent]
      BY <1>1, <2>3 DEF BusShape
    <3>2. bus'.inbox = <<>> /\ BusShape(bus')
      BY <3>1 DEF BusShape
    <3>3. UpdatesHaveServices(bus')
      BY <3>2 DEF UpdatesHaveServices
    <3>. QED BY <2>3, <3>2, <3>3, EmptyRegistry DEF GoneInv
  <2>. QED BY <2>1, <2>2, <2>3
<1>4. CASE \E url \in DOMAIN MenuIdOf : SetLauncherUrl(i, url)
  BY <1>1, <1>4 DEF SetLauncherUrl, GoneInv
<1>. QED BY <1>2, <1>3, <1>4

\* The settings touch neither the registry nor the bus.
LEMMA SettingsRegistry ==
  ASSUME BadgeInv, GoneInv, SettingsChanged \/ DoNotDisturbChanges
  PROVE  GoneInv'
<1>1. CASE DoNotDisturbChanges
  BY <1>1 DEF DoNotDisturbChanges, GoneInv
<1>2. CASE SettingsChanged
  <2>1. /\ bus' = bus
        /\ backend' = IF There(item) = {} THEN backend
                      ELSE [backend EXCEPT !.blacklist = settings'.blacklist]
    BY <1>2 DEF SettingsChanged, Reload
  <2>2. /\ backend'.launchers = backend.launchers /\ backend'.urls = backend.urls
        /\ backend'.services = backend.services /\ backend'.lost = backend.lost
    <3>1. backend = [launchers |-> backend.launchers, urls |-> backend.urls,
                     services |-> backend.services,
                     watched |-> backend.watched, lost |-> backend.lost,
                     blacklist |-> backend.blacklist]
      BY DEF BadgeInv, StateOK, BackendShape
    <3>. QED BY <2>1, <3>1
  <2>. QED BY <2>1, <2>2 DEF GoneInv, RegistryOK, LaunchersHaveUrls, UrlsHaveServices
<1>. QED BY <1>1, <1>2

\* Every step keeps the registry right.
LEMMA GoneNext == BadgeInv /\ GoneInv /\ [Next]_vars => GoneInv'
<1>. SUFFICES ASSUME BadgeInv, GoneInv, [Next]_vars PROVE GoneInv'
  OBVIOUS
<1>1. ASSUME NEW i \in Items,
             Create(i) \/ Destroy(i) \/ \E url \in DOMAIN MenuIdOf : SetLauncherUrl(i, url)
      PROVE  GoneInv'
  BY <1>1, TaskStep
<1>2. CASE SettingsChanged \/ DoNotDisturbChanges
  BY <1>2, SettingsRegistry
<1>3. CASE Reads
  BY <1>3, ReadsRegistry
<1>4. ASSUME NEW s \in Services,
             TakesRule(s) \/ Leaves(s) \/ \E u \in DOMAIN StorageOf, p \in Updates : Sends(s, u, p)
      PROVE  GoneInv'
  <2>1. UNCHANGED backend
    BY <1>4 DEF TakesRule, Leaves, Sends
  <2>. QED BY <1>4, <2>1, BusStep
<1>5. CASE UNCHANGED vars
  BY <1>5 DEF vars, GoneInv
<1>. QED BY <1>1, <1>2, <1>3, <1>4, <1>5 DEF Next

\* No launcher stays behind once the departure of the application its URL is watched for
\* has been read (NoBadgeOfTheGone), unless it left before the bus took the match
\* rule, or the launcher's URL is lost to another its service announced.  For all
\* applications, any of which may announce any URI, and all updates.
THEOREM DepartedLeaveNoBadge == Spec => []NoBadgeOfTheGone
<1>1. Init => BadgeInv /\ GoneInv
  BY BadgeInit, GoneInit
<1>2. BadgeInv /\ GoneInv /\ [Next]_vars => (BadgeInv /\ GoneInv)'
  BY BadgeNext, GoneNext
<1>3. GoneInv => NoBadgeOfTheGone
  BY DEF GoneInv, RegistryOK, LaunchersHaveUrls, UrlsHaveServices, Accounted, LeavesAfter,
         NoBadgeOfTheGone
<1>. QED BY <1>1, <1>2, <1>3, PTL DEF Spec
=============================================================================
