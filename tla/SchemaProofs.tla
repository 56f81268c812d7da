----------------------------- MODULE SchemaProofs -----------------------------
(* That nothing the drawer and the structure popup wait for has lost its      *)
(* request: what each of them keeps beside the requests under way; and that   *)
(* what the adapters tell of routines and of foreign keys is whole: a query   *)
(* answers in an order, and an order puts each of its rows at one place.      *)
EXTENDS SchemaTree, FiniteSetTheorems, SequenceTheorems, TLAPS

\* The requests under way are numbered up to the last one sent.
Numbered(requests, last) ==
  /\ last \in Nat /\ DOMAIN requests \subseteq 1..last
  /\ requests = [id \in DOMAIN requests |-> requests[id]]
  /\ \A id \in DOMAIN requests :
       requests[id] = [what |-> requests[id].what, of |-> requests[id].of,
                       pattern |-> requests[id].pattern, answer |-> requests[id].answer]
\* Each level says whether it is being read.
Kept(held, levels) ==
  /\ held = [l \in levels |-> held[l]]
  /\ \A l \in levels : /\ held[l].loading \in BOOLEAN
                       /\ held[l] = [loading |-> held[l].loading, nodes |-> held[l].nodes]
\* A level that is being read has a request of its own.
LevelsComing(requests, held, levels) ==
  \A l \in levels : held[l].loading = TRUE =>
    \E id \in DOMAIN requests : requests[id].what = "level" /\ requests[id].of = l
\* A table's editor waits for a level that is being read, a routine's for the
\* request of its own it names.
EditsComing(requests, held, waiting, levels) ==
  \A w \in waiting :
    /\ w.id = 0 => w.level \in levels /\ held[w.level].loading = TRUE
    /\ w.id # 0 => w.id \in DOMAIN requests /\ requests[w.id].what = "routine"
\* The popup waits for what the request it names asks for.
PopupComing(requests, popup_) ==
  popup_ # None =>
    /\ popup_.id \in DOMAIN requests
    /\ requests[popup_.id].what = popup_.what /\ requests[popup_.id].of = popup_.of
    /\ popup_.what \in {"structure", "routine"}
Coming(requests, last, held, waiting, popup_, levels) ==
  /\ Numbered(requests, last) /\ Kept(held, levels)
  /\ LevelsComing(requests, held, levels)
  /\ EditsComing(requests, held, waiting, levels)
  /\ PopupComing(requests, popup_)

ComingInv == IsFiniteSet(Levels) /\ expanded \subseteq Levels /\ Coming(asks, sent, cache, edits, wanted, Levels)
GoesOn == world' = world /\ expanded' \subseteq Levels /\ Coming(asks', sent', cache', edits', wanted', Levels)

LEMMA ComingInvNext ==
  ASSUME ComingInv, GoesOn
  PROVE  ComingInv'
BY DEF ComingInv, GoesOn, Coming, Numbered, Kept, LevelsComing, EditsComing, PopupComing, Levels

----------------------------------------------------------------------------
\* A finite set is made into a sequence of as many members.
LEMMA SequenceOf ==
  ASSUME NEW S, IsFiniteSet(S)
  PROVE  /\ SetToSeq(S) \in [1..Cardinality(S) -> S] /\ Cardinality(S) \in Nat
         /\ Len(SetToSeq(S)) = Cardinality(S)
<1>1. Cardinality(S) \in Nat
  BY FS_CardinalityType
<1>2. ExistsBijection(1..Cardinality(S), S)
  BY FS_CardinalityType
<1>3. \E f \in [1..Cardinality(S) -> S] : IsInjective(f)
  BY <1>2 DEF ExistsBijection, Bijection, Injection, IsInjective, Surjection
<1>4. SetToSeq(S) \in [1..Cardinality(S) -> S]
  BY <1>3 DEF SetToSeq
<1> QED
  BY <1>1, <1>4

\* A level that alone is asked for is asked for.
LEMMA OneAsked ==
  ASSUME NEW x
  PROVE  Holds(SetToSeq({x}), x)
<1>1. IsFiniteSet({x}) /\ Cardinality({x}) = 1
  BY FS_Singleton
<1>2. SetToSeq({x}) \in [1..1 -> {x}]
  BY <1>1, SequenceOf
<1> QED
  BY <1>2 DEF Holds

----------------------------------------------------------------------------
\* One more request leaves those under way where they are.
LEMMA AskedOne ==
  ASSUME ComingInv, NEW what, NEW of, AskOne(what, of)
  PROVE  /\ Numbered(asks', sent') /\ sent + 1 \notin DOMAIN asks /\ sent + 1 # 0
         /\ DOMAIN asks' = DOMAIN asks \cup {sent + 1}
         /\ \A id \in DOMAIN asks : asks'[id] = asks[id]
         /\ asks'[sent + 1].what = what /\ asks'[sent + 1].of = of
<1>1. PICK a : a = [what |-> what, of |-> of, pattern |-> pattern', answer |-> Unread]
  OBVIOUS
<1>0. Len(<<a>>) = 1 /\ <<a>>[1] = a
  OBVIOUS
<1>4. Numbered(asks, sent)
  BY DEF ComingInv, Coming
<1>2. asks' = [id \in DOMAIN asks \cup {sent + 1} |-> IF id \in DOMAIN asks THEN asks[id] ELSE a]
  <2>1. asks' = [id \in DOMAIN asks \cup (sent + 1..sent + 1) |->
                   IF id \in DOMAIN asks THEN asks[id] ELSE <<a>>[id - sent]]
    BY <1>0, <1>1 DEF AskOne, Send, Ask
  <2>2. sent + 1..sent + 1 = {sent + 1} /\ (sent + 1) - sent = 1
    BY <1>4 DEF Numbered
  <2> QED
    BY <1>0, <2>1, <2>2
<1>3. sent' = sent + 1
  BY <1>0, <1>1 DEF AskOne, Send, Ask
<1>5. sent \in Nat /\ DOMAIN asks \subseteq 1..sent
  BY <1>4 DEF Numbered
<1>6. sent + 1 \notin DOMAIN asks /\ sent + 1 # 0 /\ sent' \in Nat /\ DOMAIN asks \cup {sent + 1} \subseteq 1..sent'
  BY <1>3, <1>5
<1>7. Numbered(asks', sent')
  BY <1>1, <1>2, <1>4, <1>6 DEF Numbered
<1> QED
  BY <1>1, <1>2, <1>6, <1>7

\* load: the levels asked for are being read, each with a request.
LEMMA Loaded ==
  ASSUME ComingInv, NEW levels, levels \subseteq Levels, NEW after, Kept(after, Levels), Loads(levels, after),
         \A l \in Levels : after[l].loading = TRUE =>
           \E id \in DOMAIN asks : asks[id].what = "level" /\ asks[id].of = l
  PROVE  /\ Numbered(asks', sent') /\ Kept(cache', Levels) /\ LevelsComing(asks', cache', Levels)
         /\ DOMAIN asks \subseteq DOMAIN asks' /\ \A id \in DOMAIN asks : asks'[id] = asks[id]
         /\ \A l \in Levels : after[l].loading = TRUE => cache'[l].loading = TRUE
         /\ \A l \in levels : levels = {l} => cache'[l].loading = TRUE
<1>1. PICK S : S = {l \in levels : ~after[l].loading}
  OBVIOUS
<1>2. PICK s : s = SetToSeq(S)
  OBVIOUS
<1>3. PICK n : n = Len(s)
  OBVIOUS
<1>4. IsFiniteSet(Levels) /\ Numbered(asks, sent)
  BY DEF ComingInv, Coming
<1>5. IsFiniteSet(S)
  BY <1>1, <1>4, FS_Subset
<1>6. n \in Nat /\ s \in [1..n -> S]
  BY <1>2, <1>3, <1>5, SequenceOf
<1>7. sent' = sent + n
  <2>1. Send([i \in DOMAIN s |-> Ask("level", s[i])])
    BY <1>1, <1>2 DEF Loads
  <2>2. DOMAIN s = 1..n
    BY <1>6
  <2>3. Len([i \in DOMAIN s |-> Ask("level", s[i])]) = n
    BY <1>6, <2>2
  <2> QED
    BY <2>1, <2>3 DEF Send
<1>8. PICK p : p = pattern'
  OBVIOUS
<1>9. PICK new : new = [i \in 1..n |-> [what |-> "level", of |-> s[i], pattern |-> p, answer |-> Unread]]
  OBVIOUS
<1>10. asks' = [i \in DOMAIN asks \cup (sent + 1..sent + n) |-> IF i \in DOMAIN asks THEN asks[i] ELSE new[i - sent]]
  <2>1. DOMAIN s = 1..n
    BY <1>6
  <2>2. Send(new)
    BY <1>1, <1>2, <1>8, <1>9, <2>1 DEF Loads, Ask
  <2>3. Len(new) = n
    BY <1>6, <1>9
  <2> QED
    BY <2>2, <2>3 DEF Send
<1>11. sent \in Nat /\ DOMAIN asks \subseteq 1..sent
  BY <1>4 DEF Numbered
<1>12. /\ sent' \in Nat /\ DOMAIN asks \cup (sent + 1..sent + n) \subseteq 1..sent'
       /\ \A i \in sent + 1..sent + n : i \notin DOMAIN asks /\ i - sent \in 1..n
  BY <1>6, <1>7, <1>11
<1>19. \A i \in sent + 1..sent + n :
         asks'[i] = [what |-> "level", of |-> s[i - sent], pattern |-> p, answer |-> Unread]
  BY <1>9, <1>10, <1>12
<1>20. /\ DOMAIN asks \subseteq DOMAIN asks' /\ DOMAIN asks' = DOMAIN asks \cup (sent + 1..sent + n)
       /\ \A id \in DOMAIN asks : asks'[id] = asks[id]
  BY <1>10
<1>13. Numbered(asks', sent')
  <2>1. asks' = [id \in DOMAIN asks' |-> asks'[id]]
    BY <1>10
  <2>2. ASSUME NEW id \in DOMAIN asks'
        PROVE  asks'[id] = [what |-> asks'[id].what, of |-> asks'[id].of,
                            pattern |-> asks'[id].pattern, answer |-> asks'[id].answer]
    <3>1. CASE id \in DOMAIN asks
      BY <1>4, <1>20, <3>1 DEF Numbered
    <3>2. CASE id \in sent + 1..sent + n
      <4>1. PICK z : z = s[id - sent]
        OBVIOUS
      <4>2. PICK r : r = [what |-> "level", of |-> z, pattern |-> p, answer |-> Unread]
        OBVIOUS
      <4>3. asks'[id] = r
        BY <1>19, <3>2, <4>1, <4>2
      <4>4. r = [what |-> r.what, of |-> r.of, pattern |-> r.pattern, answer |-> r.answer]
        BY <4>2
      <4> QED
        BY <4>3, <4>4
    <3> QED
      BY <1>20, <3>1, <3>2
  <2> QED
    BY <1>12, <1>20, <2>1, <2>2 DEF Numbered
<1>14. cache' = [l \in Levels |-> IF Holds(s, l) THEN [after[l] EXCEPT !.loading = TRUE] ELSE after[l]]
  BY <1>1, <1>2 DEF Loads
<1>15. ASSUME NEW l \in Levels
       PROVE  /\ Holds(s, l) => cache'[l] = [loading |-> TRUE, nodes |-> after[l].nodes]
              /\ ~Holds(s, l) => cache'[l] = after[l]
  <2>1. after[l] = [loading |-> after[l].loading, nodes |-> after[l].nodes]
    BY DEF Kept
  <2> QED
    BY <1>14, <2>1
<1>21. ASSUME NEW l \in Levels, after[l].loading = TRUE PROVE cache'[l].loading = TRUE
  <2>1. CASE Holds(s, l)
    <3>1. cache'[l] = [loading |-> TRUE, nodes |-> after[l].nodes]
      BY <1>15, <2>1
    <3> QED
      BY <3>1
  <2>2. CASE ~Holds(s, l)
    BY <1>15, <1>21, <2>2
  <2> QED
    BY <2>1, <2>2
<1>16. Kept(cache', Levels)
  <2>1. ASSUME NEW l \in Levels
        PROVE  /\ cache'[l].loading \in BOOLEAN
               /\ cache'[l] = [loading |-> cache'[l].loading, nodes |-> cache'[l].nodes]
    <3>1. CASE Holds(s, l)
      <4>1. cache'[l] = [loading |-> TRUE, nodes |-> after[l].nodes]
        BY <1>15, <3>1
      <4> QED
        BY <4>1
    <3>2. CASE ~Holds(s, l)
      <4>1. cache'[l] = after[l]
        BY <1>15, <3>2
      <4> QED
        BY <4>1 DEF Kept
    <3> QED
      BY <3>1, <3>2
  <2>2. cache' = [l \in Levels |-> cache'[l]]
    BY <1>14
  <2> QED
    BY <2>1, <2>2 DEF Kept
<1>17. LevelsComing(asks', cache', Levels)
  <2> SUFFICES ASSUME NEW l \in Levels, cache'[l].loading = TRUE
               PROVE  \E id \in DOMAIN asks' : asks'[id].what = "level" /\ asks'[id].of = l
    BY DEF LevelsComing
  <2>1. CASE Holds(s, l)
    <3>1. PICK i \in 1..n : s[i] = l
      BY <1>6, <2>1 DEF Holds
    <3>2. sent + i \in sent + 1..sent + n /\ (sent + i) - sent = i
      BY <1>6, <1>11, <3>1
    <3>0. PICK k : k = sent + i
      OBVIOUS
    <3>4. asks'[k] = [what |-> "level", of |-> s[k - sent], pattern |-> p, answer |-> Unread] /\ k - sent = i
      BY <1>19, <3>0, <3>2
    <3>3. asks'[sent + i].what = "level" /\ asks'[sent + i].of = l
      BY <3>0, <3>1, <3>4
    <3> QED
      BY <1>20, <3>2, <3>3
  <2>2. CASE ~Holds(s, l)
    <3>1. after[l].loading = TRUE
      BY <1>15, <2>2
    <3>2. PICK id \in DOMAIN asks : asks[id].what = "level" /\ asks[id].of = l
      BY <3>1
    <3> QED
      BY <1>20, <3>2
  <2> QED
    BY <2>1, <2>2
<1>18. ASSUME NEW l \in levels, levels = {l} PROVE cache'[l].loading = TRUE
  <2>1. CASE after[l].loading = TRUE
    BY <1>21, <2>1
  <2>2. CASE after[l].loading # TRUE
    <3>1. S = {l}
      BY <1>1, <1>18, <2>2 DEF Kept
    <3>2. Holds(s, l)
      BY <1>2, <3>1, OneAsked
    <3>3. l \in Levels
      OBVIOUS
    <3>4. cache'[l] = [loading |-> TRUE, nodes |-> after[l].nodes]
      BY <1>15, <3>2, <3>3
    <3> QED
      BY <3>4
  <2> QED
    BY <2>1, <2>2
<1> QED
  BY <1>20, <1>13, <1>21, <1>16, <1>17, <1>18

----------------------------------------------------------------------------
\* What is kept of the requests whose answers have not arrived.
LEMMA Pending ==
  ASSUME ComingInv
  PROVE  /\ Numbered(asks, sent) /\ Kept(cache, Levels) /\ LevelsComing(asks, cache, Levels)
         /\ EditsComing(asks, cache, edits, Levels) /\ PopupComing(asks, wanted)
BY DEF ComingInv, Coming

\* The popup goes on waiting while the request it names is under way.
LEMMA PopupStays ==
  ASSUME NEW old, NEW new, NEW popup_, PopupComing(old, popup_), DOMAIN old \subseteq DOMAIN new,
         \A id \in DOMAIN old : new[id] = old[id]
  PROVE  PopupComing(new, popup_)
BY DEF PopupComing

\* Editors go on waiting while more is asked for and no level they wait for stops.
LEMMA EditsStay ==
  ASSUME NEW old, NEW new, NEW before, NEW after, NEW waiting, NEW levels,
         EditsComing(old, before, waiting, levels), DOMAIN old \subseteq DOMAIN new,
         \A id \in DOMAIN old : new[id] = old[id],
         \A w \in waiting : (w.id = 0 /\ before[w.level].loading = TRUE) => after[w.level].loading = TRUE
  PROVE  EditsComing(new, after, waiting, levels)
BY DEF EditsComing

LEMMA ToggleGoesOn ==
  ASSUME ComingInv, NEW l \in Levels, Toggle(l)
  PROVE  GoesOn
<1>1. CASE Loads({l}, cache)
  <2>1. Kept(cache, Levels) /\ LevelsComing(asks, cache, Levels)
    BY Pending
  <2>2. /\ Numbered(asks', sent') /\ Kept(cache', Levels) /\ LevelsComing(asks', cache', Levels)
        /\ DOMAIN asks \subseteq DOMAIN asks' /\ \A id \in DOMAIN asks : asks'[id] = asks[id]
        /\ \A k \in Levels : cache[k].loading = TRUE => cache'[k].loading = TRUE
    BY <1>1, <2>1, Loaded DEF LevelsComing
  <2>3. EditsComing(asks', cache', edits, Levels)
    BY <2>2, Pending, EditsStay DEF EditsComing
  <2>4. PopupComing(asks', wanted)
    BY <2>2, Pending, PopupStays
  <2>5. world' = world /\ edits' = edits /\ wanted' = wanted /\ expanded' \subseteq Levels
    BY DEF Toggle, popup, ComingInv
  <2> QED
    BY <2>2, <2>3, <2>4, <2>5 DEF GoesOn, Coming
<1>2. CASE UNCHANGED <<cache, asks, sent>>
  BY <1>2 DEF Toggle, popup, ComingInv, GoesOn
<1> QED
  BY <1>1, <1>2 DEF Toggle

\* What is dropped below a level has no editor waiting for it.
LEMMA ReloadGoesOn ==
  ASSUME ComingInv, NEW level, Reload(level), world' = world, wanted' = wanted, expanded' = expanded
  PROVE  GoesOn
<1>1. PICK kept : kept = [l \in Levels |-> IF Under(l, level) THEN Absent ELSE cache[l]]
  OBVIOUS
<1>2. PICK asked : asked = {l \in expanded : Under(l, level)}
                            \cup (IF level = <<>> THEN {} ELSE {SubSeq(level, 1, Len(level) - 1)} \cap Levels)
  OBVIOUS
<1>3. edits' = WithoutEdits(level) /\ Loads(asked, kept)
  BY <1>1, <1>2 DEF Reload
<1>4. Kept(cache, Levels) /\ LevelsComing(asks, cache, Levels) /\ EditsComing(asks, cache, edits, Levels)
  BY Pending
<1>5. ASSUME NEW l \in Levels
      PROVE  /\ Under(l, level) => kept[l] = [loading |-> FALSE, nodes |-> None]
             /\ ~Under(l, level) => kept[l] = cache[l]
  BY <1>1 DEF Absent
<1>6. ASSUME NEW l \in Levels, Under(l, level) PROVE kept[l].loading # TRUE /\ kept[l].loading \in BOOLEAN
  <2>1. kept[l] = [loading |-> FALSE, nodes |-> None]
    BY <1>5, <1>6
  <2> QED
    BY <2>1
<1>7. Kept(kept, Levels)
  <2>1. ASSUME NEW l \in Levels
        PROVE  kept[l].loading \in BOOLEAN /\ kept[l] = [loading |-> kept[l].loading, nodes |-> kept[l].nodes]
    <3>1. CASE Under(l, level)
      <4>1. kept[l] = [loading |-> FALSE, nodes |-> None]
        BY <1>5, <3>1
      <4> QED
        BY <4>1
    <3>2. CASE ~Under(l, level)
      <4>1. kept[l] = cache[l]
        BY <1>5, <3>2
      <4> QED
        BY <1>4, <4>1 DEF Kept
    <3> QED
      BY <3>1, <3>2
  <2> QED
    BY <1>1, <2>1 DEF Kept
<1>8. asked \subseteq Levels
  BY <1>2 DEF ComingInv
<1>9. \A l \in Levels : kept[l].loading = TRUE => cache[l].loading = TRUE /\ ~Under(l, level)
  BY <1>5, <1>6
<1>10. /\ Numbered(asks', sent') /\ Kept(cache', Levels) /\ LevelsComing(asks', cache', Levels)
       /\ DOMAIN asks \subseteq DOMAIN asks' /\ \A id \in DOMAIN asks : asks'[id] = asks[id]
       /\ \A l \in Levels : kept[l].loading = TRUE => cache'[l].loading = TRUE
  <2>1. \A l \in Levels : kept[l].loading = TRUE =>
          \E id \in DOMAIN asks : asks[id].what = "level" /\ asks[id].of = l
    BY <1>4, <1>9 DEF LevelsComing
  <2> QED
    BY <1>3, <1>7, <1>8, <2>1, Loaded
<1>11. EditsComing(asks', cache', edits', Levels)
  <2> SUFFICES ASSUME NEW w \in edits'
               PROVE  /\ w.id = 0 => w.level \in Levels /\ cache'[w.level].loading = TRUE
                      /\ w.id # 0 => w.id \in DOMAIN asks' /\ asks'[w.id].what = "routine"
    BY DEF EditsComing
  <2>1. w \in edits /\ ~Under(w.level, level)
    BY <1>3 DEF WithoutEdits
  <2>2. CASE w.id = 0
    <3>1. w.level \in Levels /\ cache[w.level].loading = TRUE
      BY <1>4, <2>1, <2>2 DEF EditsComing
    <3>2. kept[w.level] = cache[w.level]
      BY <1>5, <2>1, <3>1
    <3> QED
      BY <1>10, <2>2, <3>1, <3>2
  <2>3. CASE w.id # 0
    BY <1>4, <1>10, <2>1, <2>3 DEF EditsComing
  <2> QED
    BY <2>2, <2>3
<1>12. PopupComing(asks', wanted)
  BY <1>10, Pending, PopupStays
<1> QED
  BY <1>10, <1>11, <1>12 DEF GoesOn, Coming, ComingInv

\* edit: an editor waits for its table's columns, which are being read.
LEMMA EditTableGoesOn ==
  ASSUME ComingInv, NEW level \in Levels, EditTable(level)
  PROVE  GoesOn
<1>1. world' = world /\ wanted' = wanted /\ expanded' \subseteq Levels
  BY DEF EditTable, popup, ComingInv
<1>2. CASE UNCHANGED <<edits, cache, asks, sent>>
  BY <1>1, <1>2 DEF ComingInv, GoesOn
<1>3. CASE /\ edits' = {w \in edits : w.level # level \/ w.id # 0} \cup {[level |-> level, id |-> 0]}
           /\ Loads({level}, cache)
  <2>1. Kept(cache, Levels) /\ LevelsComing(asks, cache, Levels) /\ EditsComing(asks, cache, edits, Levels)
    BY Pending
  <2>2. /\ Numbered(asks', sent') /\ Kept(cache', Levels) /\ LevelsComing(asks', cache', Levels)
        /\ DOMAIN asks \subseteq DOMAIN asks' /\ \A id \in DOMAIN asks : asks'[id] = asks[id]
        /\ \A k \in Levels : cache[k].loading = TRUE => cache'[k].loading = TRUE
        /\ cache'[level].loading = TRUE
    BY <1>3, <2>1, Loaded DEF LevelsComing
  <2>3. EditsComing(asks', cache', edits, Levels)
    BY <2>1, <2>2, EditsStay DEF EditsComing
  <2>4. EditsComing(asks', cache', edits', Levels)
    <3> SUFFICES ASSUME NEW w \in edits'
                 PROVE  /\ w.id = 0 => w.level \in Levels /\ cache'[w.level].loading = TRUE
                        /\ w.id # 0 => w.id \in DOMAIN asks' /\ asks'[w.id].what = "routine"
      BY DEF EditsComing
    <3>1. CASE w \in edits
      BY <2>3, <3>1 DEF EditsComing
    <3>2. CASE w = [level |-> level, id |-> 0]
      BY <2>2, <3>2
    <3> QED
      BY <1>3, <3>1, <3>2
  <2>5. PopupComing(asks', wanted)
    BY <2>2, Pending, PopupStays
  <2> QED
    BY <1>1, <2>2, <2>4, <2>5 DEF GoesOn, Coming
<1> QED
  BY <1>2, <1>3 DEF EditTable

\* One more request: what waited still does.
LEMMA AskedStays ==
  ASSUME ComingInv, NEW what, NEW of, AskOne(what, of), cache' = cache
  PROVE  /\ Numbered(asks', sent') /\ Kept(cache', Levels) /\ LevelsComing(asks', cache', Levels)
         /\ EditsComing(asks', cache', edits, Levels) /\ PopupComing(asks', wanted)
         /\ sent + 1 \in DOMAIN asks' /\ sent + 1 # 0
         /\ asks'[sent + 1].what = what /\ asks'[sent + 1].of = of
<1>1. /\ Numbered(asks', sent') /\ sent + 1 # 0 /\ DOMAIN asks' = DOMAIN asks \cup {sent + 1}
      /\ \A id \in DOMAIN asks : asks'[id] = asks[id]
      /\ asks'[sent + 1].what = what /\ asks'[sent + 1].of = of
  BY AskedOne
<1>2. LevelsComing(asks', cache', Levels)
  BY <1>1, Pending DEF LevelsComing
<1>3. EditsComing(asks', cache', edits, Levels)
  BY <1>1, Pending, EditsStay DEF EditsComing
<1>4. PopupComing(asks', wanted)
  BY <1>1, Pending, PopupStays
<1> QED
  BY <1>1, <1>2, <1>3, <1>4, Pending

LEMMA EditRoutineGoesOn ==
  ASSUME ComingInv, NEW p, EditRoutine(p)
  PROVE  GoesOn
<1>1. PICK group, e : /\ group = (IF p.kind = "function" THEN "functions" ELSE "procedures")
                      /\ e = [level |-> <<p.at[1], group, p.at[2]>>, id |-> sent + 1]
  OBVIOUS
<1>2. AskOne("routine", Named(p)) /\ edits' = edits \cup {e}
  BY <1>1 DEF EditRoutine
<1>3. world' = world /\ cache' = cache /\ expanded' = expanded /\ wanted' = wanted
  BY DEF EditRoutine, popup
<1>4. /\ Numbered(asks', sent') /\ Kept(cache', Levels) /\ LevelsComing(asks', cache', Levels)
      /\ EditsComing(asks', cache', edits, Levels) /\ PopupComing(asks', wanted)
      /\ sent + 1 \in DOMAIN asks' /\ sent + 1 # 0 /\ asks'[sent + 1].what = "routine"
  BY <1>2, <1>3, AskedStays
<1>5. e.id = sent + 1
  BY <1>1
<1>6. EditsComing(asks', cache', edits', Levels)
  BY <1>2, <1>4, <1>5 DEF EditsComing
<1> QED
  BY <1>3, <1>4, <1>6 DEF GoesOn, Coming, ComingInv

LEMMA OpenGoesOn ==
  ASSUME ComingInv, NEW what \in {"structure", "routine"}, NEW of, AskOne(what, of),
         wanted' = [what |-> what, of |-> of, id |-> sent + 1], world' = world, UNCHANGED drawer
  PROVE  GoesOn
<1>1. cache' = cache /\ edits' = edits /\ expanded' = expanded
  BY DEF drawer
<1>2. /\ Numbered(asks', sent') /\ Kept(cache', Levels) /\ LevelsComing(asks', cache', Levels)
      /\ EditsComing(asks', cache', edits, Levels)
      /\ sent + 1 \in DOMAIN asks' /\ asks'[sent + 1].what = what /\ asks'[sent + 1].of = of
  BY <1>1, AskedStays
<1>3. PopupComing(asks', wanted')
  BY <1>2 DEF PopupComing
<1> QED
  BY <1>1, <1>2, <1>3 DEF GoesOn, Coming, ComingInv

LEMMA CloseGoesOn ==
  ASSUME ComingInv, Close
  PROVE  GoesOn
<1>1. /\ wanted' = None /\ world' = world /\ asks' = asks /\ sent' = sent
      /\ cache' = cache /\ edits' = edits /\ expanded' = expanded
  BY DEF Close, drawer
<1> QED
  BY <1>1 DEF ComingInv, GoesOn, Coming, PopupComing

----------------------------------------------------------------------------
\* A part of an answer is read: the request stays what it is.
LEMMA ReadGoesOn ==
  ASSUME ComingInv, NEW i \in DOMAIN asks, Read(i)
  PROVE  GoesOn
<1>1. PICK v : asks' = [asks EXCEPT ![i].answer = v]
  BY DEF Read
<1>2. /\ world' = world /\ sent' = sent /\ wanted' = wanted
      /\ cache' = cache /\ edits' = edits /\ expanded' = expanded
  BY DEF Read, drawer, popup
<1>3. PICK m : m = [asks[i] EXCEPT !.answer = v]
  OBVIOUS
<1>4. asks' = [asks EXCEPT ![i] = m]
  BY <1>1, <1>3
<1>5. Numbered(asks, sent)
  BY Pending
<1>6. m = [what |-> asks[i].what, of |-> asks[i].of, pattern |-> asks[i].pattern, answer |-> v]
  BY <1>3, <1>5 DEF Numbered
<1>7. m.what = asks[i].what /\ m.of = asks[i].of
      /\ m = [what |-> m.what, of |-> m.of, pattern |-> m.pattern, answer |-> m.answer]
  BY <1>6
<1>8. /\ DOMAIN asks' = DOMAIN asks /\ asks' = [id \in DOMAIN asks |-> IF id = i THEN m ELSE asks[id]]
      /\ \A id \in DOMAIN asks : asks'[id] = IF id = i THEN m ELSE asks[id]
  BY <1>4, <1>5 DEF Numbered
<1>9. \A id \in DOMAIN asks : asks'[id].what = asks[id].what /\ asks'[id].of = asks[id].of
  BY <1>7, <1>8
<1>10. Numbered(asks', sent')
  BY <1>2, <1>5, <1>7, <1>8 DEF Numbered
<1>11. LevelsComing(asks', cache', Levels)
  BY <1>2, <1>8, <1>9, Pending DEF LevelsComing
<1>12. EditsComing(asks', cache', edits', Levels)
  BY <1>2, <1>8, <1>9, Pending DEF EditsComing
<1>13. PopupComing(asks', wanted')
  BY <1>2, <1>8, <1>9, Pending DEF PopupComing
<1> QED
  BY <1>2, <1>10, <1>11, <1>12, <1>13, Pending DEF GoesOn, Coming, ComingInv

\* An answer arrives: its request is no longer under way, the others are.
LEMMA DeliveredLeaves ==
  ASSUME ComingInv, NEW i, NEW what, Delivered(i, what)
  PROVE  /\ Numbered(asks', sent) /\ asks[i].what = what /\ DOMAIN asks' = DOMAIN asks \ {i}
         /\ \A id \in DOMAIN asks' : asks'[id] = asks[id]
<1>1. asks' = [id \in DOMAIN asks \ {i} |-> asks[id]] /\ asks[i].what = what
  BY DEF Delivered, Restrict
<1>2. Numbered(asks, sent)
  BY Pending
<1>3. Numbered(asks', sent)
  BY <1>1, <1>2 DEF Numbered
<1> QED
  BY <1>1, <1>3

\* A level stops being read, and nothing waits for it any more.
LEMMA LevelGoesOn ==
  ASSUME ComingInv, NEW i \in DOMAIN asks, asks[i].what = "level", DOMAIN asks' = DOMAIN asks \ {i},
         Numbered(asks', sent), \A id \in DOMAIN asks' : asks'[id] = asks[id],
         NEW level, level = asks[i].of, NEW c, c.loading = FALSE, c = [loading |-> c.loading, nodes |-> c.nodes],
         cache' = [cache EXCEPT ![level] = c], edits' = edits \ WaitingFor(level),
         world' = world, sent' = sent, wanted' = wanted, expanded' = expanded
  PROVE  GoesOn
<1>1. Kept(cache, Levels)
  BY Pending
<1>2. cache' = [l \in Levels |-> IF l = level THEN c ELSE cache[l]]
  BY <1>1 DEF Kept
<1>3. Kept(cache', Levels)
  BY <1>1, <1>2 DEF Kept
<1>4. \A l \in Levels : l # level => cache'[l] = cache[l]
  BY <1>2
<1>5. \A l \in Levels : cache'[l].loading = TRUE => l # level
  BY <1>2
<1>6. LevelsComing(asks', cache', Levels)
  <2> SUFFICES ASSUME NEW l \in Levels, cache'[l].loading = TRUE
               PROVE  \E id \in DOMAIN asks' : asks'[id].what = "level" /\ asks'[id].of = l
    BY DEF LevelsComing
  <2>1. l # level /\ cache[l].loading = TRUE
    BY <1>4, <1>5
  <2>2. PICK id \in DOMAIN asks : asks[id].what = "level" /\ asks[id].of = l
    BY <2>1, Pending DEF LevelsComing
  <2>3. id # i
    BY <2>1, <2>2
  <2> QED
    BY <2>2, <2>3
<1>7. EditsComing(asks', cache', edits', Levels)
  BY <1>4, Pending DEF EditsComing, WaitingFor
<1>8. PopupComing(asks', wanted')
  BY Pending DEF PopupComing
<1> QED
  BY <1>3, <1>6, <1>7, <1>8 DEF GoesOn, Coming, ComingInv

LEMMA OnNodesGoesOn ==
  ASSUME ComingInv, NEW i \in DOMAIN asks, OnNodes(i)
  PROVE  GoesOn
<1>1. /\ Numbered(asks', sent) /\ asks[i].what = "level" /\ DOMAIN asks' = DOMAIN asks \ {i}
      /\ \A id \in DOMAIN asks' : asks'[id] = asks[id]
  BY DeliveredLeaves DEF OnNodes
<1>2. PICK c : c = [loading |-> FALSE, nodes |-> IF asks[i].answer = Failed THEN <<>> ELSE asks[i].answer]
  OBVIOUS
<1>3. cache' = [cache EXCEPT ![asks[i].of] = c] /\ edits' = edits \ WaitingFor(asks[i].of)
  BY <1>2 DEF OnNodes
<1>4. world' = world /\ sent' = sent /\ wanted' = wanted /\ expanded' = expanded
  BY DEF OnNodes, popup
<1>5. c.loading = FALSE /\ c = [loading |-> c.loading, nodes |-> c.nodes]
  BY <1>2
<1> QED
  BY <1>1, <1>3, <1>4, <1>5, LevelGoesOn

LEMMA RefuseGoesOn ==
  ASSUME ComingInv, NEW i \in DOMAIN asks, Refuse(i)
  PROVE  GoesOn
<1>1. asks' = [id \in DOMAIN asks \ {i} |-> asks[id]] /\ asks[i].what = "level"
  BY DEF Refuse, Restrict
<1>2. Numbered(asks, sent)
  BY Pending
<1>3. Numbered(asks', sent)
  BY <1>1, <1>2 DEF Numbered
<1>4. PICK c : c = [loading |-> FALSE, nodes |-> Failed]
  OBVIOUS
<1>5. cache' = [cache EXCEPT ![asks[i].of] = c] /\ edits' = edits \ WaitingFor(asks[i].of)
  BY <1>4 DEF Refuse
<1>6. world' = world /\ sent' = sent /\ wanted' = wanted /\ expanded' = expanded
  BY DEF Refuse, popup
<1>7. c.loading = FALSE /\ c = [loading |-> c.loading, nodes |-> c.nodes]
  BY <1>4
<1>8. DOMAIN asks' = DOMAIN asks \ {i} /\ \A id \in DOMAIN asks' : asks'[id] = asks[id]
  BY <1>1
<1> QED
  BY <1>1, <1>3, <1>5, <1>6, <1>7, <1>8, LevelGoesOn

\* A routine's source, or a structure, arrives: whoever names the request stops
\* waiting for it.
LEMMA AnsweredGoesOn ==
  ASSUME ComingInv, NEW i \in DOMAIN asks, NEW what \in {"routine", "structure"}, Delivered(i, what),
         world' = world, sent' = sent, cache' = cache, expanded' = expanded,
         edits' = {w \in edits : w.id # i},
         wanted' \in {wanted, None}, wanted' # None => wanted.id # i
  PROVE  GoesOn
<1>1. /\ Numbered(asks', sent) /\ asks[i].what = what /\ DOMAIN asks' = DOMAIN asks \ {i}
      /\ \A id \in DOMAIN asks' : asks'[id] = asks[id]
  BY DeliveredLeaves
<1>2. LevelsComing(asks', cache', Levels)
  <2> SUFFICES ASSUME NEW l \in Levels, cache'[l].loading = TRUE
               PROVE  \E id \in DOMAIN asks' : asks'[id].what = "level" /\ asks'[id].of = l
    BY DEF LevelsComing
  <2>1. PICK id \in DOMAIN asks : asks[id].what = "level" /\ asks[id].of = l
    BY Pending DEF LevelsComing
  <2>2. id # i
    BY <1>1, <2>1
  <2> QED
    BY <1>1, <2>1, <2>2
<1>3. EditsComing(asks', cache', edits', Levels)
  BY <1>1, Pending DEF EditsComing
<1>4. PopupComing(asks', wanted')
  BY <1>1, Pending DEF PopupComing
<1> QED
  BY <1>1, <1>2, <1>3, <1>4, Pending DEF GoesOn, Coming, ComingInv

LEMMA OnRoutineGoesOn ==
  ASSUME ComingInv, NEW i \in DOMAIN asks, OnRoutine(i)
  PROVE  GoesOn
<1>1. Delivered(i, "routine") /\ asks[i].what = "routine"
  BY DEF OnRoutine, Delivered
<1>2. world' = world /\ sent' = sent /\ cache' = cache /\ expanded' = expanded
  BY DEF OnRoutine
<1>3. edits' = {w \in edits : w.id # i}
  BY DEF OnRoutine
<1>4. CASE wanted # None /\ wanted.what = "routine" /\ wanted.id = i
  <2>1. wanted' = None
    BY <1>4 DEF OnRoutine
  <2> QED
    BY <1>1, <1>2, <1>3, <2>1, AnsweredGoesOn
<1>5. CASE ~(wanted # None /\ wanted.what = "routine" /\ wanted.id = i)
  <2>1. wanted' = wanted
    BY <1>5 DEF OnRoutine, popup
  <2>2. wanted # None => wanted.id # i
    BY <1>1, <1>5, Pending DEF PopupComing
  <2> QED
    BY <1>1, <1>2, <1>3, <2>1, <2>2, AnsweredGoesOn
<1> QED
  BY <1>4, <1>5

LEMMA OnDoneGoesOn ==
  ASSUME ComingInv, NEW i \in DOMAIN asks, OnDone(i)
  PROVE  GoesOn
<1>1. Delivered(i, "structure") /\ asks[i].what = "structure"
  BY DEF OnDone, Delivered
<1>2. world' = world /\ sent' = sent /\ cache' = cache /\ expanded' = expanded /\ edits' = edits
  BY DEF OnDone, drawer
<1>3. \A w \in edits : w.id # i
  <2>1. i # 0
    BY Pending DEF Numbered
  <2> QED
    BY <1>1, <2>1, Pending DEF EditsComing
<1>4. edits' = {w \in edits : w.id # i}
  BY <1>2, <1>3
<1>5. CASE wanted # None /\ wanted.what = "structure" /\ wanted.of = asks[i].of
  <2>1. wanted' = None
    BY <1>5 DEF OnDone
  <2> QED
    BY <1>1, <1>2, <1>4, <2>1, AnsweredGoesOn
<1>6. CASE ~(wanted # None /\ wanted.what = "structure" /\ wanted.of = asks[i].of)
  <2>1. wanted' = wanted
    BY <1>6 DEF OnDone, popup
  <2>2. wanted # None => wanted.id # i
    BY <1>1, <1>6, Pending DEF PopupComing
  <2> QED
    BY <1>1, <1>2, <1>4, <2>1, <2>2, AnsweredGoesOn
<1> QED
  BY <1>5, <1>6

----------------------------------------------------------------------------
\* Whatever the database, the user and the core do, in any order, each thing
\* that waits keeps its request under way (drawer.lua, structure.lua).
THEOREM ComingInvariant == Spec => []ComingInv
<1>1. Init => ComingInv
  <2> SUFFICES ASSUME Init PROVE ComingInv
    OBVIOUS
  <2>1. IsFiniteSet(Levels) /\ expanded \subseteq Levels
    BY LevelsFinite DEF Init, Levels
  <2>2. Numbered(asks, sent)
    BY DEF Init, Numbered
  <2>3. cache = [l \in Levels |-> [loading |-> FALSE, nodes |-> None]]
    BY DEF Init, Absent
  <2>4. Kept(cache, Levels) /\ LevelsComing(asks, cache, Levels)
    BY <2>3 DEF Kept, LevelsComing
  <2>5. EditsComing(asks, cache, edits, Levels) /\ PopupComing(asks, wanted)
    BY DEF Init, EditsComing, PopupComing
  <2> QED
    BY <2>1, <2>2, <2>4, <2>5 DEF ComingInv, Coming
<1>2. ComingInv /\ [Next]_vars => ComingInv'
  <2> SUFFICES ASSUME ComingInv, [Next]_vars PROVE ComingInv'
    OBVIOUS
  <2>1. ASSUME UNCHANGED <<world, asks, sent, cache, edits, expanded, wanted>> PROVE GoesOn
    BY <2>1 DEF ComingInv, GoesOn
  <2>2. CASE UNCHANGED vars
    BY <2>1, <2>2, ComingInvNext DEF vars
  <2>3. ASSUME NEW x, Define(x) PROVE ComingInv'
    BY <2>1, <2>3, ComingInvNext DEF Define, drawer, popup
  <2>4. ASSUME NEW k, Retype(k) PROVE ComingInv'
    BY <2>1, <2>4, ComingInvNext DEF Retype, drawer, popup
  <2>5. CASE User
    <3>1. ASSUME NEW l \in Levels, Toggle(l) PROVE ComingInv'
      BY <3>1, ToggleGoesOn, ComingInvNext
    <3>2. ASSUME NEW l \in Levels, Refresh(l) PROVE ComingInv'
      BY <3>2, ReloadGoesOn, ComingInvNext DEF Refresh, popup
    <3>3. ASSUME NEW l \in Levels, EditTable(l) PROVE ComingInv'
      BY <3>3, EditTableGoesOn, ComingInvNext
    <3>4. CASE FilterKeys
      BY <3>4, ReloadGoesOn, ComingInvNext DEF FilterKeys, popup
    <3>5. ASSUME NEW p, EditRoutine(p) PROVE ComingInv'
      BY <3>5, EditRoutineGoesOn, ComingInvNext
    <3>6. ASSUME NEW p, OpenRoutine(p) PROVE ComingInv'
      BY <3>6, OpenGoesOn, ComingInvNext DEF OpenRoutine
    <3>7. ASSUME NEW t, OpenStructure(t) PROVE ComingInv'
      BY <3>7, OpenGoesOn, ComingInvNext DEF OpenStructure
    <3>8. CASE Close
      BY <3>8, CloseGoesOn, ComingInvNext
    <3> QED
      BY <2>5, <3>1, <3>2, <3>3, <3>4, <3>5, <3>6, <3>7, <3>8 DEF User
  <2>6. ASSUME NEW i, Answer(i) PROVE ComingInv'
    BY <2>6, ReadGoesOn, RefuseGoesOn, OnNodesGoesOn, OnRoutineGoesOn, OnDoneGoesOn, ComingInvNext DEF Answer
  <2> QED
    BY <2>2, <2>3, <2>4, <2>5, <2>6 DEF Next
<1> QED
  BY <1>1, <1>2, PTL DEF Spec

\* Nothing the drawer or the structure popup waits for has lost its request.
THEOREM AnswersAreComing == Spec => []AnswersComing
<1>1. ComingInv => AnswersComing
  <2> SUFFICES ASSUME ComingInv PROVE AnswersComing
    OBVIOUS
  <2>1. \A l \in Levels : cache[l].loading => \E id \in DOMAIN asks : asks[id].what = "level" /\ asks[id].of = l
    BY Pending DEF LevelsComing, Kept
  <2>2. ASSUME NEW w \in edits PROVE IF w.id = 0 THEN cache[w.level].loading ELSE w.id \in DOMAIN asks
    <3>1. CASE w.id = 0
      <4>1. cache[w.level].loading = TRUE
        BY <3>1, Pending DEF EditsComing
      <4> QED
        BY <3>1, <4>1
    <3>2. CASE w.id # 0
      BY <3>2, Pending DEF EditsComing
    <3> QED
      BY <3>1, <3>2
  <2>3. wanted # None => \E id \in DOMAIN asks : asks[id].what = wanted.what /\ asks[id].of = wanted.of
    BY Pending DEF PopupComing
  <2> QED
    BY <2>1, <2>2, <2>3 DEF AnswersComing
<1> QED
  BY <1>1, ComingInvariant, PTL
----------------------------------------------------------------------------
(* What a query's ORDER BY gives, and the definitions of a routine in it.      *)

\* R is a strict total order of S.
Orders(R, S) ==
  /\ \A x \in S : <<x, x>> \notin R
  /\ \A x, y \in S : x # y => <<x, y>> \in R \/ <<y, x>> \in R
  /\ \A x, y, z \in S : <<x, y>> \in R /\ <<y, z>> \in R => <<x, z>> \in R
Below(R, S, x) == {y \in S : <<y, x>> \in R}

LEMMA Ranked == ASSUME NEW S, NEW R, IsFiniteSet(S), Orders(R, S)
  PROVE /\ Cardinality(S) \in Nat
        /\ \A k \in 1..Cardinality(S) : \E x \in S : Cardinality(Below(R, S, x)) = k - 1
        /\ \A x \in S : Cardinality(Below(R, S, x)) \in 0..(Cardinality(S) - 1)
        /\ \A x, y \in S : <<x, y>> \in R => Cardinality(Below(R, S, x)) < Cardinality(Below(R, S, y))
<1> DEFINE n == Cardinality(S)
           rank(x) == Cardinality(Below(R, S, x))
<1>1. n \in Nat
  BY FS_CardinalityType
<1>2. ASSUME NEW x \in S PROVE IsFiniteSet(Below(R, S, x)) /\ rank(x) \in Nat /\ rank(x) < n
  <2>1. Below(R, S, x) \in SUBSET S /\ Below(R, S, x) # S
    BY DEF Below, Orders
  <2>2. IsFiniteSet(Below(R, S, x)) /\ rank(x) <= n /\ rank(x) # n
    BY <2>1, FS_Subset
  <2>3. rank(x) \in Nat
    BY <2>2, FS_CardinalityType
  <2> QED
    BY <1>1, <2>2, <2>3
<1>3. ASSUME NEW x \in S, NEW y \in S, <<x, y>> \in R PROVE rank(x) < rank(y)
  <2>1. Below(R, S, x) \in SUBSET Below(R, S, y) /\ x \in Below(R, S, y) /\ x \notin Below(R, S, x)
    BY <1>3 DEF Below, Orders
  <2>2. rank(x) <= rank(y) /\ rank(x) # rank(y)
    BY <1>2, <2>1, FS_Subset
  <2> QED
    BY <1>2, <2>2
<1>4. PICK g : g = [x \in S |-> rank(x)]
  OBVIOUS
<1>5. PICK T : T = 0..(n - 1)
  OBVIOUS
<1> HIDE DEF rank
<1>6. IsFiniteSet(T) /\ Cardinality(T) = n
  <2>1. 0 \in Int /\ n - 1 \in Int
    BY <1>1
  <2>2. IsFiniteSet(0..(n - 1)) /\ Cardinality(0..(n - 1)) = IF 0 > n - 1 THEN 0 ELSE (n - 1) - 0 + 1
    BY <2>1, FS_Interval
  <2> QED
    BY <1>1, <1>5, <2>2
<1>7. g \in Injection(S, T)
  <2>1. g \in [S -> T]
    BY <1>1, <1>2, <1>4, <1>5
  <2>2. ASSUME NEW x \in S, NEW y \in S, g[x] = g[y] PROVE x = y
    <3>1. rank(x) = rank(y) /\ rank(x) \in Nat
      BY <1>2, <1>4, <2>2
    <3>2. ~(rank(x) < rank(y)) /\ ~(rank(y) < rank(x))
      BY <3>1
    <3> QED
      BY <1>3, <3>2 DEF Orders
  <2> QED
    BY <2>1, <2>2 DEF Injection, IsInjective
<1>8. g \in Surjection(S, T)
  BY <1>6, <1>7, FS_Injection
<1>9. ASSUME NEW k \in 1..n PROVE \E x \in S : rank(x) = k - 1
  <2>1. k - 1 \in T
    BY <1>1, <1>5
  <2>2. \E x \in S : g[x] = k - 1
    BY <1>8, <2>1 DEF Surjection
  <2> QED
    BY <1>4, <2>2
<1>10. ASSUME NEW x \in S PROVE rank(x) \in 0..(n - 1)
  BY <1>1, <1>2
<1> QED
  BY <1>1, <1>3, <1>9, <1>10 DEF rank

\* A list of S in the order of R.
Sequence(s) == Len(s) \in Nat /\ s = [i \in 1..Len(s) |-> s[i]]
InOrder(f, R, S) ==
  /\ Sequence(f) /\ Len(f) = Cardinality(S)
  /\ \A i \in 1..Len(f) : f[i] \in S
  /\ \A x \in S : \E i \in 1..Len(f) : f[i] = x
  /\ \A i, j \in 1..Len(f) : i < j => <<f[i], f[j]>> \in R

LEMMA RankedInOrder ==
  ASSUME NEW S, NEW R, NEW f, IsFiniteSet(S), Orders(R, S), f = [i \in 1..Cardinality(S) |-> f[i]],
         \A i \in 1..Cardinality(S) : f[i] \in S /\ Cardinality(Below(R, S, f[i])) = i - 1
  PROVE  InOrder(f, R, S)
<1> DEFINE rank(x) == Cardinality(Below(R, S, x))
<1>1. PICK n : n = Cardinality(S)
  OBVIOUS
<1>2. n \in Nat /\ \A x \in S : rank(x) \in 0..(n - 1)
  BY <1>1, Ranked
<1>3. \A x, y \in S : <<x, y>> \in R => rank(x) < rank(y)
  BY Ranked
<1> HIDE DEF rank
<1>4. f \in Seq({f[i] : i \in 1..n}) /\ Len(f) = n
  BY <1>1, <1>2
<1>5. Sequence(f)
  BY <1>1, <1>2, <1>4 DEF Sequence
<1>6. \A i \in 1..n : f[i] \in S /\ rank(f[i]) = i - 1
  BY <1>1 DEF rank
<1>7. ASSUME NEW x \in S, NEW y \in S, rank(x) = rank(y) PROVE x = y
  <2>1. ~(rank(x) < rank(y)) /\ ~(rank(y) < rank(x))
    BY <1>2, <1>7
  <2> QED
    BY <1>3, <2>1 DEF Orders
<1>8. ASSUME NEW x \in S PROVE \E i \in 1..n : f[i] = x
  <2>1. rank(x) + 1 \in 1..n /\ (rank(x) + 1) - 1 = rank(x)
    BY <1>2
  <2>2. PICK i \in 1..n : i = rank(x) + 1
    BY <2>1
  <2>3. f[i] \in S /\ rank(f[i]) = rank(x)
    BY <1>6, <2>1, <2>2
  <2> QED
    BY <1>7, <2>3
<1>9. ASSUME NEW i \in 1..n, NEW j \in 1..n, i < j PROVE <<f[i], f[j]>> \in R
  <2>0. f[i] \in S /\ f[j] \in S /\ rank(f[i]) = i - 1 /\ rank(f[j]) = j - 1
    BY <1>6
  <2>1. f[i] \in S /\ f[j] \in S /\ rank(f[i]) < rank(f[j])
    BY <1>2, <1>9, <2>0
  <2>2. rank(f[i]) \in Int /\ rank(f[j]) \in Int
    BY <1>2, <2>1
  <2>3. rank(f[i]) # rank(f[j]) /\ ~(rank(f[j]) < rank(f[i]))
    BY <2>1, <2>2
  <2> QED
    BY <1>3, <2>1, <2>3 DEF Orders
<1> QED
  BY <1>1, <1>4, <1>5, <1>6, <1>8, <1>9 DEF InOrder

\* Appending to nothing.
LEMMA NothingBefore == ASSUME NEW n \in Nat, NEW f, f = [i \in 1..n |-> f[i]] PROVE <<>> \o f = f
<1>1. PICK T : T = {f[i] : i \in 1..n}
  OBVIOUS
<1>2. f \in Seq(T) /\ Len(f) = n
  BY <1>1
<1>3. <<>> \in Seq(T) /\ Len(<<>>) = 0
  OBVIOUS
<1>4. PICK g : g = <<>> \o f
  OBVIOUS
<1>5. g \in Seq(T) /\ Len(g) = n /\ \A i \in 1..n : g[i] = f[i]
  BY <1>2, <1>3, <1>4
<1> QED
  BY <1>2, <1>4, <1>5

LEMMA BeforeOne == ASSUME NEW a, NEW b PROVE Before(<<a>>, <<b>>) <=> a < b
<1>1. DOMAIN <<a>> = {1} /\ <<a>>[1] = a /\ <<b>>[1] = b
  OBVIOUS
<1>2. 1..(1 - 1) = {}
  OBVIOUS
<1> QED
  BY <1>1, <1>2 DEF Before

\* What is numbered, in the order of its numbers.
NoTwoAlike(S) == IsFiniteSet(S) /\ (\A p \in S : p.no \in Int) /\ \A p, q \in S : p.no = q.no => p = q
ByNumber(S) == {x \in S \X S : x[1].no < x[2].no}

LEMMA NumbersOrder == ASSUME NEW S, NoTwoAlike(S) PROVE Orders(ByNumber(S), S)
<1>1. \A p, q \in S : <<p, q>> \in ByNumber(S) <=> p.no < q.no
  BY DEF ByNumber
<1>2. \A p, q \in S : p # q => p.no < q.no \/ q.no < p.no
  BY DEF NoTwoAlike
<1>3. \A p, q, r \in S : p.no < q.no /\ q.no < r.no => p.no < r.no
  BY DEF NoTwoAlike
<1>4. \A p \in S : ~(p.no < p.no)
  BY DEF NoTwoAlike
<1> QED
  BY <1>1, <1>2, <1>3, <1>4 DEF Orders

Numbers(S) == LET key(p) == <<p.no>> IN Column(OrderedBy(S, key), "no")

LEMMA NumbersAre == ASSUME NEW S, NoTwoAlike(S) PROVE Elements(Numbers(S)) = {p.no : p \in S}
<1>1. PICK R, n : R = ByNumber(S) /\ n = Cardinality(S)
  OBVIOUS
<1>2. Orders(R, S) /\ IsFiniteSet(S)
  BY <1>1, NumbersOrder DEF NoTwoAlike
<1>3. ASSUME NEW r \in S PROVE {s \in S : Before(<<s.no>>, <<r.no>>)} = Below(R, S, r)
  BY <1>1, BeforeOne DEF Below, ByNumber
<1> DEFINE at(i) == CHOOSE r \in S : Cardinality({s \in S : Before(<<s.no>>, <<r.no>>)}) = i - 1
<1>4. ASSUME NEW i \in 1..n PROVE at(i) \in S /\ Cardinality(Below(R, S, at(i))) = i - 1
  <2>1. PICK r \in S : Cardinality(Below(R, S, r)) = i - 1
    BY <1>1, <1>2, Ranked
  <2>3. Cardinality({s \in S : Before(<<s.no>>, <<r.no>>)}) = i - 1
    BY <1>3, <2>1
  <2>2. at(i) \in S /\ Cardinality({s \in S : Before(<<s.no>>, <<at(i).no>>)}) = i - 1
    BY <2>3
  <2> QED
    BY <1>3, <2>2
<1>5. PICK f : f = [i \in 1..n |-> at(i)]
  OBVIOUS
<1>6. Numbers(S) = Column(<<>> \o f, "no")
  BY <1>1, <1>5 DEF Numbers, OrderedBy
<1> HIDE DEF at
<1>7. n \in Nat
  BY <1>1, <1>2, Ranked
<1>8. <<>> \o f = f
  <2>1. f = [i \in 1..n |-> f[i]]
    BY <1>5
  <2> QED
    BY <1>7, <2>1, NothingBefore
<1>9. InOrder(f, R, S)
  <2>1. f = [i \in 1..Cardinality(S) |-> f[i]]
    BY <1>1, <1>5
  <2>2. \A i \in 1..Cardinality(S) : f[i] \in S /\ Cardinality(Below(R, S, f[i])) = i - 1
    BY <1>1, <1>4, <1>5
  <2> QED
    BY <1>2, <2>1, <2>2, RankedInOrder
<1>10. Numbers(S) = [i \in DOMAIN f |-> f[i].no]
  BY <1>6, <1>8 DEF Column
<1>11. DOMAIN f = 1..Len(f) /\ DOMAIN Numbers(S) = DOMAIN f
  BY <1>9, <1>10 DEF InOrder, Sequence
<1> QED
  BY <1>9, <1>10, <1>11 DEF Elements, InOrder

----------------------------------------------------------------------------
\* The routines of a database stay those it starts with.
RoutinesInv ==
  /\ \E w \in DOMAIN Worlds : world = Worlds[w]
  /\ "routines" \in DOMAIN db /\ db.routines = world.db.routines

LEMMA SomeNumbered ==
  ASSUME NEW R, NEW S, S \subseteq R, NoTwoAlike(R)
  PROVE  Elements(Numbers(S)) = {p.no : p \in S}
<1>1. NoTwoAlike(S)
  BY FS_Subset DEF NoTwoAlike
<1> QED
  BY <1>1, NumbersAre

LEMMA OneNumbered ==
  ASSUME NEW p, NEW S, S = {p}, NEW q, q \in S
  PROVE  Elements(<<q.no>>) = {r.no : r \in S}
<1>1. DOMAIN <<q.no>> = {1} /\ <<q.no>>[1] = q.no /\ q = p
  OBVIOUS
<1> QED
  BY <1>1 DEF Elements

\* Each adapter's query answers with every definition, or there is no answer.
SourceIs(e, d, p) ==
  Elements(RoutineSource(e, d, p.at, p.kind)) = {q.no : q \in {o \in d.routines : o.at = p.at /\ o.kind = p.kind}}
LEMMA SourceWhole ==
  ASSUME NEW e, NEW d, RoutinesOf(e, d.routines), NEW p \in d.routines,
         RoutineSource(e, d, p.at, p.kind) # Failed
  PROVE  SourceIs(e, d, p)
<1>1. PICK S : S = {o \in d.routines : o.at = p.at /\ o.kind = p.kind}
  OBVIOUS
<1>2. p \in S /\ S \subseteq d.routines /\ NoTwoAlike(d.routines)
  BY <1>1 DEF RoutinesOf, NoTwoAlike
<1>3. Elements(Numbers(S)) = {q.no : q \in S}
  BY <1>2, SomeNumbered
<1>4. e \in {"postgres", "mysql", "mssql", "oracle", "surrealdb", "clickhouse"} /\ p.kind # "package"
  BY DEF RoutineSource
<1>5. CASE e = "postgres"
  <2>1. RoutineSource(e, d, p.at, p.kind) = Numbers(S)
    BY <1>1, <1>4, <1>5 DEF RoutineSource, PgRoutineSource, Numbers
  <2> QED
    BY <1>1, <1>3, <2>1 DEF SourceIs
<1>6. CASE e = "mssql"
  <2>1. RoutineSource(e, d, p.at, p.kind) = Numbers(S)
    BY <1>1, <1>4, <1>6 DEF RoutineSource, MsSqlRoutineSource, Numbers
  <2> QED
    BY <1>1, <1>3, <2>1 DEF SourceIs
<1>7. CASE e = "surrealdb"
  <2>1. p.kind = "function" /\ {o \in d.routines : o.at = p.at} = S
    BY <1>1, <1>7 DEF RoutinesOf
  <2>2. RoutineSource(e, d, p.at, p.kind) = Numbers(S)
    BY <1>4, <1>7, <2>1 DEF RoutineSource, SurrealRoutineSource, Numbers
  <2> QED
    BY <1>1, <1>3, <2>2 DEF SourceIs
<1>8. CASE e = "clickhouse"
  <2>1. p.kind = "function" /\ {o \in d.routines : o.at[2] = p.at[2]} = S
    BY <1>1, <1>8 DEF RoutinesOf
  <2>2. RoutineSource(e, d, p.at, p.kind) = Numbers(S)
    BY <1>4, <1>8, <2>1 DEF RoutineSource, ClickHouseRoutineSource, Numbers
  <2> QED
    BY <1>1, <1>3, <2>2 DEF SourceIs
<1>9. CASE e = "mysql"
  <2>1. S = {p}
    BY <1>1, <1>9 DEF RoutinesOf
  <2>2. PICK q \in S : RoutineSource(e, d, p.at, p.kind) = <<q.no>>
    <3>1. PICK q : q = CHOOSE o \in S : TRUE
      OBVIOUS
    <3>2. q \in S
      BY <1>2, <3>1
    <3>3. MySqlRoutineSource(d, p.at, p.kind) = IF q.shown THEN <<q.no>> ELSE Failed
      BY <1>1, <1>2, <1>4, <3>1 DEF MySqlRoutineSource
    <3> QED
      BY <1>9, <3>2, <3>3 DEF RoutineSource
  <2> QED
    BY <1>1, <2>1, <2>2, OneNumbered DEF SourceIs
<1>10. CASE e = "oracle"
  <2>1. S = {p}
    BY <1>1, <1>10 DEF RoutinesOf
  <2>2. PICK q \in S : RoutineSource(e, d, p.at, p.kind) = <<q.no>>
    <3>1. PICK T : T = {o \in d.routines : o.at = p.at /\ o.kind = p.kind /\ o.shown}
      OBVIOUS
    <3>2. OracleRoutineSource(d, p.at, p.kind) = IF T = {} THEN <<>> ELSE <<(CHOOSE o \in T : TRUE).no>>
      BY <1>4, <3>1 DEF OracleRoutineSource
    <3>3. T # {}
      BY <1>10, <3>2 DEF RoutineSource
    <3>4. PICK q : q = CHOOSE o \in T : TRUE
      OBVIOUS
    <3>5. q \in S
      BY <1>1, <3>1, <3>3, <3>4
    <3>6. OracleRoutineSource(d, p.at, p.kind) = <<q.no>>
      BY <3>2, <3>3, <3>4
    <3> QED
      BY <1>10, <3>5, <3>6 DEF RoutineSource
  <2> QED
    BY <1>1, <2>1, <2>2, OneNumbered DEF SourceIs
<1> QED
  BY <1>4, <1>5, <1>6, <1>7, <1>8, <1>9, <1>10

LEMMA RoutinesStay == Spec => []RoutinesInv
<1>1. Init => RoutinesInv
  BY RoutinesGiven DEF Init, RoutinesInv
<1>2. RoutinesInv /\ [Next]_vars => RoutinesInv'
  <2> SUFFICES ASSUME RoutinesInv, [Next]_vars PROVE RoutinesInv'
    OBVIOUS
  <2>1. CASE world' = world /\ db' = db
    BY <2>1 DEF RoutinesInv
  <2>2. ASSUME NEW x, Define(x) PROVE RoutinesInv'
    <3>1. PICK v : db' = [db EXCEPT !.constraints = v]
      BY <2>2 DEF Define
    <3>2. world' = world
      BY <2>2 DEF Define
    <3> QED
      BY <3>1, <3>2 DEF RoutinesInv
  <2>3. ASSUME NEW k, Retype(k) PROVE RoutinesInv'
    <3>1. PICK v : db' = [db EXCEPT !.types = v]
      BY <2>3 DEF Retype
    <3>2. world' = world
      BY <2>3 DEF Retype
    <3> QED
      BY <3>1, <3>2 DEF RoutinesInv
  <2>4. CASE User
    BY <2>1, <2>4 DEF User, Toggle, Refresh, EditTable, FilterKeys, EditRoutine, OpenRoutine, OpenStructure, Close
  <2>5. ASSUME NEW i, Answer(i) PROVE RoutinesInv'
    BY <2>1, <2>5 DEF Answer, Read, Refuse, OnNodes, OnRoutine, OnDone
  <2>6. CASE UNCHANGED vars
    BY <2>1, <2>6 DEF vars
  <2> QED
    BY <2>2, <2>3, <2>4, <2>5, <2>6 DEF Next
<1> QED
  BY <1>1, <1>2, PTL DEF Spec

\* An editor or a popup opened on a routine holds all its definitions, whichever
\* engine it is read from and however many overloads it has (routine_source).
THEOREM RoutinesAreWhole == Spec => []RoutinesWhole
<1>1. RoutinesInv => RoutinesWhole
  <2> SUFFICES ASSUME RoutinesInv, NEW p \in db.routines, RoutineSource(engine, db, p.at, p.kind) # Failed
               PROVE  Elements(RoutineSource(engine, db, p.at, p.kind))
                        = {q.no : q \in {o \in db.routines : o.at = p.at /\ o.kind = p.kind}}
    BY DEF RoutinesWhole
  <2>1. RoutinesOf(engine, db.routines)
    BY RoutinesGiven DEF RoutinesInv, engine
  <2>2. SourceIs(engine, db, p)
    BY <2>1, SourceWhole
  <2> QED
    BY <2>2 DEF SourceIs
<1> QED
  BY <1>1, RoutinesStay, PTL

\* The members of S, each at its rank.
ByRank(f, R, S) ==
  /\ f = [i \in 1..Cardinality(S) |-> f[i]]
  /\ \A i \in 1..Cardinality(S) : f[i] \in S /\ Cardinality(Below(R, S, f[i])) = i - 1

LEMMA RankNumber ==
  ASSUME NEW S, NEW R, IsFiniteSet(S), NEW x \in S
  PROVE  Cardinality(Below(R, S, x)) \in Nat
<1>1. Below(R, S, x) \in SUBSET S
  BY DEF Below
<1>2. IsFiniteSet(Below(R, S, x))
  BY <1>1, FS_Subset
<1> QED
  BY <1>2, FS_CardinalityType

\* No two members have as many before them.
LEMMA OneRank ==
  ASSUME NEW S, NEW R, IsFiniteSet(S), Orders(R, S), NEW x \in S, NEW y \in S,
         Cardinality(Below(R, S, x)) = Cardinality(Below(R, S, y))
  PROVE  x = y
<1> DEFINE rank(z) == Cardinality(Below(R, S, z))
<1>1. \A z \in S : rank(z) \in 0..(Cardinality(S) - 1)
  BY Ranked
<1>2. \A v, w \in S : <<v, w>> \in R => rank(v) < rank(w)
  BY Ranked
<1>3. rank(x) = rank(y) /\ Cardinality(S) \in Nat
  BY Ranked
<1> HIDE DEF rank
<1>4. ~(rank(x) < rank(y)) /\ ~(rank(y) < rank(x))
  BY <1>1, <1>3
<1> QED
  BY <1>2, <1>4 DEF Orders

\* A member is found one after those before it.
LEMMA AtRank ==
  ASSUME NEW S, NEW R, NEW f, IsFiniteSet(S), Orders(R, S), ByRank(f, R, S), NEW x \in S
  PROVE  /\ Cardinality(Below(R, S, x)) + 1 \in 1..Cardinality(S)
         /\ f[Cardinality(Below(R, S, x)) + 1] = x
<1>1. PICK n, r : n = Cardinality(S) /\ r = Cardinality(Below(R, S, x))
  OBVIOUS
<1>2. n \in Nat /\ r \in 0..(n - 1)
  BY <1>1, Ranked
<1>3. r + 1 \in 1..n /\ (r + 1) - 1 = r
  BY <1>2
<1>4. PICK i : i = r + 1
  OBVIOUS
<1>5. f[i] \in S /\ Cardinality(Below(R, S, f[i])) = r
  BY <1>1, <1>3, <1>4 DEF ByRank
<1>6. f[i] = x
  BY <1>1, <1>5, OneRank
<1> QED
  BY <1>1, <1>3, <1>4, <1>6

\* One row per column of a key, the rows of a key in order.
Shaped(c) == /\ Len(c.cols) \in Nat /\ Len(c.cols) >= 1
             /\ c.cols = [i \in 1..Len(c.cols) |-> c.cols[i]]
Part(c, i) == [key |-> c, i |-> i]
Lex(RC, C) ==
  {x \in AllParts(C) \X AllParts(C) : \/ <<x[1].key, x[2].key>> \in RC
                                      \/ x[1].key = x[2].key /\ x[1].i < x[2].i}

\* A key has a part for each of its columns.
LEMMA PartsAre ==
  ASSUME NEW C, \A c \in C : Shaped(c)
  PROVE  /\ \A p : p \in AllParts(C) <=> \E c \in C : \E i \in 1..Len(c.cols) : p = Part(c, i)
         /\ \A c \in C : Parts(c) = {Part(c, i) : i \in 1..Len(c.cols)}
<1>1. ASSUME NEW c \in C PROVE DOMAIN c.cols = 1..Len(c.cols)
  BY DEF Shaped
<1>2. ASSUME NEW c \in C PROVE Parts(c) = {Part(c, i) : i \in 1..Len(c.cols)}
  BY <1>1 DEF Parts, Part
<1>3. ASSUME NEW p, p \in AllParts(C) PROVE \E c \in C : \E i \in 1..Len(c.cols) : p = Part(c, i)
  <2>1. PICK c \in C : p \in Parts(c)
    BY <1>3 DEF AllParts
  <2> QED
    BY <1>2, <2>1
<1>4. ASSUME NEW p, NEW c \in C, NEW i \in 1..Len(c.cols), p = Part(c, i) PROVE p \in AllParts(C)
  <2>1. p \in Parts(c)
    BY <1>2, <1>4
  <2> QED
    BY <2>1 DEF AllParts
<1> QED
  BY <1>2, <1>3, <1>4

\* Keys in an order, and each one's parts by their places: an order of all parts.
LEMMA LexOrders ==
  ASSUME NEW C, NEW RC, IsFiniteSet(C), Orders(RC, C), \A c \in C : Shaped(c)
  PROVE  IsFiniteSet(AllParts(C)) /\ Orders(Lex(RC, C), AllParts(C))
<1>1. ASSUME NEW c \in C PROVE IsFiniteSet(Parts(c))
  <2>1. PICK n \in Nat : n = Len(c.cols)
    BY DEF Shaped
  <2>2. IsFiniteSet(1..n)
    BY FS_Interval
  <2>3. PICK T : T = {Part(c, i) : i \in 1..n}
    OBVIOUS
  <2>4. PICK g : g = [i \in 1..n |-> Part(c, i)]
    OBVIOUS
  <2>5. g \in Surjection(1..n, T)
    BY <2>3, <2>4 DEF Surjection
  <2>6. IsFiniteSet(T)
    BY <2>2, <2>5, FS_Surjection
  <2> QED
    BY <2>1, <2>3, <2>6, PartsAre
<1>2. IsFiniteSet(AllParts(C))
  <2>1. PICK T : T = {Parts(c) : c \in C}
    OBVIOUS
  <2>2. PICK g : g = [c \in C |-> Parts(c)]
    OBVIOUS
  <2>3. g \in Surjection(C, T)
    BY <2>1, <2>2 DEF Surjection
  <2>4. IsFiniteSet(T) /\ \A P \in T : IsFiniteSet(P)
    BY <1>1, <2>1, <2>3, FS_Surjection
  <2>5. IsFiniteSet(UNION T)
    BY <2>4, FS_UNION
  <2> QED
    BY <2>1, <2>5 DEF AllParts
<1>3. \A p \in AllParts(C) : p.key \in C /\ p.i \in Int /\ p = Part(p.key, p.i)
  <2> SUFFICES ASSUME NEW p \in AllParts(C) PROVE p.key \in C /\ p.i \in Int /\ p = Part(p.key, p.i)
    OBVIOUS
  <2>1. PICK c \in C, i \in Int : p = Part(c, i)
    BY PartsAre
  <2>2. p.key = c /\ p.i = i
    BY <2>1 DEF Part
  <2> QED
    BY <2>1, <2>2
<1>4. \A p, q \in AllParts(C) : <<p, q>> \in Lex(RC, C) <=> <<p.key, q.key>> \in RC \/ (p.key = q.key /\ p.i < q.i)
  BY DEF Lex
<1>5. \A p, q \in AllParts(C) : p # q => p.key # q.key \/ p.i # q.i
  BY <1>3
<1>6. ASSUME NEW p \in AllParts(C) PROVE <<p, p>> \notin Lex(RC, C)
  <2>1. p.key \in C /\ ~(p.i < p.i)
    BY <1>3
  <2>2. <<p.key, p.key>> \notin RC
    BY <2>1 DEF Orders
  <2> QED
    BY <1>4, <2>1, <2>2
<1>7. ASSUME NEW p \in AllParts(C), NEW q \in AllParts(C), p # q
      PROVE  <<p, q>> \in Lex(RC, C) \/ <<q, p>> \in Lex(RC, C)
  <2>1. CASE p.key # q.key
    BY <1>3, <1>4, <2>1 DEF Orders
  <2>2. CASE p.key = q.key
    <3>1. p.i < q.i \/ q.i < p.i
      BY <1>3, <1>5, <1>7, <2>2
    <3> QED
      BY <1>4, <2>2, <3>1
  <2> QED
    BY <2>1, <2>2
<1>8. ASSUME NEW p \in AllParts(C), NEW q \in AllParts(C), NEW r \in AllParts(C),
             <<p, q>> \in Lex(RC, C), <<q, r>> \in Lex(RC, C)
      PROVE  <<p, r>> \in Lex(RC, C)
  <2>1. <<p.key, q.key>> \in RC \/ (p.key = q.key /\ p.i < q.i)
    BY <1>4, <1>8
  <2>2. <<q.key, r.key>> \in RC \/ (q.key = r.key /\ q.i < r.i)
    BY <1>4, <1>8
  <2>3. p.key \in C /\ q.key \in C /\ r.key \in C /\ p.i \in Int /\ q.i \in Int /\ r.i \in Int
    BY <1>3
  <2>4. <<p.key, r.key>> \in RC \/ (p.key = r.key /\ p.i < r.i)
    <3>1. CASE <<p.key, q.key>> \in RC
      BY <2>2, <2>3, <3>1 DEF Orders
    <3>2. CASE p.key = q.key /\ p.i < q.i
      BY <2>2, <2>3, <3>2
    <3> QED
      BY <2>1, <3>1, <3>2
  <2> QED
    BY <1>4, <2>4
<1> QED
  BY <1>2, <1>6, <1>7, <1>8 DEF Orders

\* The parts of a key follow one another.
LEMMA PartRank ==
  ASSUME NEW C, NEW RC, IsFiniteSet(C), Orders(RC, C), \A c \in C : Shaped(c),
         NEW c \in C, NEW j \in 1..Len(c.cols)
  PROVE  Cardinality(Below(Lex(RC, C), AllParts(C), Part(c, j)))
           = Cardinality(Below(Lex(RC, C), AllParts(C), Part(c, 1))) + (j - 1)
<1>1. PICK L, A : L = Lex(RC, C) /\ A = AllParts(C)
  OBVIOUS
<1>2. IsFiniteSet(A) /\ Orders(L, A)
  BY <1>1, LexOrders
<1>3. PICK n \in Nat : n = Len(c.cols)
  BY DEF Shaped
<1>4. j \in Nat /\ 1 <= j /\ j <= n /\ 1 \in 1..n
  BY <1>3
<1>5. PICK P, B, D : P = {Part(c, m) : m \in 1..(j - 1)} /\ B = Below(L, A, Part(c, 1)) /\ D = Below(L, A, Part(c, j))
  OBVIOUS
<1>6. \A m \in 1..n : Part(c, m) \in A /\ Part(c, m).key = c /\ Part(c, m).i = m
  BY <1>1, <1>3, PartsAre DEF Part
<1>7. \A p, q \in A : <<p, q>> \in L <=> <<p.key, q.key>> \in RC \/ (p.key = q.key /\ p.i < q.i)
  BY <1>1 DEF Lex
<1>8. \A p \in A : p.key = c => \E m \in 1..n : p = Part(c, m)
  <2> SUFFICES ASSUME NEW p \in A, p.key = c PROVE \E m \in 1..n : p = Part(c, m)
    OBVIOUS
  <2>1. PICK d \in C : \E m \in 1..Len(d.cols) : p = Part(d, m)
    BY <1>1, PartsAre
  <2>2. PICK m \in 1..Len(d.cols) : p = Part(d, m)
    BY <2>1
  <2>3. d = c
    BY <2>2 DEF Part
  <2> QED
    BY <1>3, <2>2, <2>3
<1>9. <<c, c>> \notin RC
  BY DEF Orders
<1>10. \A p \in A : p \in B <=> <<p.key, c>> \in RC
  <2>1. \A p \in A : p \in B <=> <<p.key, c>> \in RC \/ (p.key = c /\ p.i < 1)
    BY <1>4, <1>5, <1>6, <1>7 DEF Below
  <2>2. \A p \in A : p.key = c => ~(p.i < 1)
    BY <1>4, <1>6, <1>8
  <2> QED
    BY <2>1, <2>2
<1>11. \A p \in A : p \in D <=> <<p.key, c>> \in RC \/ (p.key = c /\ p.i < j)
  BY <1>3, <1>5, <1>6, <1>7 DEF Below
<1>12. \A p \in A : p.key = c /\ p.i < j <=> p \in P
  <2>1. ASSUME NEW p \in A, p.key = c, p.i < j PROVE p \in P
    <3>1. PICK m \in 1..n : p = Part(c, m)
      BY <1>8, <2>1
    <3>2. p.i = m /\ m \in 1..(j - 1)
      BY <1>4, <1>6, <2>1, <3>1
    <3> QED
      BY <1>5, <3>1, <3>2
  <2>2. ASSUME NEW p \in P PROVE p.key = c /\ p.i < j
    <3>1. PICK m \in 1..(j - 1) : p = Part(c, m)
      BY <1>5
    <3>2. m \in 1..n /\ m < j
      BY <1>4
    <3> QED
      BY <1>6, <3>1, <3>2
  <2> QED
    BY <2>1, <2>2
<1>13. P \subseteq A /\ D \subseteq A /\ B \subseteq A
  <2>1. 1..(j - 1) \subseteq 1..n
    BY <1>4
  <2> QED
    BY <1>5, <1>6, <2>1 DEF Below
<1>14. D = B \cup P /\ B \cap P = {}
  <2>1. \A p \in A : p \in D <=> p \in B \/ p \in P
    BY <1>10, <1>11, <1>12
  <2>2. \A p \in A : ~(p \in B /\ p \in P)
    BY <1>9, <1>10, <1>12
  <2> QED
    BY <1>13, <2>1, <2>2
<1>15. IsFiniteSet(P) /\ Cardinality(P) = j - 1
  <2>1. IsFiniteSet(1..(j - 1)) /\ Cardinality(1..(j - 1)) = j - 1
    <3>1. 1 \in Int /\ j - 1 \in Int
      BY <1>4
    <3>2. Cardinality(1..(j - 1)) = IF 1 > j - 1 THEN 0 ELSE (j - 1) - 1 + 1
      BY <3>1, FS_Interval
    <3> QED
      BY <1>4, <3>1, <3>2, FS_Interval
  <2>2. PICK g : g = [m \in 1..(j - 1) |-> Part(c, m)]
    OBVIOUS
  <2>3. g \in Bijection(1..(j - 1), P)
    <3>1. \A m \in 1..(j - 1) : m \in 1..n
      BY <1>4
    <3>2. \A m, k \in 1..(j - 1) : Part(c, m) = Part(c, k) => m = k
      BY <1>6, <3>1
    <3> QED
      BY <1>5, <2>2, <3>2 DEF Bijection, Injection, IsInjective, Surjection
  <2>4. ExistsBijection(1..(j - 1), P)
    BY <2>3 DEF ExistsBijection
  <2> QED
    BY <2>1, <2>4, FS_Bijection
<1>16. IsFiniteSet(B)
  BY <1>2, <1>13, FS_Subset
<1>17. Cardinality(D) = Cardinality(B) + Cardinality(P) - Cardinality(B \cap P)
  BY <1>14, <1>15, <1>16, FS_Union
<1>18. Cardinality(B) \in Nat /\ Cardinality(B \cap P) = 0
  BY <1>14, <1>16, FS_CardinalityType, FS_EmptySet
<1> QED
  BY <1>1, <1>4, <1>5, <1>15, <1>17, <1>18

\* A key has a first column.
LEMMA FirstPart ==
  ASSUME NEW C, \A c \in C : Shaped(c), NEW c \in C
  PROVE  Len(c.cols) \in Nat /\ 1 \in 1..Len(c.cols)
<1>1. PICK n : n = Len(c.cols)
  OBVIOUS
<1>2. n \in Nat /\ n >= 1
  BY <1>1 DEF Shaped
<1> QED
  BY <1>1, <1>2

\* Each key's rows are next to each other, in order, from its first one's place on.
Placed(rows, C, pos) ==
  /\ Sequence(rows)
  /\ \A c \in C : pos[c] \in Int /\ pos[c] >= 1
  /\ \A c \in C : \A j \in 1..Len(c.cols) :
       pos[c] + (j - 1) \in 1..Len(rows) /\ rows[pos[c] + (j - 1)] = Part(c, j)
  /\ \A p \in 1..Len(rows) : \E c \in C : \E j \in 1..Len(c.cols) : p = pos[c] + (j - 1)

\* In the list of all parts, a key's stand together from a first place on.
LEMMA Places ==
  ASSUME NEW C, NEW RC, IsFiniteSet(C), Orders(RC, C), \A c \in C : Shaped(c),
         NEW rows, ByRank(rows, Lex(RC, C), AllParts(C))
  PROVE  /\ \E pos : Placed(rows, C, pos)
         /\ Len(rows) = Cardinality(AllParts(C))
<1>1. PICK L, A : L = Lex(RC, C) /\ A = AllParts(C)
  OBVIOUS
<1>2. IsFiniteSet(A) /\ Orders(L, A)
  BY <1>1, LexOrders
<1>3. PICK n : n = Cardinality(A)
  OBVIOUS
<1>4. n \in Nat /\ rows = [i \in 1..n |-> rows[i]]
  BY <1>1, <1>2, <1>3, FS_CardinalityType DEF ByRank
<1>5. Len(rows) = n /\ Sequence(rows)
  <2>1. rows \in Seq({rows[i] : i \in 1..n}) /\ Len(rows) = n
    BY <1>4
  <2> QED
    BY <1>4, <2>1 DEF Sequence
<1>6. PICK pos : pos = [c \in C |-> Cardinality(Below(L, A, Part(c, 1))) + 1]
  OBVIOUS
<1>7. ASSUME NEW c \in C, NEW j \in 1..Len(c.cols)
      PROVE  pos[c] \in 1..n /\ pos[c] + (j - 1) \in 1..n /\ rows[pos[c] + (j - 1)] = Part(c, j)
  <2>1. PICK r : r = Cardinality(Below(L, A, Part(c, 1)))
    OBVIOUS
  <2>2. Cardinality(Below(L, A, Part(c, j))) = r + (j - 1)
    BY <1>1, <2>1, PartRank
  <2>3. 1 \in 1..Len(c.cols)
    BY FirstPart
  <2>4. Part(c, j) \in A /\ Part(c, 1) \in A
    BY <1>1, <2>3, PartsAre
  <2>5. r + 1 \in 1..n
    BY <1>1, <1>2, <1>3, <2>1, <2>4, AtRank
  <2>6. r + (j - 1) + 1 \in 1..n /\ rows[r + (j - 1) + 1] = Part(c, j)
    BY <1>1, <1>2, <1>3, <2>2, <2>4, AtRank
  <2>7. pos[c] = r + 1
    BY <1>6, <2>1
  <2>8. r \in Int /\ j \in Int
    BY <1>4, <2>1, <2>4, <1>2, RankNumber
  <2>9. r + (j - 1) + 1 = pos[c] + (j - 1)
    BY <2>7, <2>8
  <2> QED
    BY <2>5, <2>6, <2>7, <2>9
<1>8. ASSUME NEW c \in C PROVE pos[c] \in Int /\ pos[c] >= 1
  <2>1. 1 \in 1..Len(c.cols)
    BY FirstPart
  <2>2. pos[c] \in 1..n
    BY <1>7, <2>1
  <2> QED
    BY <1>4, <2>2
<1>9. ASSUME NEW p \in 1..n PROVE \E c \in C : \E j \in 1..Len(c.cols) : p = pos[c] + (j - 1)
  <2>1. rows[p] \in A /\ Cardinality(Below(L, A, rows[p])) = p - 1
    BY <1>1, <1>3 DEF ByRank
  <2>2. PICK c \in C : \E j \in 1..Len(c.cols) : rows[p] = Part(c, j)
    BY <1>1, <2>1, PartsAre
  <2>3. PICK j \in 1..Len(c.cols) : rows[p] = Part(c, j)
    BY <2>2
  <2>4. PICK r : r = Cardinality(Below(L, A, Part(c, 1)))
    OBVIOUS
  <2>5. p - 1 = r + (j - 1)
    BY <1>1, <2>1, <2>3, <2>4, PartRank
  <2>6. pos[c] = r + 1 /\ pos[c] \in Int
    BY <1>6, <1>8, <2>4
  <2>7. 1 \in 1..Len(c.cols) /\ j \in Int
    BY FirstPart
  <2>8. Part(c, 1) \in A
    BY <1>1, <2>7, PartsAre
  <2>10. r \in Int
    BY <1>2, <2>4, <2>8, RankNumber
  <2>9. p = pos[c] + (j - 1)
    BY <2>5, <2>6, <2>10
  <2> QED
    BY <2>9
<1>10. Placed(rows, C, pos)
  BY <1>5, <1>7, <1>8, <1>9 DEF Placed
<1> QED
  BY <1>1, <1>3, <1>5, <1>10

\* The rows a key starts at, and the row after its last one.
Heads(rows, ids) == {i \in 1..Len(rows) : i = 1 \/ ids[i] # ids[i - 1]}
Told(rows, ids) == \A i, k \in 1..Len(rows) : ids[i] = ids[k] <=> rows[i].key = rows[k].key

\* A list of parts is cut where a key's parts start, and nowhere else.
LEMMA HeadsAre ==
  ASSUME NEW C, \A c \in C : Shaped(c), NEW rows, NEW ids, NEW pos, Placed(rows, C, pos), Told(rows, ids)
  PROVE  /\ Heads(rows, ids) = {pos[c] : c \in C}
         /\ \A c, d \in C : pos[c] = pos[d] => c = d
         /\ \A c \in C : pos[c] + (Len(c.cols) - 1) \in 1..Len(rows)
         /\ \A c \in C : \A h \in Heads(rows, ids) : h > pos[c] => h >= pos[c] + Len(c.cols)
         /\ \A c \in C : pos[c] + Len(c.cols) <= Len(rows) => pos[c] + Len(c.cols) \in Heads(rows, ids)
<1>1. PICK n : n = Len(rows)
  OBVIOUS
<1>2. n \in Nat
  BY <1>1 DEF Placed, Sequence
<1>3. ASSUME NEW c \in C PROVE pos[c] \in Int /\ pos[c] >= 1 /\ Len(c.cols) \in Nat /\ 1 \in 1..Len(c.cols)
  BY FirstPart DEF Placed
<1>4. ASSUME NEW c \in C, NEW j \in 1..Len(c.cols)
      PROVE  /\ pos[c] + (j - 1) \in 1..n /\ rows[pos[c] + (j - 1)] = Part(c, j)
             /\ rows[pos[c] + (j - 1)].key = c /\ rows[pos[c] + (j - 1)].i = j
  <2>1. pos[c] + (j - 1) \in 1..n /\ rows[pos[c] + (j - 1)] = Part(c, j)
    BY <1>1 DEF Placed
  <2>2. Part(c, j).key = c /\ Part(c, j).i = j
    BY DEF Part
  <2> QED
    BY <2>1, <2>2
<1>5. ASSUME NEW c \in C PROVE pos[c] \in 1..n /\ rows[pos[c]].key = c /\ rows[pos[c]].i = 1
  <2>1. pos[c] + (1 - 1) = pos[c]
    BY <1>3
  <2> QED
    BY <1>3, <1>4, <2>1
<1>6. \A p \in 1..n : \E c \in C : \E j \in 1..Len(c.cols) : p = pos[c] + (j - 1)
  BY <1>1 DEF Placed
<1>7. ASSUME NEW c \in C, NEW p \in 1..n, rows[p].key = c
      PROVE  p >= pos[c] /\ p < pos[c] + Len(c.cols)
  <2>1. PICK d \in C : \E j \in 1..Len(d.cols) : p = pos[d] + (j - 1)
    BY <1>6
  <2>2. PICK j \in 1..Len(d.cols) : p = pos[d] + (j - 1)
    BY <2>1
  <2>3. d = c
    BY <1>4, <1>7, <2>2
  <2> QED
    BY <1>3, <2>2, <2>3
<1>8. ASSUME NEW c \in C PROVE pos[c] \in Heads(rows, ids)
  <2>1. CASE pos[c] = 1
    BY <1>1, <1>5, <2>1 DEF Heads
  <2>2. CASE pos[c] # 1
    <3>1. pos[c] - 1 \in 1..n
      BY <1>2, <1>5, <2>2
    <3>2. rows[pos[c] - 1].key # c
      BY <1>3, <1>7, <3>1
    <3>3. ids[pos[c]] # ids[pos[c] - 1]
      BY <1>1, <1>5, <3>1, <3>2 DEF Told
    <3> QED
      BY <1>1, <1>5, <3>3 DEF Heads
  <2> QED
    BY <2>1, <2>2
<1>9. ASSUME NEW c \in C, NEW h \in Heads(rows, ids), rows[h].key = c PROVE h = pos[c]
  <2>0. h \in 1..n
    BY <1>1 DEF Heads
  <2>1. PICK d \in C : \E j \in 1..Len(d.cols) : h = pos[d] + (j - 1)
    BY <1>6, <2>0
  <2>2. PICK j \in 1..Len(d.cols) : h = pos[d] + (j - 1)
    BY <2>1
  <2>3. d = c
    BY <1>4, <1>9, <2>2
  <2>4. CASE j = 1
    BY <1>3, <2>2, <2>3, <2>4
  <2>5. CASE j # 1
    <3>1. j - 1 \in 1..Len(c.cols)
      BY <1>3, <2>3, <2>5
    <3>2. pos[c] + ((j - 1) - 1) \in 1..n /\ rows[pos[c] + ((j - 1) - 1)].key = c
      BY <1>4, <3>1
    <3>3. pos[c] + ((j - 1) - 1) = h - 1
      BY <1>3, <2>2, <2>3
    <3>4. ids[h] = ids[h - 1]
      BY <1>1, <1>9, <2>0, <3>2, <3>3 DEF Told
    <3>5. h # 1
      BY <3>2, <3>3
    <3> QED
      BY <3>4, <3>5 DEF Heads
  <2> QED
    BY <2>4, <2>5
<1>10. ASSUME NEW h \in Heads(rows, ids) PROVE \E c \in C : h = pos[c] /\ rows[h].key = c
  <2>0. h \in 1..n
    BY <1>1 DEF Heads
  <2>1. PICK d \in C : \E j \in 1..Len(d.cols) : h = pos[d] + (j - 1)
    BY <1>6, <2>0
  <2>2. PICK j \in 1..Len(d.cols) : h = pos[d] + (j - 1)
    BY <2>1
  <2>3. rows[h].key = d
    BY <1>4, <2>2
  <2> QED
    BY <1>9, <2>3
<1>11. Heads(rows, ids) = {pos[c] : c \in C}
  BY <1>8, <1>10
<1>12. \A c, d \in C : pos[c] = pos[d] => c = d
  BY <1>5
<1>13. ASSUME NEW c \in C PROVE pos[c] + (Len(c.cols) - 1) \in 1..n
  <2>1. Len(c.cols) \in 1..Len(c.cols)
    BY <1>3
  <2> QED
    BY <1>4, <2>1
<1>14. ASSUME NEW c \in C, NEW h \in Heads(rows, ids), h > pos[c] PROVE h >= pos[c] + Len(c.cols)
  <2>0. h \in 1..n
    BY <1>1 DEF Heads
  <2>1. CASE h < pos[c] + Len(c.cols)
    <3>1. PICK j : j = h - pos[c] + 1
      OBVIOUS
    <3>2. j \in 1..Len(c.cols) /\ pos[c] + (j - 1) = h
      BY <1>3, <1>14, <2>0, <2>1, <3>1
    <3>3. rows[h].key = c
      BY <1>4, <3>2
    <3>4. h = pos[c]
      BY <1>9, <3>3
    <3> QED
      BY <1>3, <1>14, <2>0, <3>4
  <2> QED
    BY <1>3, <2>0, <2>1
<1>15. ASSUME NEW c \in C, pos[c] + Len(c.cols) <= n PROVE pos[c] + Len(c.cols) \in Heads(rows, ids)
  <2>1. PICK q : q = pos[c] + Len(c.cols)
    OBVIOUS
  <2>2. q \in 1..n /\ q - 1 \in 1..n
    BY <1>2, <1>3, <1>15, <2>1
  <2>3. rows[q].key # c
    BY <1>3, <1>7, <2>1, <2>2
  <2>4. rows[q - 1].key = c
    <3>1. Len(c.cols) \in 1..Len(c.cols) /\ pos[c] + (Len(c.cols) - 1) = q - 1
      BY <1>3, <2>1
    <3> QED
      BY <1>4, <3>1
  <2>5. ids[q] # ids[q - 1]
    BY <1>1, <2>2, <2>3, <2>4 DEF Told
  <2> QED
    BY <1>1, <2>1, <2>2, <2>5 DEF Heads
<1> QED
  BY <1>1, <1>11, <1>12, <1>13, <1>14, <1>15

\* The keys, one after another, each with its rows.
PartsOf(c) == [j \in 1..Len(c.cols) |-> Part(c, j)]
AllGroups(q, n) == [k \in 1..n |-> PartsOf(q[k])]

\* A stretch of a list.
LEMMA SubSeqPart ==
  ASSUME NEW rows, Sequence(rows), NEW a \in Int, NEW len \in Nat, len >= 1, a >= 1, a + (len - 1) <= Len(rows)
  PROVE  SubSeq(rows, a, a + (len - 1)) = [j \in 1..len |-> rows[a + (j - 1)]]
<1>1. PICK T : T = {rows[i] : i \in 1..Len(rows)}
  OBVIOUS
<1>2. rows \in Seq(T) /\ Len(rows) \in Nat
  BY <1>1 DEF Sequence
<1>3. a \in 1..Len(rows) /\ a + (len - 1) \in 1..Len(rows)
  BY <1>2
<1>4. PICK b : b = a + (len - 1)
  OBVIOUS
<1>5. PICK s : s = SubSeq(rows, a, b)
  OBVIOUS
<1>6. s \in Seq(T) /\ Len(s) = b - a + 1 /\ \A j \in 1..(b - a + 1) : s[j] = rows[a + j - 1]
  BY <1>2, <1>3, <1>4, <1>5, SubSeqProperties
<1>7. b - a + 1 = len
  BY <1>4
<1>8. s = [j \in 1..len |-> s[j]]
  BY <1>6, <1>7
<1>9. \A j \in 1..len : a + j - 1 = a + (j - 1)
  OBVIOUS
<1> QED
  BY <1>4, <1>5, <1>6, <1>7, <1>8, <1>9

\* The places where keys start, first to last, and the keys that start there.
LEMMA HeadsInOrder ==
  ASSUME NEW H, H \subseteq Nat, IsFiniteSet(H), NEW m, m = Cardinality(H)
  PROVE  \E hd \in [1..m -> H] :
           /\ \A k \in 1..m : hd[k] = CHOOSE h \in H : Cardinality({i \in H : i < h}) = k - 1
           /\ \A h \in H : \E k \in 1..m : hd[k] = h
           /\ \A k, l \in 1..m : k < l => hd[k] < hd[l]
<1>1. PICK R : R = {x \in H \X H : x[1] < x[2]}
  OBVIOUS
<1>2. \A x, y \in H : <<x, y>> \in R <=> x < y
  BY <1>1
<1>3. Orders(R, H)
  BY <1>2 DEF Orders
<1>4. \A h \in H : Below(R, H, h) = {i \in H : i < h}
  BY <1>2 DEF Below
<1> DEFINE head(k) == CHOOSE h \in H : Cardinality({i \in H : i < h}) = k - 1
<1>5. ASSUME NEW k \in 1..m PROVE head(k) \in H /\ Cardinality(Below(R, H, head(k))) = k - 1
  <2>1. PICK h \in H : Cardinality(Below(R, H, h)) = k - 1
    BY <1>3, Ranked
  <2>2. Cardinality({i \in H : i < h}) = k - 1
    BY <1>4, <2>1
  <2>3. head(k) \in H /\ Cardinality({i \in H : i < head(k)}) = k - 1
    BY <2>2
  <2> QED
    BY <1>4, <2>3
<1>6. PICK hd : hd = [k \in 1..m |-> head(k)]
  OBVIOUS
<1>7. \A k \in 1..m : hd[k] = CHOOSE h \in H : Cardinality({i \in H : i < h}) = k - 1
  BY <1>6
<1> HIDE DEF head
<1>8. hd \in [1..m -> H]
  BY <1>5, <1>6
<1>9. ByRank(hd, R, H)
  <2>1. hd = [k \in 1..Cardinality(H) |-> hd[k]]
    BY <1>6
  <2>2. \A k \in 1..Cardinality(H) : hd[k] \in H /\ Cardinality(Below(R, H, hd[k])) = k - 1
    BY <1>5, <1>6
  <2> QED
    BY <2>1, <2>2 DEF ByRank
<1>10. InOrder(hd, R, H)
  BY <1>3, <1>9, RankedInOrder DEF ByRank
<1>11. m \in Nat /\ Len(hd) = m
  BY <1>8, FS_CardinalityType
<1>12. \A h \in H : \E k \in 1..m : hd[k] = h
  BY <1>10, <1>11 DEF InOrder
<1>13. \A k, l \in 1..m : k < l => hd[k] < hd[l]
  BY <1>2, <1>8, <1>10, <1>11 DEF InOrder
<1> QED
  BY <1>7, <1>8, <1>12, <1>13

\* Cut so, the list falls into each key's parts, one key after another.
LEMMA GroupsAre ==
  ASSUME NEW C, IsFiniteSet(C), \A c \in C : Shaped(c), NEW rows, NEW ids, NEW pos,
         Placed(rows, C, pos), Told(rows, ids), ids = [i \in 1..Len(rows) |-> ids[i]]
  PROVE  \E q \in Bijection(1..Cardinality(C), C) : Grouped(rows, ids) = AllGroups(q, Cardinality(C))
<1>1. PICK n : n = Len(rows)
  OBVIOUS
<1>2. n \in Nat /\ DOMAIN rows = 1..n /\ Sequence(rows)
  BY <1>1 DEF Placed, Sequence
<1>3. <<>> \o ids = ids
  BY <1>1, <1>2, NothingBefore
<1>4. PICK H : H = {i \in DOMAIN rows : i = 1 \/ (<<>> \o ids)[i] # (<<>> \o ids)[i - 1]}
  OBVIOUS
<1>5. H = Heads(rows, ids)
  BY <1>1, <1>2, <1>3, <1>4 DEF Heads
<1>6. /\ H = {pos[c] : c \in C}
      /\ \A c, d \in C : pos[c] = pos[d] => c = d
      /\ \A c \in C : pos[c] + (Len(c.cols) - 1) \in 1..n
      /\ \A c \in C : \A h \in H : h > pos[c] => h >= pos[c] + Len(c.cols)
      /\ \A c \in C : pos[c] + Len(c.cols) <= n => pos[c] + Len(c.cols) \in H
  <2>1. /\ Heads(rows, ids) = {pos[c] : c \in C}
        /\ \A c, d \in C : pos[c] = pos[d] => c = d
        /\ \A c \in C : pos[c] + (Len(c.cols) - 1) \in 1..Len(rows)
        /\ \A c \in C : \A h \in Heads(rows, ids) : h > pos[c] => h >= pos[c] + Len(c.cols)
        /\ \A c \in C : pos[c] + Len(c.cols) <= Len(rows) => pos[c] + Len(c.cols) \in Heads(rows, ids)
    BY HeadsAre
  <2> QED
    BY <1>1, <1>5, <2>1
<1>7. PICK m : m = Cardinality(H)
  OBVIOUS
<1>8. IsFiniteSet(H) /\ m = Cardinality(C)
  <2>1. PICK g : g = [c \in C |-> pos[c]]
    OBVIOUS
  <2>2. g \in Bijection(C, H)
    <3>1. g \in [C -> H]
      BY <1>6, <2>1
    <3>2. \A c, d \in C : g[c] = g[d] => c = d
      BY <1>6, <2>1
    <3>4. \A h \in H : \E c \in C : g[c] = h
      BY <1>6, <2>1
    <3> QED
      BY <3>1, <3>2, <3>4 DEF Bijection, Injection, IsInjective, Surjection
  <2>3. ExistsBijection(C, H)
    BY <2>2 DEF ExistsBijection
  <2> QED
    BY <1>7, <2>3, FS_Bijection
<1>9. m \in Nat /\ H \subseteq Nat
  BY <1>2, <1>4, <1>7, <1>8, FS_CardinalityType
<1> DEFINE head(k) == CHOOSE h \in H : Cardinality({i \in H : i < h}) = k - 1
           last(k) == IF k = m THEN Len(rows) ELSE head(k + 1) - 1
<1>10. Grouped(rows, ids) = <<>> \o [k \in 1..m |-> SubSeq(rows, head(k), last(k))]
  BY <1>4, <1>7 DEF Grouped
<1>11. PICK hd \in [1..m -> H] :
         /\ \A k \in 1..m : hd[k] = head(k)
         /\ \A h \in H : \E k \in 1..m : hd[k] = h
         /\ \A k, l \in 1..m : k < l => hd[k] < hd[l]
  BY <1>7, <1>8, <1>9, HeadsInOrder
<1> HIDE DEF head
<1>12. PICK q : q = [k \in 1..m |-> CHOOSE c \in C : pos[c] = hd[k]]
  OBVIOUS
<1>13. ASSUME NEW k \in 1..m PROVE q[k] \in C /\ pos[q[k]] = hd[k]
  <2>1. \E c \in C : pos[c] = hd[k]
    BY <1>6, <1>11
  <2> QED
    BY <1>12, <2>1
<1>14. q \in Bijection(1..m, C)
  <2>1. q \in [1..m -> C]
    BY <1>12, <1>13
  <2>2. \A k, l \in 1..m : q[k] = q[l] => k = l
    <3>1. \A k, l \in 1..m : q[k] = q[l] => hd[k] = hd[l]
      BY <1>13
    <3>2. \A k \in 1..m : hd[k] \in Nat /\ k \in Nat
      BY <1>9, <1>11
    <3> QED
      BY <1>11, <3>1, <3>2
  <2>3. \A c \in C : \E k \in 1..m : q[k] = c
    <3> SUFFICES ASSUME NEW c \in C PROVE \E k \in 1..m : q[k] = c
      OBVIOUS
    <3>1. pos[c] \in H
      BY <1>6
    <3>2. PICK k \in 1..m : hd[k] = pos[c]
      BY <1>11, <3>1
    <3> QED
      BY <1>6, <1>13, <3>2
  <2> QED
    BY <2>1, <2>2, <2>3 DEF Bijection, Injection, IsInjective, Surjection
<1>15. ASSUME NEW k \in 1..m PROVE last(k) = pos[q[k]] + (Len(q[k].cols) - 1)
  <2>1. PICK c, p, len : c = q[k] /\ p = pos[c] /\ len = Len(c.cols)
    OBVIOUS
  <2>2. c \in C /\ p = hd[k] /\ p \in H /\ p \in Nat /\ len \in Nat /\ len >= 1 /\ p + (len - 1) \in 1..n
    BY <1>6, <1>9, <1>11, <1>13, <2>1 DEF Shaped
  <2>3. \A h \in H : h > p => h >= p + len
    BY <1>6, <2>1, <2>2
  <2>4. p + len <= n => p + len \in H
    BY <1>6, <2>1, <2>2
  <2>5. ASSUME NEW l \in 1..m, l <= k PROVE hd[l] <= p
    <3>1. l < k \/ l = k
      BY <1>9, <2>5
    <3>2. l < k => hd[l] < hd[k]
      BY <1>11
    <3>3. hd[l] \in Nat
      BY <1>9, <1>11
    <3> QED
      BY <2>2, <3>1, <3>2, <3>3
  <2>6. CASE k = m
    <3>1. \A h \in H : h <= p
      BY <1>9, <1>11, <2>5, <2>6
    <3>2. ~(p + len <= n)
      BY <2>2, <2>4, <3>1
    <3>3. last(k) = n
      BY <1>1, <2>6
    <3> QED
      BY <1>2, <2>1, <2>2, <3>2, <3>3
  <2>7. CASE k # m
    <3>1. k + 1 \in 1..m /\ k < k + 1
      BY <1>9, <2>7
    <3>2. PICK h : h = hd[k + 1]
      OBVIOUS
    <3>3. h \in H /\ h > p /\ h \in Nat /\ h \in 1..n
      BY <1>2, <1>4, <1>9, <1>11, <2>2, <3>1, <3>2
    <3>4. h >= p + len /\ p + len \in H
      BY <1>2, <2>2, <2>3, <2>4, <3>3
    <3>5. PICK l \in 1..m : hd[l] = p + len
      BY <1>11, <3>4
    <3>6. ~(l <= k)
      BY <2>2, <2>5, <3>5
    <3>7. l = k + 1 \/ k + 1 < l
      BY <1>9, <3>6
    <3>8. h <= p + len
      <4>1. k + 1 < l => hd[k + 1] < hd[l]
        BY <1>11, <3>1
      <4> QED
        BY <2>2, <3>2, <3>3, <3>5, <3>7, <4>1
    <3>9. h = p + len
      <4>1. p + len \in Nat /\ h \in Nat
        BY <2>2, <3>3
      <4> QED
        BY <3>4, <3>8, <4>1
    <3>10. last(k) = h - 1
      BY <1>11, <2>7, <3>1, <3>2
    <3> QED
      BY <2>1, <2>2, <3>9, <3>10
  <2> QED
    BY <2>6, <2>7
<1>16. ASSUME NEW k \in 1..m PROVE SubSeq(rows, head(k), last(k)) = PartsOf(q[k])
  <2>1. PICK c, p, len : c = q[k] /\ p = pos[c] /\ len = Len(c.cols)
    OBVIOUS
  <2>2. c \in C /\ p = hd[k] /\ p \in H /\ p \in Nat /\ len \in Nat /\ len >= 1 /\ p + (len - 1) \in 1..n
    BY <1>6, <1>9, <1>11, <1>13, <2>1 DEF Shaped
  <2>3. head(k) = p /\ last(k) = p + (len - 1)
    BY <1>11, <1>15, <2>1, <2>2
  <2>4. p >= 1 /\ p + (len - 1) <= Len(rows)
    BY <1>1, <1>2, <1>4, <2>2
  <2>7. Sequence(rows)
    BY <1>2 DEF Placed
  <2>5. SubSeq(rows, p, p + (len - 1)) = [j \in 1..len |-> rows[p + (j - 1)]]
    <3>1. p \in Int
      BY <2>2
    <3>2. len \in Nat /\ len >= 1
      BY <2>2
    <3> QED
      BY <2>4, <2>7, <3>1, <3>2, SubSeqPart, Z3
  <2>6. \A j \in 1..len : rows[p + (j - 1)] = Part(c, j)
    BY <2>1, <2>2 DEF Placed
  <2> QED
    BY <2>1, <2>3, <2>5, <2>6 DEF PartsOf
<1> HIDE DEF last
<1>17. PICK f : f = [k \in 1..m |-> SubSeq(rows, head(k), last(k))]
  OBVIOUS
<1>18. f = AllGroups(q, m)
  BY <1>16, <1>17 DEF AllGroups
<1>19. <<>> \o f = f
  <2>1. f = [k \in 1..m |-> f[k]]
    BY <1>17
  <2> QED
    BY <1>9, <2>1, NothingBefore
<1> QED
  BY <1>8, <1>10, <1>14, <1>17, <1>18, <1>19

\* Tuples are compared from the left.
LEMMA Before2 == ASSUME NEW a1 \in Int, NEW a2 \in Int, NEW b1 \in Int, NEW b2 \in Int
  PROVE Before(<<a1, a2>>, <<b1, b2>>) <=> a1 < b1 \/ (a1 = b1 /\ a2 < b2)
<1>1. DOMAIN <<a1, a2>> = {1, 2}
  OBVIOUS
<1>2. 1..(1 - 1) = {} /\ 1..(2 - 1) = {1}
  OBVIOUS
<1>3. PICK a, b : a = <<a1, a2>> /\ b = <<b1, b2>>
  OBVIOUS
<1>4. a[1] = a1 /\ a[2] = a2 /\ b[1] = b1 /\ b[2] = b2 /\ DOMAIN a = {1, 2}
  BY <1>1, <1>3
<1>5. Before(a, b) <=> \/ a[1] < b[1] /\ \A j \in 1..(1 - 1) : a[j] = b[j]
                       \/ a[2] < b[2] /\ \A j \in 1..(2 - 1) : a[j] = b[j]
  BY <1>4 DEF Before
<1> QED
  BY <1>2, <1>3, <1>4, <1>5

LEMMA AtWith ==
  ASSUME NEW at \in Int \X Int, NEW x, NEW y
  PROVE  at \o <<x, y>> = <<at[1], at[2], x, y>> /\ at \o <<y>> = <<at[1], at[2], y>>
<1>1. PICK a \in Int, b \in Int : at = <<a, b>>
  OBVIOUS
<1>2. at[1] = a /\ at[2] = b
  BY <1>1
<1> PICK T : T = {a, b, x, y}
  OBVIOUS
<1>3. <<a, b>> \o <<x, y>> = <<a, b, x, y>>
  <2>1. PICK s, t, u : s = <<a, b>> /\ t = <<x, y>> /\ u = <<a, b, x, y>>
    OBVIOUS
  <2>2. s \in Seq(T) /\ Len(s) = 2 /\ s[1] = a /\ s[2] = b
    BY <2>1
  <2>3. t \in Seq(T) /\ Len(t) = 2 /\ t[1] = x /\ t[2] = y
    BY <2>1
  <2>4. u = [i \in 1..4 |-> u[i]] /\ u[1] = a /\ u[2] = b /\ u[3] = x /\ u[4] = y
    BY <2>1
  <2>5. PICK g : g = s \o t
    OBVIOUS
  <2>6. g \in Seq(T) /\ Len(g) = 4 /\ \A i \in 1..4 : g[i] = IF i <= 2 THEN s[i] ELSE t[i - 2]
    <3>1. /\ g \in Seq(T) /\ Len(g) = Len(s) + Len(t)
          /\ \A i \in 1..Len(s) + Len(t) : g[i] = IF i <= Len(s) THEN s[i] ELSE t[i - Len(s)]
      <4>1. s \in Seq(T) /\ t \in Seq(T)
        BY <2>2, <2>3
      <4>2. /\ s \o t \in Seq(T) /\ Len(s \o t) = Len(s) + Len(t)
            /\ \A i \in 1..Len(s) + Len(t) : (s \o t)[i] = IF i <= Len(s) THEN s[i] ELSE t[i - Len(s)]
        BY <4>1, ConcatProperties
      <4> QED
        BY <2>5, <4>2
    <3>2. Len(s) + Len(t) = 4
      BY <2>2, <2>3
    <3> QED
      BY <2>2, <3>1, <3>2
  <2>7. g[1] = a /\ g[2] = b
    BY <2>2, <2>6
  <2>8. g[3] = x /\ g[4] = y
    BY <2>3, <2>6
  <2>9. \A i \in 1..4 : i = 1 \/ i = 2 \/ i = 3 \/ i = 4
    OBVIOUS
  <2>10. \A i \in 1..4 : g[i] = u[i]
    BY <2>4, <2>7, <2>8, <2>9
  <2>11. g = [i \in 1..4 |-> g[i]]
    BY <2>6
  <2> QED
    BY <2>1, <2>4, <2>5, <2>10, <2>11
<1>4. <<a, b>> \o <<y>> = <<a, b, y>>
  <2>1. PICK s, t, u : s = <<a, b>> /\ t = <<y>> /\ u = <<a, b, y>>
    OBVIOUS
  <2>2. s \in Seq(T) /\ Len(s) = 2 /\ s[1] = a /\ s[2] = b
    BY <2>1
  <2>3. t \in Seq(T) /\ Len(t) = 1 /\ t[1] = y
    BY <2>1
  <2>4. u = [i \in 1..3 |-> u[i]] /\ u[1] = a /\ u[2] = b /\ u[3] = y
    BY <2>1
  <2>5. PICK g : g = s \o t
    OBVIOUS
  <2>6. g \in Seq(T) /\ Len(g) = 3 /\ \A i \in 1..3 : g[i] = IF i <= 2 THEN s[i] ELSE t[i - 2]
    <3>1. /\ g \in Seq(T) /\ Len(g) = Len(s) + Len(t)
          /\ \A i \in 1..Len(s) + Len(t) : g[i] = IF i <= Len(s) THEN s[i] ELSE t[i - Len(s)]
      <4>1. s \in Seq(T) /\ t \in Seq(T)
        BY <2>2, <2>3
      <4>2. /\ s \o t \in Seq(T) /\ Len(s \o t) = Len(s) + Len(t)
            /\ \A i \in 1..Len(s) + Len(t) : (s \o t)[i] = IF i <= Len(s) THEN s[i] ELSE t[i - Len(s)]
        BY <4>1, ConcatProperties
      <4> QED
        BY <2>5, <4>2
    <3>2. Len(s) + Len(t) = 3
      BY <2>2, <2>3
    <3> QED
      BY <2>2, <3>1, <3>2
  <2>7. g[1] = a /\ g[2] = b
    BY <2>2, <2>6
  <2>8. g[3] = y
    BY <2>3, <2>6
  <2>9. \A i \in 1..3 : i = 1 \/ i = 2 \/ i = 3
    OBVIOUS
  <2>10. \A i \in 1..3 : g[i] = u[i]
    BY <2>4, <2>7, <2>8, <2>9
  <2>11. g = [i \in 1..3 |-> g[i]]
    BY <2>6
  <2> QED
    BY <2>1, <2>4, <2>5, <2>10, <2>11
<1> QED
  BY <1>1, <1>2, <1>3, <1>4

\* A table's name, and what tells its rows apart.
LEMMA BeforeAt4 ==
  ASSUME NEW a \in Int \X Int, NEW b \in Int \X Int, NEW x \in Int, NEW y \in Int, NEW u \in Int, NEW v \in Int
  PROVE  Before(a \o <<x, y>>, b \o <<u, v>>)
           <=> \/ a[1] < b[1] \/ (a[1] = b[1] /\ a[2] < b[2]) \/ (a[1] = b[1] /\ a[2] = b[2] /\ x < u)
               \/ (a[1] = b[1] /\ a[2] = b[2] /\ x = u /\ y < v)
<1>1. PICK p, q : p = a \o <<x, y>> /\ q = b \o <<u, v>>
  OBVIOUS
<1>2. p = <<a[1], a[2], x, y>> /\ q = <<b[1], b[2], u, v>>
  BY <1>1, AtWith
<1>3. /\ p[1] = a[1] /\ p[2] = a[2] /\ p[3] = x /\ p[4] = y /\ DOMAIN p = {1, 2, 3, 4}
      /\ q[1] = b[1] /\ q[2] = b[2] /\ q[3] = u /\ q[4] = v
  BY <1>2
<1>4. 1..(1 - 1) = {} /\ 1..(2 - 1) = {1} /\ 1..(3 - 1) = {1, 2} /\ 1..(4 - 1) = {1, 2, 3}
  OBVIOUS
<1>5. Before(p, q) <=> \/ p[1] < q[1] /\ \A j \in 1..(1 - 1) : p[j] = q[j]
                       \/ p[2] < q[2] /\ \A j \in 1..(2 - 1) : p[j] = q[j]
                       \/ p[3] < q[3] /\ \A j \in 1..(3 - 1) : p[j] = q[j]
                       \/ p[4] < q[4] /\ \A j \in 1..(4 - 1) : p[j] = q[j]
  BY <1>3 DEF Before
<1>6. Before(p, q) <=> \/ p[1] < q[1] \/ (p[1] = q[1] /\ p[2] < q[2]) \/ (p[1] = q[1] /\ p[2] = q[2] /\ p[3] < q[3])
                       \/ (p[1] = q[1] /\ p[2] = q[2] /\ p[3] = q[3] /\ p[4] < q[4])
  BY <1>4, <1>5
<1> QED
  BY <1>1, <1>3, <1>6, Zenon

LEMMA BeforeAt3 ==
  ASSUME NEW a \in Int \X Int, NEW b \in Int \X Int, NEW y \in Int, NEW v \in Int
  PROVE  Before(a \o <<y>>, b \o <<v>>)
           <=> \/ a[1] < b[1] \/ (a[1] = b[1] /\ a[2] < b[2]) \/ (a[1] = b[1] /\ a[2] = b[2] /\ y < v)
<1>1. PICK p, q : p = a \o <<y>> /\ q = b \o <<v>>
  OBVIOUS
<1>2. p = <<a[1], a[2], y>> /\ q = <<b[1], b[2], v>>
  BY <1>1, AtWith
<1>3. /\ p[1] = a[1] /\ p[2] = a[2] /\ p[3] = y /\ DOMAIN p = {1, 2, 3}
      /\ q[1] = b[1] /\ q[2] = b[2] /\ q[3] = v
  BY <1>2
<1>4. 1..(1 - 1) = {} /\ 1..(2 - 1) = {1} /\ 1..(3 - 1) = {1, 2}
  OBVIOUS
<1>5. Before(p, q) <=> \/ p[1] < q[1] /\ \A j \in 1..(1 - 1) : p[j] = q[j]
                       \/ p[2] < q[2] /\ \A j \in 1..(2 - 1) : p[j] = q[j]
                       \/ p[3] < q[3] /\ \A j \in 1..(3 - 1) : p[j] = q[j]
  BY <1>3 DEF Before
<1>6. Before(p, q) <=> p[1] < q[1] \/ (p[1] = q[1] /\ p[2] < q[2]) \/ (p[1] = q[1] /\ p[2] = q[2] /\ p[3] < q[3])
  BY <1>4, <1>5
<1> QED
  BY <1>1, <1>3, <1>6, Zenon

\* In an order, each member has one place and each place one member.
LEMMA RankBijection ==
  ASSUME NEW S, NEW R, NEW f, IsFiniteSet(S), Orders(R, S), ByRank(f, R, S)
  PROVE  f \in Bijection(1..Cardinality(S), S)
<1>1. PICK n : n = Cardinality(S)
  OBVIOUS
<1>2. n \in Nat
  BY <1>1, FS_CardinalityType
<1>3. f \in [1..n -> S]
  BY <1>1 DEF ByRank
<1>4. \A i, j \in 1..n : f[i] = f[j] => i = j
  <2>1. \A i \in 1..n : Cardinality(Below(R, S, f[i])) = i - 1
    BY <1>1 DEF ByRank
  <2>2. \A i, j \in 1..n : i - 1 = j - 1 => i = j
    BY <1>2
  <2> QED
    BY <2>1, <2>2
<1>5. ASSUME NEW x \in S PROVE \E i \in 1..n : f[i] = x
  BY <1>1, AtRank
<1> QED
  BY <1>1, <1>3, <1>4, <1>5 DEF Bijection, Injection, IsInjective, Surjection

LEMMA Typed ==
  ASSUME NEW c \in Constraint
  PROVE  /\ c.no \in Int /\ c.name \in Int /\ c.at \in Int \X Int /\ c.target \in Int \X Int
         /\ c.at[1] \in Int /\ c.at[2] \in Int /\ c.cols \in Seq(Int) /\ c.refs \in Seq(Int)
         /\ c.at = <<c.at[1], c.at[2]>> /\ c.target = <<c.target[1], c.target[2]>>
BY DEF Constraint

\* PostgreSQL: by table, name and number.
PgKeys(S) == LET key(c) == c.at \o <<c.name, c.no>> IN OrderedBy(S, key)
LEMMA PgKeysAre ==
  ASSUME NEW S, IsFiniteSet(S), S \subseteq Constraint, \A c, d \in S : c.no = d.no => c = d
  PROVE  PgKeys(S) \in Bijection(1..Cardinality(S), S)
<1>1. PICK n : n = Cardinality(S)
  OBVIOUS
<1>2. PICK R : R = {x \in S \X S : \/ x[1].at[1] < x[2].at[1]
                                   \/ (x[1].at[1] = x[2].at[1] /\ x[1].at[2] < x[2].at[2])
                                   \/ (x[1].at[1] = x[2].at[1] /\ x[1].at[2] = x[2].at[2] /\ x[1].name < x[2].name)
                                   \/ (x[1].at[1] = x[2].at[1] /\ x[1].at[2] = x[2].at[2] /\ x[1].name = x[2].name /\ x[1].no < x[2].no)}
  OBVIOUS
<1>3. \A c, d \in S : <<c, d>> \in R <=> \/ c.at[1] < d.at[1]
                                         \/ (c.at[1] = d.at[1] /\ c.at[2] < d.at[2])
                                         \/ (c.at[1] = d.at[1] /\ c.at[2] = d.at[2] /\ c.name < d.name)
                                         \/ (c.at[1] = d.at[1] /\ c.at[2] = d.at[2] /\ c.name = d.name /\ c.no < d.no)
  BY <1>2
<1>4. \A c \in S : c.at[1] \in Int /\ c.at[2] \in Int /\ c.name \in Int /\ c.no \in Int /\ c.at \in Int \X Int
  BY Typed
<1>5. Orders(R, S)
  <2>1. \A c \in S : <<c, c>> \notin R
    BY <1>3, <1>4
  <2>2. ASSUME NEW c \in S, NEW d \in S, c # d PROVE <<c, d>> \in R \/ <<d, c>> \in R
    <3>1. c.no # d.no
      BY <2>2
    <3> QED
      BY <1>3, <1>4, <3>1
  <2>3. ASSUME NEW c \in S, NEW d \in S, NEW e \in S, <<c, d>> \in R, <<d, e>> \in R PROVE <<c, e>> \in R
    <3>1. PICK c1, c2, c3, c4 : c1 = c.at[1] /\ c2 = c.at[2] /\ c3 = c.name /\ c4 = c.no
      OBVIOUS
    <3>2. PICK d1, d2, d3, d4 : d1 = d.at[1] /\ d2 = d.at[2] /\ d3 = d.name /\ d4 = d.no
      OBVIOUS
    <3>3. PICK e1, e2, e3, e4 : e1 = e.at[1] /\ e2 = e.at[2] /\ e3 = e.name /\ e4 = e.no
      OBVIOUS
    <3>4. c1 \in Int /\ c2 \in Int /\ c3 \in Int /\ c4 \in Int
      BY <1>4, <3>1
    <3>5. d1 \in Int /\ d2 \in Int /\ d3 \in Int /\ d4 \in Int
      BY <1>4, <3>2
    <3>6. e1 \in Int /\ e2 \in Int /\ e3 \in Int /\ e4 \in Int
      BY <1>4, <3>3
    <3>7. (c1 < d1) \/ (c1 = d1 /\ c2 < d2) \/ (c1 = d1 /\ c2 = d2 /\ c3 < d3) \/ (c1 = d1 /\ c2 = d2 /\ c3 = d3 /\ c4 < d4)
      BY <1>3, <2>3, <3>1, <3>2
    <3>8. (d1 < e1) \/ (d1 = e1 /\ d2 < e2) \/ (d1 = e1 /\ d2 = e2 /\ d3 < e3) \/ (d1 = e1 /\ d2 = e2 /\ d3 = e3 /\ d4 < e4)
      BY <1>3, <2>3, <3>2, <3>3
    <3>9. (c1 < e1) \/ (c1 = e1 /\ c2 < e2) \/ (c1 = e1 /\ c2 = e2 /\ c3 < e3) \/ (c1 = e1 /\ c2 = e2 /\ c3 = e3 /\ c4 < e4)
      BY <3>4, <3>5, <3>6, <3>7, <3>8
    <3> QED
      BY <1>3, <3>1, <3>3, <3>9
  <2> QED
    BY <2>1, <2>2, <2>3 DEF Orders
<1>6. ASSUME NEW c \in S, NEW d \in S
      PROVE  Before(c.at \o <<c.name, c.no>>, d.at \o <<d.name, d.no>>) <=> <<c, d>> \in R
  <2>1. /\ c.at \in Int \X Int /\ d.at \in Int \X Int /\ c.name \in Int /\ d.name \in Int
        /\ c.no \in Int /\ d.no \in Int
    BY <1>4
  <2>2. Before(c.at \o <<c.name, c.no>>, d.at \o <<d.name, d.no>>) <=> \/ c.at[1] < d.at[1]
                                                                       \/ (c.at[1] = d.at[1] /\ c.at[2] < d.at[2])
                                                                       \/ (c.at[1] = d.at[1] /\ c.at[2] = d.at[2] /\ c.name < d.name)
                                                                       \/ (c.at[1] = d.at[1] /\ c.at[2] = d.at[2] /\ c.name = d.name /\ c.no < d.no)
    BY <2>1, BeforeAt4
  <2> QED
    BY <1>3, <2>2, Zenon
<1>7. ASSUME NEW d \in S PROVE {c \in S : Before(c.at \o <<c.name, c.no>>, d.at \o <<d.name, d.no>>)} = Below(R, S, d)
  BY <1>6 DEF Below
<1> DEFINE at(i) == CHOOSE d \in S : Cardinality({c \in S : Before(c.at \o <<c.name, c.no>>, d.at \o <<d.name, d.no>>)}) = i - 1
<1>8. ASSUME NEW i \in 1..n PROVE at(i) \in S /\ Cardinality(Below(R, S, at(i))) = i - 1
  <2>1. PICK d \in S : Cardinality(Below(R, S, d)) = i - 1
    BY <1>1, <1>5, Ranked
  <2>2. Cardinality({c \in S : Before(c.at \o <<c.name, c.no>>, d.at \o <<d.name, d.no>>)}) = i - 1
    BY <1>7, <2>1
  <2>3. at(i) \in S /\ Cardinality({c \in S : Before(c.at \o <<c.name, c.no>>, at(i).at \o <<at(i).name, at(i).no>>)}) = i - 1
    BY <2>2
  <2> QED
    BY <1>7, <2>3
<1>9. PICK f : f = [i \in 1..n |-> at(i)]
  OBVIOUS
<1>10. PgKeys(S) = <<>> \o f
  BY <1>1, <1>9 DEF PgKeys, OrderedBy
<1> HIDE DEF at
<1>11. n \in Nat
  BY <1>1, FS_CardinalityType
<1>12. <<>> \o f = f
  <2>1. f = [i \in 1..n |-> f[i]]
    BY <1>9
  <2> QED
    BY <1>11, <2>1, NothingBefore
<1>13. ByRank(f, R, S)
  <2>1. f = [i \in 1..Cardinality(S) |-> f[i]]
    BY <1>1, <1>9
  <2>2. \A i \in 1..Cardinality(S) : f[i] \in S /\ Cardinality(Below(R, S, f[i])) = i - 1
    BY <1>1, <1>8, <1>9
  <2> QED
    BY <2>1, <2>2 DEF ByRank
<1> QED
  BY <1>5, <1>10, <1>12, <1>13, RankBijection

\* DuckDB: by table and number.
DuckKeys(S) == LET key(c) == c.at \o <<c.no>> IN OrderedBy(S, key)
LEMMA DuckKeysAre ==
  ASSUME NEW S, IsFiniteSet(S), S \subseteq Constraint, \A c, d \in S : c.no = d.no => c = d
  PROVE  DuckKeys(S) \in Bijection(1..Cardinality(S), S)
<1>1. PICK n : n = Cardinality(S)
  OBVIOUS
<1>2. PICK R : R = {x \in S \X S : \/ x[1].at[1] < x[2].at[1]
                                   \/ (x[1].at[1] = x[2].at[1] /\ x[1].at[2] < x[2].at[2])
                                   \/ (x[1].at[1] = x[2].at[1] /\ x[1].at[2] = x[2].at[2] /\ x[1].no < x[2].no)}
  OBVIOUS
<1>3. \A c, d \in S : <<c, d>> \in R <=> \/ c.at[1] < d.at[1]
                                         \/ (c.at[1] = d.at[1] /\ c.at[2] < d.at[2])
                                         \/ (c.at[1] = d.at[1] /\ c.at[2] = d.at[2] /\ c.no < d.no)
  BY <1>2
<1>4. \A c \in S : c.at[1] \in Int /\ c.at[2] \in Int /\ c.name \in Int /\ c.no \in Int /\ c.at \in Int \X Int
  BY Typed
<1>5. Orders(R, S)
  <2>1. \A c \in S : <<c, c>> \notin R
    BY <1>3, <1>4
  <2>2. ASSUME NEW c \in S, NEW d \in S, c # d PROVE <<c, d>> \in R \/ <<d, c>> \in R
    <3>1. c.no # d.no
      BY <2>2
    <3> QED
      BY <1>3, <1>4, <3>1
  <2>3. ASSUME NEW c \in S, NEW d \in S, NEW e \in S, <<c, d>> \in R, <<d, e>> \in R PROVE <<c, e>> \in R
    <3>1. PICK c1, c2, c3, c4 : c1 = c.at[1] /\ c2 = c.at[2] /\ c3 = c.name /\ c4 = c.no
      OBVIOUS
    <3>2. PICK d1, d2, d3, d4 : d1 = d.at[1] /\ d2 = d.at[2] /\ d3 = d.name /\ d4 = d.no
      OBVIOUS
    <3>3. PICK e1, e2, e3, e4 : e1 = e.at[1] /\ e2 = e.at[2] /\ e3 = e.name /\ e4 = e.no
      OBVIOUS
    <3>4. c1 \in Int /\ c2 \in Int /\ c3 \in Int /\ c4 \in Int
      BY <1>4, <3>1
    <3>5. d1 \in Int /\ d2 \in Int /\ d3 \in Int /\ d4 \in Int
      BY <1>4, <3>2
    <3>6. e1 \in Int /\ e2 \in Int /\ e3 \in Int /\ e4 \in Int
      BY <1>4, <3>3
    <3>7. (c1 < d1) \/ (c1 = d1 /\ c2 < d2) \/ (c1 = d1 /\ c2 = d2 /\ c4 < d4)
      BY <1>3, <2>3, <3>1, <3>2
    <3>8. (d1 < e1) \/ (d1 = e1 /\ d2 < e2) \/ (d1 = e1 /\ d2 = e2 /\ d4 < e4)
      BY <1>3, <2>3, <3>2, <3>3
    <3>9. (c1 < e1) \/ (c1 = e1 /\ c2 < e2) \/ (c1 = e1 /\ c2 = e2 /\ c4 < e4)
      BY <3>4, <3>5, <3>6, <3>7, <3>8
    <3> QED
      BY <1>3, <3>1, <3>3, <3>9
  <2> QED
    BY <2>1, <2>2, <2>3 DEF Orders
<1>6. ASSUME NEW c \in S, NEW d \in S
      PROVE  Before(c.at \o <<c.no>>, d.at \o <<d.no>>) <=> <<c, d>> \in R
  <2>1. /\ c.at \in Int \X Int /\ d.at \in Int \X Int /\ c.name \in Int /\ d.name \in Int
        /\ c.no \in Int /\ d.no \in Int
    BY <1>4
  <2>2. Before(c.at \o <<c.no>>, d.at \o <<d.no>>) <=> \/ c.at[1] < d.at[1]
                                                       \/ (c.at[1] = d.at[1] /\ c.at[2] < d.at[2])
                                                       \/ (c.at[1] = d.at[1] /\ c.at[2] = d.at[2] /\ c.no < d.no)
    BY <2>1, BeforeAt3
  <2> QED
    BY <1>3, <2>2, Zenon
<1>7. ASSUME NEW d \in S PROVE {c \in S : Before(c.at \o <<c.no>>, d.at \o <<d.no>>)} = Below(R, S, d)
  BY <1>6 DEF Below
<1> DEFINE at(i) == CHOOSE d \in S : Cardinality({c \in S : Before(c.at \o <<c.no>>, d.at \o <<d.no>>)}) = i - 1
<1>8. ASSUME NEW i \in 1..n PROVE at(i) \in S /\ Cardinality(Below(R, S, at(i))) = i - 1
  <2>1. PICK d \in S : Cardinality(Below(R, S, d)) = i - 1
    BY <1>1, <1>5, Ranked
  <2>2. Cardinality({c \in S : Before(c.at \o <<c.no>>, d.at \o <<d.no>>)}) = i - 1
    BY <1>7, <2>1
  <2>3. at(i) \in S /\ Cardinality({c \in S : Before(c.at \o <<c.no>>, at(i).at \o <<at(i).no>>)}) = i - 1
    BY <2>2
  <2> QED
    BY <1>7, <2>3
<1>9. PICK f : f = [i \in 1..n |-> at(i)]
  OBVIOUS
<1>10. DuckKeys(S) = <<>> \o f
  BY <1>1, <1>9 DEF DuckKeys, OrderedBy
<1> HIDE DEF at
<1>11. n \in Nat
  BY <1>1, FS_CardinalityType
<1>12. <<>> \o f = f
  <2>1. f = [i \in 1..n |-> f[i]]
    BY <1>9
  <2> QED
    BY <1>11, <2>1, NothingBefore
<1>13. ByRank(f, R, S)
  <2>1. f = [i \in 1..Cardinality(S) |-> f[i]]
    BY <1>1, <1>9
  <2>2. \A i \in 1..Cardinality(S) : f[i] \in S /\ Cardinality(Below(R, S, f[i])) = i - 1
    BY <1>1, <1>8, <1>9
  <2> QED
    BY <2>1, <2>2 DEF ByRank
<1> QED
  BY <1>5, <1>10, <1>12, <1>13, RankBijection

LEMMA TypedShape ==
  ASSUME NEW c \in Constraint, c.cols # <<>>
  PROVE  Shaped(c)
<1>1. PICK s \in Seq(Int) : s = c.cols
  BY DEF Constraint
<1>2. Len(s) \in Nat /\ s = [i \in 1..Len(s) |-> s[i]]
  OBVIOUS
<1>3. Len(s) # 0
  BY <1>1
<1> QED
  BY <1>1, <1>2, <1>3 DEF Shaped

\* MySQL and Oracle: a row for each column of a key, by table, name and place.
NamedParts(C) == LET key(p) == p.key.at \o <<p.key.name, p.i>> IN OrderedBy(AllParts(C), key)
LEMMA NamedPartsAre ==
  ASSUME NEW C, IsFiniteSet(C), C \subseteq Constraint, \A c \in C : c.cols # <<>>,
         \A c, d \in C : c.at = d.at /\ c.name = d.name => c = d
  PROVE  \E RC : Orders(RC, C) /\ ByRank(NamedParts(C), Lex(RC, C), AllParts(C))
<1>1. \A c \in C : Shaped(c)
  BY TypedShape
<1>2. PICK RC : RC = {x \in C \X C : \/ x[1].at[1] < x[2].at[1]
                                     \/ (x[1].at[1] = x[2].at[1] /\ x[1].at[2] < x[2].at[2])
                                     \/ (x[1].at[1] = x[2].at[1] /\ x[1].at[2] = x[2].at[2] /\ x[1].name < x[2].name)}
  OBVIOUS
<1>3. \A c, d \in C : <<c, d>> \in RC <=> \/ c.at[1] < d.at[1]
                                          \/ (c.at[1] = d.at[1] /\ c.at[2] < d.at[2])
                                          \/ (c.at[1] = d.at[1] /\ c.at[2] = d.at[2] /\ c.name < d.name)
  BY <1>2
<1>4. \A c \in C : c.at[1] \in Int /\ c.at[2] \in Int /\ c.name \in Int /\ c.at \in Int \X Int /\ c.at = <<c.at[1], c.at[2]>>
  BY Typed
<1>5. Orders(RC, C)
  <2>1. \A c \in C : <<c, c>> \notin RC
    BY <1>3, <1>4
  <2>2. ASSUME NEW c \in C, NEW d \in C, c # d PROVE <<c, d>> \in RC \/ <<d, c>> \in RC
    <3>1. c.at # d.at \/ c.name # d.name
      BY <2>2
    <3>2. c.at[1] # d.at[1] \/ c.at[2] # d.at[2] \/ c.name # d.name
      BY <1>4, <3>1
    <3> QED
      BY <1>3, <1>4, <3>2
  <2>3. ASSUME NEW c \in C, NEW d \in C, NEW e \in C, <<c, d>> \in RC, <<d, e>> \in RC PROVE <<c, e>> \in RC
    <3>1. PICK c1, c2, c3 : c1 = c.at[1] /\ c2 = c.at[2] /\ c3 = c.name
      OBVIOUS
    <3>2. PICK d1, d2, d3 : d1 = d.at[1] /\ d2 = d.at[2] /\ d3 = d.name
      OBVIOUS
    <3>3. PICK e1, e2, e3 : e1 = e.at[1] /\ e2 = e.at[2] /\ e3 = e.name
      OBVIOUS
    <3>4. c1 \in Int /\ c2 \in Int /\ c3 \in Int
      BY <1>4, <3>1
    <3>5. d1 \in Int /\ d2 \in Int /\ d3 \in Int
      BY <1>4, <3>2
    <3>6. e1 \in Int /\ e2 \in Int /\ e3 \in Int
      BY <1>4, <3>3
    <3>7. c1 < d1 \/ (c1 = d1 /\ c2 < d2) \/ (c1 = d1 /\ c2 = d2 /\ c3 < d3)
      BY <1>3, <2>3, <3>1, <3>2
    <3>8. d1 < e1 \/ (d1 = e1 /\ d2 < e2) \/ (d1 = e1 /\ d2 = e2 /\ d3 < e3)
      BY <1>3, <2>3, <3>2, <3>3
    <3>9. c1 < e1 \/ (c1 = e1 /\ c2 < e2) \/ (c1 = e1 /\ c2 = e2 /\ c3 < e3)
      BY <3>4, <3>5, <3>6, <3>7, <3>8
    <3> QED
      BY <1>3, <3>1, <3>3, <3>9
  <2> QED
    BY <2>1, <2>2, <2>3 DEF Orders
<1>6. PICK A, L : A = AllParts(C) /\ L = Lex(RC, C)
  OBVIOUS
<1>7. IsFiniteSet(A) /\ Orders(L, A)
  BY <1>1, <1>5, <1>6, LexOrders
<1>8. \A p \in A : p.key \in C /\ p.i \in Int
  <2> SUFFICES ASSUME NEW p \in A PROVE p.key \in C /\ p.i \in Int
    OBVIOUS
  <2>1. PICK c \in C : \E i \in 1..Len(c.cols) : p = Part(c, i)
    BY <1>1, <1>6, PartsAre
  <2>2. PICK i \in 1..Len(c.cols) : p = Part(c, i)
    BY <2>1
  <2>3. p.key = c /\ p.i = i
    BY <2>2 DEF Part
  <2>4. i \in Int
    BY <1>1, FirstPart
  <2> QED
    BY <2>3, <2>4
<1>9. ASSUME NEW p \in A, NEW r \in A
      PROVE  Before(p.key.at \o <<p.key.name, p.i>>, r.key.at \o <<r.key.name, r.i>>) <=> <<p, r>> \in L
  <2>1. PICK c, d, i, j : c = p.key /\ d = r.key /\ i = p.i /\ j = r.i
    OBVIOUS
  <2>2. c \in C /\ d \in C /\ i \in Int /\ j \in Int
    BY <1>8, <2>1
  <2>3. c.at \in Int \X Int /\ d.at \in Int \X Int /\ c.name \in Int /\ d.name \in Int
    BY <1>4, <2>2
  <2>4. Before(c.at \o <<c.name, i>>, d.at \o <<d.name, j>>)
          <=> (\/ c.at[1] < d.at[1]
               \/ (c.at[1] = d.at[1] /\ c.at[2] < d.at[2])
               \/ (c.at[1] = d.at[1] /\ c.at[2] = d.at[2] /\ c.name < d.name)) \/ (c.at[1] = d.at[1] /\ c.at[2] = d.at[2] /\ c.name = d.name /\ i < j)
    BY <2>2, <2>3, BeforeAt4
  <2>5. c.at[1] = d.at[1] /\ c.at[2] = d.at[2] /\ c.name = d.name <=> c = d
    BY <1>4, <2>2
  <2>6. <<p, r>> \in L <=> <<c, d>> \in RC \/ (c = d /\ i < j)
    BY <1>6, <2>1 DEF Lex
  <2>7. <<c, d>> \in RC <=> (\/ c.at[1] < d.at[1]
                             \/ (c.at[1] = d.at[1] /\ c.at[2] < d.at[2])
                             \/ (c.at[1] = d.at[1] /\ c.at[2] = d.at[2] /\ c.name < d.name))
    BY <1>3, <2>2
  <2>8. Before(c.at \o <<c.name, i>>, d.at \o <<d.name, j>>) <=> <<p, r>> \in L
    BY <2>4, <2>5, <2>6, <2>7, Zenon
  <2> QED
    BY <2>1, <2>8, Zenon
<1>10. ASSUME NEW r \in A PROVE {p \in A : Before(p.key.at \o <<p.key.name, p.i>>, r.key.at \o <<r.key.name, r.i>>)} = Below(L, A, r)
  BY <1>9 DEF Below
<1>11. PICK n : n = Cardinality(A)
  OBVIOUS
<1> DEFINE at(i) == CHOOSE r \in A : Cardinality({p \in A : Before(p.key.at \o <<p.key.name, p.i>>, r.key.at \o <<r.key.name, r.i>>)}) = i - 1
<1>12. ASSUME NEW i \in 1..n PROVE at(i) \in A /\ Cardinality(Below(L, A, at(i))) = i - 1
  <2>1. PICK r \in A : Cardinality(Below(L, A, r)) = i - 1
    BY <1>7, <1>11, Ranked
  <2>2. Cardinality({p \in A : Before(p.key.at \o <<p.key.name, p.i>>, r.key.at \o <<r.key.name, r.i>>)}) = i - 1
    BY <1>10, <2>1
  <2>3. at(i) \in A /\ Cardinality({p \in A : Before(p.key.at \o <<p.key.name, p.i>>, at(i).key.at \o <<at(i).key.name, at(i).i>>)}) = i - 1
    BY <2>2
  <2> QED
    BY <1>10, <2>3
<1>13. PICK f : f = [i \in 1..n |-> at(i)]
  OBVIOUS
<1>14. NamedParts(C) = <<>> \o f
  BY <1>6, <1>11, <1>13 DEF NamedParts, OrderedBy
<1> HIDE DEF at
<1>15. n \in Nat
  BY <1>7, <1>11, FS_CardinalityType
<1>16. <<>> \o f = f
  <2>1. f = [i \in 1..n |-> f[i]]
    BY <1>13
  <2> QED
    BY <1>15, <2>1, NothingBefore
<1>17. ByRank(f, L, A)
  <2>1. f = [i \in 1..Cardinality(A) |-> f[i]]
    BY <1>11, <1>13
  <2>2. \A i \in 1..Cardinality(A) : f[i] \in A /\ Cardinality(Below(L, A, f[i])) = i - 1
    BY <1>11, <1>12, <1>13
  <2> QED
    BY <2>1, <2>2 DEF ByRank
<1> QED
  BY <1>5, <1>6, <1>14, <1>16, <1>17

\* SQL Server: by table, number and place.
NumberedParts(C) == LET key(p) == p.key.at \o <<p.key.no, p.i>> IN OrderedBy(AllParts(C), key)
LEMMA NumberedPartsAre ==
  ASSUME NEW C, IsFiniteSet(C), C \subseteq Constraint, \A c \in C : c.cols # <<>>,
         \A c, d \in C : c.at = d.at /\ c.no = d.no => c = d
  PROVE  \E RC : Orders(RC, C) /\ ByRank(NumberedParts(C), Lex(RC, C), AllParts(C))
<1>1. \A c \in C : Shaped(c)
  BY TypedShape
<1>2. PICK RC : RC = {x \in C \X C : \/ x[1].at[1] < x[2].at[1]
                                     \/ (x[1].at[1] = x[2].at[1] /\ x[1].at[2] < x[2].at[2])
                                     \/ (x[1].at[1] = x[2].at[1] /\ x[1].at[2] = x[2].at[2] /\ x[1].no < x[2].no)}
  OBVIOUS
<1>3. \A c, d \in C : <<c, d>> \in RC <=> \/ c.at[1] < d.at[1]
                                          \/ (c.at[1] = d.at[1] /\ c.at[2] < d.at[2])
                                          \/ (c.at[1] = d.at[1] /\ c.at[2] = d.at[2] /\ c.no < d.no)
  BY <1>2
<1>4. \A c \in C : c.at[1] \in Int /\ c.at[2] \in Int /\ c.no \in Int /\ c.at \in Int \X Int /\ c.at = <<c.at[1], c.at[2]>>
  BY Typed
<1>5. Orders(RC, C)
  <2>1. \A c \in C : <<c, c>> \notin RC
    BY <1>3, <1>4
  <2>2. ASSUME NEW c \in C, NEW d \in C, c # d PROVE <<c, d>> \in RC \/ <<d, c>> \in RC
    <3>1. c.at # d.at \/ c.no # d.no
      BY <2>2
    <3>2. c.at[1] # d.at[1] \/ c.at[2] # d.at[2] \/ c.no # d.no
      BY <1>4, <3>1
    <3> QED
      BY <1>3, <1>4, <3>2
  <2>3. ASSUME NEW c \in C, NEW d \in C, NEW e \in C, <<c, d>> \in RC, <<d, e>> \in RC PROVE <<c, e>> \in RC
    <3>1. PICK c1, c2, c3 : c1 = c.at[1] /\ c2 = c.at[2] /\ c3 = c.no
      OBVIOUS
    <3>2. PICK d1, d2, d3 : d1 = d.at[1] /\ d2 = d.at[2] /\ d3 = d.no
      OBVIOUS
    <3>3. PICK e1, e2, e3 : e1 = e.at[1] /\ e2 = e.at[2] /\ e3 = e.no
      OBVIOUS
    <3>4. c1 \in Int /\ c2 \in Int /\ c3 \in Int
      BY <1>4, <3>1
    <3>5. d1 \in Int /\ d2 \in Int /\ d3 \in Int
      BY <1>4, <3>2
    <3>6. e1 \in Int /\ e2 \in Int /\ e3 \in Int
      BY <1>4, <3>3
    <3>7. c1 < d1 \/ (c1 = d1 /\ c2 < d2) \/ (c1 = d1 /\ c2 = d2 /\ c3 < d3)
      BY <1>3, <2>3, <3>1, <3>2
    <3>8. d1 < e1 \/ (d1 = e1 /\ d2 < e2) \/ (d1 = e1 /\ d2 = e2 /\ d3 < e3)
      BY <1>3, <2>3, <3>2, <3>3
    <3>9. c1 < e1 \/ (c1 = e1 /\ c2 < e2) \/ (c1 = e1 /\ c2 = e2 /\ c3 < e3)
      BY <3>4, <3>5, <3>6, <3>7, <3>8
    <3> QED
      BY <1>3, <3>1, <3>3, <3>9
  <2> QED
    BY <2>1, <2>2, <2>3 DEF Orders
<1>6. PICK A, L : A = AllParts(C) /\ L = Lex(RC, C)
  OBVIOUS
<1>7. IsFiniteSet(A) /\ Orders(L, A)
  BY <1>1, <1>5, <1>6, LexOrders
<1>8. \A p \in A : p.key \in C /\ p.i \in Int
  <2> SUFFICES ASSUME NEW p \in A PROVE p.key \in C /\ p.i \in Int
    OBVIOUS
  <2>1. PICK c \in C : \E i \in 1..Len(c.cols) : p = Part(c, i)
    BY <1>1, <1>6, PartsAre
  <2>2. PICK i \in 1..Len(c.cols) : p = Part(c, i)
    BY <2>1
  <2>3. p.key = c /\ p.i = i
    BY <2>2 DEF Part
  <2>4. i \in Int
    BY <1>1, FirstPart
  <2> QED
    BY <2>3, <2>4
<1>9. ASSUME NEW p \in A, NEW r \in A
      PROVE  Before(p.key.at \o <<p.key.no, p.i>>, r.key.at \o <<r.key.no, r.i>>) <=> <<p, r>> \in L
  <2>1. PICK c, d, i, j : c = p.key /\ d = r.key /\ i = p.i /\ j = r.i
    OBVIOUS
  <2>2. c \in C /\ d \in C /\ i \in Int /\ j \in Int
    BY <1>8, <2>1
  <2>3. c.at \in Int \X Int /\ d.at \in Int \X Int /\ c.no \in Int /\ d.no \in Int
    BY <1>4, <2>2
  <2>4. Before(c.at \o <<c.no, i>>, d.at \o <<d.no, j>>)
          <=> (\/ c.at[1] < d.at[1]
               \/ (c.at[1] = d.at[1] /\ c.at[2] < d.at[2])
               \/ (c.at[1] = d.at[1] /\ c.at[2] = d.at[2] /\ c.no < d.no)) \/ (c.at[1] = d.at[1] /\ c.at[2] = d.at[2] /\ c.no = d.no /\ i < j)
    BY <2>2, <2>3, BeforeAt4
  <2>5. c.at[1] = d.at[1] /\ c.at[2] = d.at[2] /\ c.no = d.no <=> c = d
    BY <1>4, <2>2
  <2>6. <<p, r>> \in L <=> <<c, d>> \in RC \/ (c = d /\ i < j)
    BY <1>6, <2>1 DEF Lex
  <2>7. <<c, d>> \in RC <=> (\/ c.at[1] < d.at[1]
                             \/ (c.at[1] = d.at[1] /\ c.at[2] < d.at[2])
                             \/ (c.at[1] = d.at[1] /\ c.at[2] = d.at[2] /\ c.no < d.no))
    BY <1>3, <2>2
  <2>8. Before(c.at \o <<c.no, i>>, d.at \o <<d.no, j>>) <=> <<p, r>> \in L
    BY <2>4, <2>5, <2>6, <2>7, Zenon
  <2> QED
    BY <2>1, <2>8, Zenon
<1>10. ASSUME NEW r \in A PROVE {p \in A : Before(p.key.at \o <<p.key.no, p.i>>, r.key.at \o <<r.key.no, r.i>>)} = Below(L, A, r)
  BY <1>9 DEF Below
<1>11. PICK n : n = Cardinality(A)
  OBVIOUS
<1> DEFINE at(i) == CHOOSE r \in A : Cardinality({p \in A : Before(p.key.at \o <<p.key.no, p.i>>, r.key.at \o <<r.key.no, r.i>>)}) = i - 1
<1>12. ASSUME NEW i \in 1..n PROVE at(i) \in A /\ Cardinality(Below(L, A, at(i))) = i - 1
  <2>1. PICK r \in A : Cardinality(Below(L, A, r)) = i - 1
    BY <1>7, <1>11, Ranked
  <2>2. Cardinality({p \in A : Before(p.key.at \o <<p.key.no, p.i>>, r.key.at \o <<r.key.no, r.i>>)}) = i - 1
    BY <1>10, <2>1
  <2>3. at(i) \in A /\ Cardinality({p \in A : Before(p.key.at \o <<p.key.no, p.i>>, at(i).key.at \o <<at(i).key.no, at(i).i>>)}) = i - 1
    BY <2>2
  <2> QED
    BY <1>10, <2>3
<1>13. PICK f : f = [i \in 1..n |-> at(i)]
  OBVIOUS
<1>14. NumberedParts(C) = <<>> \o f
  BY <1>6, <1>11, <1>13 DEF NumberedParts, OrderedBy
<1> HIDE DEF at
<1>15. n \in Nat
  BY <1>7, <1>11, FS_CardinalityType
<1>16. <<>> \o f = f
  <2>1. f = [i \in 1..n |-> f[i]]
    BY <1>13
  <2> QED
    BY <1>15, <2>1, NothingBefore
<1>17. ByRank(f, L, A)
  <2>1. f = [i \in 1..Cardinality(A) |-> f[i]]
    BY <1>11, <1>13
  <2>2. \A i \in 1..Cardinality(A) : f[i] \in A /\ Cardinality(Below(L, A, f[i])) = i - 1
    BY <1>11, <1>12, <1>13
  <2> QED
    BY <2>1, <2>2 DEF ByRank
<1> QED
  BY <1>5, <1>6, <1>14, <1>16, <1>17

\* SQLite numbers a table's keys apart.
LEMMA KeyIdsApart ==
  ASSUME NEW d, IsFiniteSet(d.constraints), d.constraints \subseteq Constraint,
         \A b, c \in d.constraints : b.no = c.no => b = c,
         NEW c \in d.constraints, c.kind = "f"
  PROVE  /\ KeyId(d, c) \in Nat
         /\ \A e \in d.constraints : (e.kind = "f" /\ e.at = c.at /\ KeyId(d, e) = KeyId(d, c)) => e = c
<1>1. PICK S : S = On(d, c.at, {"f"})
  OBVIOUS
<1>2. PICK R : R = {x \in S \X S : x[1].no > x[2].no}
  OBVIOUS
<1>3. S \in SUBSET d.constraints /\ c \in S
  BY <1>1 DEF On
<1>4. IsFiniteSet(S)
  BY <1>3, FS_Subset
<1>5. \A a, b \in S : <<a, b>> \in R <=> a.no > b.no
  BY <1>2
<1>6. \A a \in S : a.no \in Int
  BY <1>3, Typed
<1>7. Orders(R, S)
  <2>1. \A a \in S : <<a, a>> \notin R
    BY <1>5, <1>6
  <2>2. \A a, b \in S : a # b => <<a, b>> \in R \/ <<b, a>> \in R
    BY <1>3, <1>5, <1>6
  <2>3. \A a, b, e \in S : <<a, b>> \in R /\ <<b, e>> \in R => <<a, e>> \in R
    BY <1>5, <1>6
  <2> QED
    BY <2>1, <2>2, <2>3 DEF Orders
<1>8. ASSUME NEW e \in S PROVE KeyId(d, e) = Cardinality(Below(R, S, e))
  <2>1. e.at = c.at
    BY <1>1 DEF On
  <2>2. {a \in On(d, e.at, {"f"}) : a.no > e.no} = Below(R, S, e)
    BY <1>1, <1>5, <2>1 DEF Below
  <2> QED
    BY <2>2 DEF KeyId
<1>9. ASSUME NEW e \in d.constraints, e.kind = "f", e.at = c.at, KeyId(d, e) = KeyId(d, c) PROVE e = c
  <2>1. e \in S
    BY <1>1, <1>9 DEF On
  <2>2. Cardinality(Below(R, S, e)) = Cardinality(Below(R, S, c))
    BY <1>3, <1>8, <1>9, <2>1
  <2> QED
    BY <1>3, <1>4, <1>7, <2>1, <2>2, OneRank
<1>10. KeyId(d, c) \in Nat
  <2>1. Below(R, S, c) \in SUBSET S
    BY DEF Below
  <2>2. IsFiniteSet(Below(R, S, c))
    BY <1>4, <2>1, FS_Subset
  <2> QED
    BY <1>3, <1>8, <2>2, FS_CardinalityType
<1> QED
  BY <1>9, <1>10

\* SQLite: a table after another, each one's keys by their numbers.
SqliteKeys(d, S) == LET key(c) == <<c.at[2], KeyId(d, c)>> IN OrderedBy(S, key)
LEMMA SqliteKeysAre ==
  ASSUME NEW d, IsFiniteSet(d.constraints), d.constraints \subseteq Constraint,
         \A b, c \in d.constraints : b.no = c.no => b = c,
         NEW S, S \subseteq {c \in d.constraints : c.kind = "f"}, \A b, c \in S : b.at[1] = c.at[1]
  PROVE  IsFiniteSet(S) /\ SqliteKeys(d, S) \in Bijection(1..Cardinality(S), S)
<1>0. IsFiniteSet(S)
  BY FS_Subset
<1>1. PICK n : n = Cardinality(S)
  OBVIOUS
<1>2. PICK R : R = {x \in S \X S : x[1].at[2] < x[2].at[2] \/ (x[1].at[2] = x[2].at[2] /\ KeyId(d, x[1]) < KeyId(d, x[2]))}
  OBVIOUS
<1>3. \A b, c \in S : <<b, c>> \in R <=> b.at[2] < c.at[2] \/ (b.at[2] = c.at[2] /\ KeyId(d, b) < KeyId(d, c))
  BY <1>2
<1>4. \A c \in S : c.at[2] \in Int /\ c.at = <<c.at[1], c.at[2]>>
  BY Typed
<1>5. \A c \in S : KeyId(d, c) \in Int
  BY KeyIdsApart
<1>6. ASSUME NEW b \in S, NEW c \in S, b.at[2] = c.at[2], KeyId(d, b) = KeyId(d, c) PROVE b = c
  <2>1. b.at = c.at
    BY <1>4, <1>6
  <2> QED
    BY <1>6, <2>1, KeyIdsApart
<1>7. Orders(R, S)
  <2>1. \A c \in S : <<c, c>> \notin R
    BY <1>3, <1>4, <1>5
  <2>2. ASSUME NEW b \in S, NEW c \in S, b # c PROVE <<b, c>> \in R \/ <<c, b>> \in R
    <3>1. b.at[2] # c.at[2] \/ KeyId(d, b) # KeyId(d, c)
      BY <1>6, <2>2
    <3> QED
      BY <1>3, <1>4, <1>5, <3>1
  <2>3. \A a, b, c \in S : <<a, b>> \in R /\ <<b, c>> \in R => <<a, c>> \in R
    BY <1>3, <1>4, <1>5
  <2> QED
    BY <2>1, <2>2, <2>3 DEF Orders
<1>8. ASSUME NEW b \in S, NEW c \in S
      PROVE  Before(<<b.at[2], KeyId(d, b)>>, <<c.at[2], KeyId(d, c)>>) <=> <<b, c>> \in R
  BY <1>3, <1>4, <1>5, Before2
<1>9. ASSUME NEW c \in S
      PROVE  {b \in S : Before(<<b.at[2], KeyId(d, b)>>, <<c.at[2], KeyId(d, c)>>)} = Below(R, S, c)
  BY <1>8 DEF Below
<1> DEFINE at(i) == CHOOSE c \in S : Cardinality({b \in S : Before(<<b.at[2], KeyId(d, b)>>, <<c.at[2], KeyId(d, c)>>)}) = i - 1
<1>10. ASSUME NEW i \in 1..n PROVE at(i) \in S /\ Cardinality(Below(R, S, at(i))) = i - 1
  <2>1. PICK c \in S : Cardinality(Below(R, S, c)) = i - 1
    BY <1>0, <1>1, <1>7, Ranked
  <2>2. Cardinality({b \in S : Before(<<b.at[2], KeyId(d, b)>>, <<c.at[2], KeyId(d, c)>>)}) = i - 1
    BY <1>9, <2>1, Zenon
  <2>3. /\ at(i) \in S
        /\ Cardinality({b \in S : Before(<<b.at[2], KeyId(d, b)>>, <<at(i).at[2], KeyId(d, at(i))>>)}) = i - 1
    BY <2>2, Zenon
  <2> HIDE DEF at
  <2> QED
    BY <1>9, <2>3
<1>11. PICK f : f = [i \in 1..n |-> at(i)]
  OBVIOUS
<1>12. SqliteKeys(d, S) = <<>> \o f
  BY <1>1, <1>11 DEF SqliteKeys, OrderedBy
<1> HIDE DEF at
<1>13. n \in Nat
  BY <1>0, <1>1, FS_CardinalityType
<1>14. <<>> \o f = f
  <2>1. f = [i \in 1..n |-> f[i]]
    BY <1>11
  <2> QED
    BY <1>13, <2>1, NothingBefore
<1>15. ByRank(f, R, S)
  <2>1. f = [i \in 1..Cardinality(S) |-> f[i]]
    BY <1>1, <1>11
  <2>2. \A i \in 1..Cardinality(S) : f[i] \in S /\ Cardinality(Below(R, S, f[i])) = i - 1
    BY <1>1, <1>10, <1>11
  <2> QED
    BY <2>1, <2>2 DEF ByRank
<1> QED
  BY <1>0, <1>7, <1>12, <1>14, <1>15, RankBijection

----------------------------------------------------------------------------
\* What an answer has to say of each of the keys C, whatever name it gives it.
Says(node, d, c) == /\ node.source = c.at /\ node.target = c.target
                    /\ node.columns = c.cols /\ node.referenced = Referenced(d, c)
Tells(answer, d, C) ==
  /\ answer \in Seq(Links)
  /\ \E q \in Bijection(1..Cardinality(C), C) :
       DOMAIN answer = 1..Cardinality(C) /\ \A k \in 1..Cardinality(C) : Says(answer[k], d, q[k])

\* The rows of the keys become one node each.
LEMMA NodesTell ==
  ASSUME NEW d, NEW C, IsFiniteSet(C), C \subseteq Constraint,
         \A c \in C : c.cols # <<>> /\ Len(c.refs) = Len(c.cols),
         \A b, c \in C : b.name = c.name /\ b.at = c.at /\ b.target = c.target => b = c,
         NEW rows, NEW RC, Orders(RC, C), ByRank(rows, Lex(RC, C), AllParts(C))
  PROVE  Tells(RelationshipNodes(rows), d, C)
<1>1. \A c \in C : Shaped(c)
  BY TypedShape
<1>2. PICK pos : Placed(rows, C, pos)
  BY <1>1, Places
<1>3. PICK n : n = Len(rows)
  OBVIOUS
<1>4. n \in Nat /\ DOMAIN rows = 1..n
  BY <1>2, <1>3 DEF Placed, Sequence
<1>5. PICK ids : ids = [i \in DOMAIN rows |-> Ends(rows[i])]
  OBVIOUS
<1>6. \A i \in 1..n : rows[i].key \in C
  <2> SUFFICES ASSUME NEW i \in 1..n PROVE rows[i].key \in C
    OBVIOUS
  <2>1. PICK c \in C : \E j \in 1..Len(c.cols) : i = pos[c] + (j - 1)
    BY <1>2, <1>3 DEF Placed
  <2>2. PICK j \in 1..Len(c.cols) : i = pos[c] + (j - 1)
    BY <2>1
  <2>3. rows[i] = Part(c, j)
    BY <1>2, <2>2 DEF Placed
  <2> QED
    BY <2>3 DEF Part
<1>7. Told(rows, ids)
  <2>1. ASSUME NEW i \in 1..n, NEW k \in 1..n PROVE ids[i] = ids[k] <=> rows[i].key = rows[k].key
    <3>1. PICK b, c : b = rows[i].key /\ c = rows[k].key
      OBVIOUS
    <3>2. b \in C /\ c \in C
      BY <1>6, <3>1
    <3>3. ids[i] = <<b.name, b.at, b.target>> /\ ids[k] = <<c.name, c.at, c.target>>
      BY <1>4, <1>5, <3>1 DEF Ends
    <3> QED
      BY <3>1, <3>2, <3>3
  <2> QED
    BY <1>3, <2>1 DEF Told
<1>8. ids = [i \in 1..Len(rows) |-> ids[i]]
  BY <1>3, <1>4, <1>5
<1>9. PICK m : m = Cardinality(C)
  OBVIOUS
<1>10. PICK q \in Bijection(1..m, C) : Grouped(rows, ids) = AllGroups(q, m)
  BY <1>1, <1>2, <1>7, <1>8, <1>9, GroupsAre
<1>11. m \in Nat /\ \A k \in 1..m : q[k] \in C
  BY <1>9, <1>10, FS_CardinalityType DEF Bijection, Injection
<1>12. PICK answer : answer = RelationshipNodes(rows)
  OBVIOUS
<1>13. answer = [k \in DOMAIN AllGroups(q, m) |-> NodeOfRows(AllGroups(q, m)[k])]
  BY <1>5, <1>10, <1>12 DEF RelationshipNodes, NodesOfGroups
<1>14. DOMAIN AllGroups(q, m) = 1..m /\ \A k \in 1..m : AllGroups(q, m)[k] = PartsOf(q[k])
  BY DEF AllGroups
<1>15. ASSUME NEW c \in C PROVE NodeOfRows(PartsOf(c)) = Whole(c)
  <2>1. PICK len \in Nat : len = Len(c.cols)
    BY <1>1 DEF Shaped
  <2>2. len >= 1 /\ c.cols = [i \in 1..len |-> c.cols[i]] /\ Len(c.refs) = len
    BY <1>1, <2>1 DEF Shaped
  <2>3. c.refs = [i \in 1..len |-> c.refs[i]]
    <3>1. PICK s \in Seq(Int) : s = c.refs
      BY Typed
    <3> QED
      BY <2>2, <3>1
  <2>4. PICK f : f = PartsOf(c)
    OBVIOUS
  <2>5. DOMAIN f = 1..len /\ \A j \in 1..len : f[j].key = c /\ f[j].i = j
    BY <2>1, <2>4 DEF PartsOf, Part
  <2>6. f[1].key = c
    BY <2>2, <2>5
  <2>7. [j \in DOMAIN f |-> f[j].key.cols[f[j].i]] = c.cols
    BY <2>2, <2>5
  <2>8. [j \in DOMAIN f |-> f[j].key.refs[f[j].i]] = c.refs
    BY <2>3, <2>5
  <2> QED
    BY <2>4, <2>6, <2>7, <2>8 DEF NodeOfRows, Whole
<1>16. answer = [k \in 1..m |-> Whole(q[k])]
  BY <1>11, <1>13, <1>14, <1>15
<1>17. ASSUME NEW c \in C PROVE Whole(c) \in Links /\ Says(Whole(c), d, c)
  <2>1. c.name \in Int /\ c.at \in Int \X Int /\ c.target \in Int \X Int /\ c.cols \in Seq(Int) /\ c.refs \in Seq(Int)
    BY Typed
  <2>2. Whole(c) \in Links
    BY <2>1 DEF Whole, Relationship, Links
  <2>3. c.refs # <<>>
    BY <1>1 DEF Shaped
  <2>4. Says(Whole(c), d, c)
    BY <2>3 DEF Says, Whole, Relationship, Referenced
  <2> QED
    BY <2>2, <2>4
<1>18. answer \in Seq(Links)
  BY <1>11, <1>16, <1>17
<1>19. DOMAIN answer = 1..m /\ \A k \in 1..m : Says(answer[k], d, q[k])
  BY <1>11, <1>16, <1>17
<1> QED
  BY <1>9, <1>10, <1>12, <1>18, <1>19 DEF Tells

\* What holds of a database whose keys an adapter tells of.
KeysKnown(e, d) ==
  /\ IsFiniteSet(d.constraints) /\ d.constraints \subseteq Constraint
  /\ \A b, c \in d.constraints : b.no = c.no => b = c
  /\ NamesOf(e, d)
  /\ \A c \in d.constraints : c.kind = "f" => ForeignKeyOf(e, d, c)
  /\ e \in {"mysql", "mssql", "oracle"} =>
       \A b, c \in d.constraints :
         (b.kind = "f" /\ c.kind = "f" /\ b.at[1] = c.at[1] /\ b.name = c.name) => b = c
AnswerRight(e, d, t, asked) ==
  IF Relationships(e, d, asked) = Failed
  THEN e = "sqlite" /\ \E c \in Touching(d, t) : Len(Referenced(d, c)) # Len(c.cols)
  ELSE Tells(Relationships(e, d, asked), d, Touching(d, t))

\* The keys at either end of a table are finitely many, and are foreign keys.
LEMMA TouchingKnown ==
  ASSUME NEW e, NEW d, KeysKnown(e, d), NEW t
  PROVE  /\ IsFiniteSet(Touching(d, t)) /\ Touching(d, t) \subseteq Constraint
         /\ Touching(d, t) \subseteq {c \in d.constraints : c.kind = "f"}
         /\ \A c \in Touching(d, t) : c.cols # <<>> /\ ForeignKeyOf(e, d, c)
         /\ \A b, c \in Touching(d, t) : b.no = c.no => b = c
<1>1. Touching(d, t) \in SUBSET d.constraints
  BY DEF Touching
<1>2. IsFiniteSet(Touching(d, t))
  BY <1>1, FS_Subset DEF KeysKnown
<1> QED
  BY <1>1, <1>2 DEF KeysKnown, ForeignKeyOf, Touching

\* A key as it stands, where it names the columns it points at.
LEMMA WholeSays ==
  ASSUME NEW d, NEW c \in Constraint, c.cols # <<>>, Len(c.refs) = Len(c.cols)
  PROVE  Whole(c) \in Links /\ Says(Whole(c), d, c)
<1>1. Shaped(c)
  BY TypedShape
<1>2. c.name \in Int /\ c.at \in Int \X Int /\ c.target \in Int \X Int /\ c.cols \in Seq(Int) /\ c.refs \in Seq(Int)
  BY Typed
<1>3. Whole(c) \in Links
  BY <1>2 DEF Whole, Relationship, Links
<1>4. Len(c.cols) # 0
  BY <1>1 DEF Shaped
<1>5. c.refs # <<>>
  BY <1>4
<1>6. Says(Whole(c), d, c)
  BY <1>5 DEF Says, Whole, Relationship, Referenced
<1> QED
  BY <1>3, <1>6

\* An answer of one node for each key, in their order.
LEMMA EachTells ==
  ASSUME NEW d, NEW S, IsFiniteSet(S), NEW q \in Bijection(1..Cardinality(S), S), NEW answer,
         DOMAIN answer = DOMAIN q, answer = [i \in DOMAIN answer |-> answer[i]],
         \A i \in DOMAIN q : answer[i] \in Links /\ Says(answer[i], d, q[i])
  PROVE  Tells(answer, d, S)
<1>1. PICK n \in Nat : n = Cardinality(S)
  BY FS_CardinalityType
<1>2. DOMAIN q = 1..n
  BY <1>1 DEF Bijection, Injection
<1>3. answer \in Seq(Links)
  BY <1>1, <1>2
<1> QED
  BY <1>1, <1>2, <1>3 DEF Tells

LEMMA TellingIsNoFailure ==
  ASSUME NEW answer, NEW d, NEW S, Tells(answer, d, S)
  PROVE  answer # Failed
BY FailedIsNoAnswer DEF Tells

\* PostgreSQL.
LEMMA PostgresTells ==
  ASSUME NEW d, KeysKnown("postgres", d), NEW t
  PROVE  AnswerRight("postgres", d, t, t)
<1>1. PICK S : S = Touching(d, t)
  OBVIOUS
<1>2. PICK answer : answer = Relationships("postgres", d, t)
  OBVIOUS
<1>3. /\ IsFiniteSet(S) /\ S \subseteq Constraint
      /\ \A c \in S : c.cols # <<>> /\ Len(c.refs) = Len(c.cols)
      /\ \A b, c \in S : b.no = c.no => b = c
  BY <1>1, TouchingKnown DEF ForeignKeyOf
<1>4. PICK q \in Bijection(1..Cardinality(S), S) : q = PgKeys(S)
  BY <1>3, PgKeysAre
<1>5. answer = [i \in DOMAIN q |-> Whole(q[i])]
  BY <1>1, <1>2, <1>4 DEF Relationships, PgRelationships, PgKeys
<1>6. \A i \in DOMAIN q : q[i] \in S
  BY DEF Bijection, Injection
<1>7. \A i \in DOMAIN q : answer[i] \in Links /\ Says(answer[i], d, q[i])
  BY <1>3, <1>5, <1>6, WholeSays
<1>8. Tells(answer, d, S)
  BY <1>3, <1>5, <1>7, EachTells
<1>9. answer # Failed
  BY <1>8, TellingIsNoFailure
<1> QED
  BY <1>1, <1>2, <1>8, <1>9 DEF AnswerRight

\* MySQL and Oracle, by the table asked for.
LEMMA NamedTells ==
  ASSUME NEW e \in {"mysql", "oracle"}, NEW d, KeysKnown(e, d), NEW t
  PROVE  Tells(RelationshipNodes(NamedParts(Touching(d, t))), d, Touching(d, t))
<1>1. PICK S : S = Touching(d, t)
  OBVIOUS
<1>2. /\ IsFiniteSet(S) /\ S \subseteq Constraint
      /\ \A c \in S : c.cols # <<>> /\ Len(c.refs) = Len(c.cols)
      /\ S \subseteq {c \in d.constraints : c.kind = "f"}
  BY <1>1, TouchingKnown DEF ForeignKeyOf
<1>3. \A b, c \in S : b.at = c.at /\ b.name = c.name => b = c
  BY <1>2 DEF KeysKnown
<1>4. PICK RC : Orders(RC, S) /\ ByRank(NamedParts(S), Lex(RC, S), AllParts(S))
  BY <1>2, <1>3, NamedPartsAre
<1> QED
  BY <1>1, <1>2, <1>3, <1>4, NodesTell

LEMMA NumberedTells ==
  ASSUME NEW d, KeysKnown("mssql", d), NEW t
  PROVE  Tells(RelationshipNodes(NumberedParts(Touching(d, t))), d, Touching(d, t))
<1>1. PICK S : S = Touching(d, t)
  OBVIOUS
<1>2. /\ IsFiniteSet(S) /\ S \subseteq Constraint
      /\ \A c \in S : c.cols # <<>> /\ Len(c.refs) = Len(c.cols)
      /\ S \subseteq {c \in d.constraints : c.kind = "f"}
      /\ \A b, c \in S : b.no = c.no => b = c
  BY <1>1, TouchingKnown DEF ForeignKeyOf
<1>3. \A b, c \in S : b.at = c.at /\ b.name = c.name => b = c
  BY <1>2 DEF KeysKnown
<1>4. \A b, c \in S : b.at = c.at /\ b.no = c.no => b = c
  BY <1>2
<1>5. PICK RC : Orders(RC, S) /\ ByRank(NumberedParts(S), Lex(RC, S), AllParts(S))
  BY <1>2, <1>4, NumberedPartsAre
<1> QED
  BY <1>1, <1>2, <1>3, <1>5, NodesTell

LEMMA MySqlTells ==
  ASSUME NEW d, KeysKnown("mysql", d), NEW t
  PROVE  AnswerRight("mysql", d, t, t)
<1>1. Relationships("mysql", d, t) = RelationshipNodes(NamedParts(Touching(d, t)))
  BY DEF Relationships, MySqlRelationships, NamedParts
<1>2. Tells(Relationships("mysql", d, t), d, Touching(d, t))
  BY <1>1, NamedTells
<1> QED
  BY <1>2, TellingIsNoFailure DEF AnswerRight

LEMMA MsSqlTells ==
  ASSUME NEW d, KeysKnown("mssql", d), NEW t
  PROVE  AnswerRight("mssql", d, t, t)
<1>1. Relationships("mssql", d, t) = RelationshipNodes(NumberedParts(Touching(d, t)))
  BY DEF Relationships, MsSqlRelationships, NumberedParts
<1>2. Tells(Relationships("mssql", d, t), d, Touching(d, t))
  BY <1>1, NumberedTells
<1> QED
  BY <1>2, TellingIsNoFailure DEF AnswerRight

\* A user's spelling of a table folds to it.
Spelled(asked, t) == asked = t \/ (asked \in (1..9) \X (1..9) /\ asked = <<t[1] - 10, t[2] - 10>>)
\* Folded, a spelling of a table is the table's own.
LEMMA SpellingFolds ==
  ASSUME NEW t \in Int \X Int, NEW asked, Spelled(asked, t)
  PROVE  /\ UpperOf(asked) = UpperOf(t) /\ asked \in Int \X Int
         /\ asked # t => UpperOf(asked) = t
<1>1. CASE asked = t
  BY <1>1
<1>2. CASE asked # t
  <2>1. PICK a, b, u, v : a = asked[1] /\ b = asked[2] /\ u = t[1] /\ v = t[2]
    OBVIOUS
  <2>2. asked \in (1..9) \X (1..9) /\ asked = <<u - 10, v - 10>>
    BY <1>2, <2>1 DEF Spelled
  <2>3. a \in 1..9 /\ b \in 1..9 /\ u \in Int /\ v \in Int /\ t = <<u, v>> /\ asked = <<a, b>>
    BY <2>1, <2>2
  <2>4. a = u - 10 /\ b = v - 10
    BY <2>2, <2>3
  <2>5. Upper(a) = u /\ Upper(b) = v /\ Upper(u) = u /\ Upper(v) = v
    BY <2>3, <2>4 DEF Upper
  <2> QED
    BY <2>3, <2>5 DEF UpperOf
<1> QED
  BY <1>1, <1>2

\* Oracle.
LEMMA OracleTells ==
  ASSUME NEW d, KeysKnown("oracle", d), NEW t \in TablesOf(d), NEW asked, Spelled(asked, t)
  PROVE  AnswerRight("oracle", d, t, asked)
<1>1. t \in Int \X Int
  BY DEF KeysKnown, NamesOf
<1>2. PICK r \in d.relations : r.kind = "table" /\ r.at = t
  BY DEF TablesOf
<1>3. Resolved(d, asked) = t
  <2>1. CASE asked = t
    <3>1. t \in {q.at : q \in {p \in d.relations : p.kind # "sequence"}}
      BY <1>2
    <3> QED
      BY <2>1, <3>1 DEF Resolved
  <2>2. ASSUME asked # t, NEW q \in d.relations, q.kind # "sequence", q.at = asked PROVE FALSE
    <3>1. SameIgnoringCase(q.at, r.at)
      BY <1>1, <1>2, <2>2, SpellingFolds DEF SameIgnoringCase
    <3>2. q.at = r.at
      BY <1>2, <2>2, <3>1 DEF KeysKnown, NamesOf
    <3> QED
      BY <1>2, <2>2, <3>2
  <2>3. CASE asked # t
    <3>1. UpperOf(asked) = t
      BY <1>1, <2>3, SpellingFolds
    <3> QED
      BY <2>2, <2>3, <3>1 DEF Resolved
  <2> QED
    BY <2>1, <2>3
<1>4. Relationships("oracle", d, asked) = RelationshipNodes(NamedParts(Touching(d, t)))
  BY <1>3 DEF Relationships, OracleRelationships, NamedParts
<1>5. Tells(Relationships("oracle", d, asked), d, Touching(d, t))
  BY <1>4, NamedTells
<1> QED
  BY <1>5, TellingIsNoFailure DEF AnswerRight

\* DuckDB.
LEMMA DuckDbTells ==
  ASSUME NEW d, KeysKnown("duckdb", d), NEW t \in TablesOf(d)
  PROVE  AnswerRight("duckdb", d, t, t)
<1>1. PICK S : S = Touching(d, t)
  OBVIOUS
<1>2. PICK answer : answer = Relationships("duckdb", d, t)
  OBVIOUS
<1>3. /\ IsFiniteSet(S) /\ S \subseteq Constraint
      /\ \A c \in S : c.cols # <<>> /\ Len(c.refs) = Len(c.cols)
      /\ \A b, c \in S : b.no = c.no => b = c
      /\ \A c \in S : c.at[1] = c.target[1]
  BY <1>1, TouchingKnown DEF ForeignKeyOf
<1>4. PICK q \in Bijection(1..Cardinality(S), S) : q = DuckKeys(S)
  BY <1>3, DuckKeysAre
<1>5. {c \in d.constraints : c.kind = "f" /\ (c.at = t \/ (c.at[1] = t[1] /\ c.target[2] = t[2]))} = S
  <2>1. t \in Int \X Int
    BY DEF KeysKnown, NamesOf
  <2>2. ASSUME NEW c \in d.constraints, c.kind = "f"
        PROVE  (c.at = t \/ (c.at[1] = t[1] /\ c.target[2] = t[2])) <=> (c.at = t \/ c.target = t)
    <3>1. c \in Constraint /\ c.at[1] = c.target[1]
      BY <2>2 DEF KeysKnown, ForeignKeyOf
    <3>2. c.target = <<c.target[1], c.target[2]>> /\ t = <<t[1], t[2]>>
      BY <2>1, <3>1, Typed
    <3> QED
      BY <3>1, <3>2
  <2> QED
    BY <1>1, <2>2 DEF Touching
<1>6. answer = [i \in DOMAIN q |-> Relationship(q[i].name, q[i].at, q[i].cols, <<q[i].at[1], q[i].target[2]>>, q[i].refs)]
  BY <1>2, <1>4, <1>5 DEF Relationships, DuckDbRelationships, DuckKeys
<1>7. \A i \in DOMAIN q : q[i] \in S
  BY DEF Bijection, Injection
<1>8. \A c \in S : <<c.at[1], c.target[2]>> = c.target
  BY <1>3, Typed
<1>9. \A i \in DOMAIN q : answer[i] = Whole(q[i])
  BY <1>6, <1>7, <1>8 DEF Whole
<1>10. \A i \in DOMAIN q : answer[i] \in Links /\ Says(answer[i], d, q[i])
  BY <1>3, <1>7, <1>9, WholeSays
<1>11. DOMAIN answer = DOMAIN q /\ answer = [i \in DOMAIN answer |-> answer[i]]
  BY <1>6
<1>12. Tells(answer, d, S)
  BY <1>3, <1>10, <1>11, EachTells
<1>13. answer # Failed
  BY <1>12, TellingIsNoFailure
<1> QED
  BY <1>1, <1>2, <1>12, <1>13 DEF AnswerRight

\* SQLite's answer, by the keys it is of, or an error.
SqliteNodes(d, S) ==
  LET rows == SqliteKeys(d, S)
  IN IF \E c \in S : Len(Referenced(d, c)) # Len(c.cols) THEN Failed
     ELSE [i \in DOMAIN rows |-> Relationship(KeyId(d, rows[i]), rows[i].at, rows[i].cols,
                                              rows[i].target, Referenced(d, rows[i]))]

\* A primary key's columns.
LEMMA KeyColumns ==
  ASSUME NEW d, d.constraints \subseteq Constraint, NEW t
  PROVE  KeyOf(d, t) \in Seq(Int)
<1>1. PICK p : p = On(d, t, {"p"})
  OBVIOUS
<1>2. CASE p = {}
  BY <1>1, <1>2 DEF KeyOf
<1>3. CASE p # {}
  <2>1. PICK c : c = CHOOSE x \in p : TRUE
    OBVIOUS
  <2>2. c \in Constraint
    BY <1>1, <1>3, <2>1 DEF On
  <2> QED
    BY <1>1, <1>3, <2>1, <2>2, Typed DEF KeyOf
<1> QED
  BY <1>2, <1>3

\* Names compared as SQLite does are told apart as they are spelled.
LEMMA SqliteHome ==
  ASSUME NEW d, KeysKnown("sqlite", d), NEW t \in TablesOf(d), NEW asked, Spelled(asked, t)
  PROVE  {s \in d.schemas : Upper(s) = Upper(asked[1])} = {t[1]}
<1>1. t \in Int \X Int /\ t[1] \in d.schemas /\ \A s, u \in d.schemas : Upper(s) = Upper(u) => s = u
  BY DEF KeysKnown, NamesOf
<1>2. UpperOf(asked) = UpperOf(t)
  BY <1>1, SpellingFolds
<1>3. Upper(asked[1]) = Upper(t[1])
  BY <1>2 DEF UpperOf
<1> QED
  BY <1>1, <1>3

\* The catalogue's spelling of a target is the key's own.
LEMMA SqliteTarget ==
  ASSUME NEW d, KeysKnown("sqlite", d), NEW c \in d.constraints, c.kind = "f",
         NEW T, T = {u \in TablesOf(d) : u[1] = c.at[1]}
  PROVE  (IF \E u \in T : SameIgnoringCase(u, c.target)
          THEN CHOOSE u \in T : SameIgnoringCase(u, c.target) ELSE c.target) = c.target
<1>1. \A u \in T : SameIgnoringCase(u, c.target) => u = c.target
  BY DEF KeysKnown, ForeignKeyOf
<1> QED
  BY <1>1

\* What is found by names that differ in case alone is what touches the table.
LEMMA SqliteFound ==
  ASSUME NEW d, KeysKnown("sqlite", d), NEW t \in TablesOf(d), NEW asked, Spelled(asked, t),
         NEW T, T = {u \in TablesOf(d) : u[1] = t[1]}
  PROVE  {c \in d.constraints : /\ c.kind = "f" /\ c.at \in T
                                /\ \/ Upper(c.at[2]) = Upper(asked[2])
                                   \/ Upper(c.target[2]) = Upper(asked[2])} = Touching(d, t)
<1>1. t \in Int \X Int
  BY DEF KeysKnown, NamesOf
<1>2. UpperOf(asked) = UpperOf(t)
  BY <1>1, SpellingFolds
<1>3. Upper(asked[2]) = Upper(t[2])
  BY <1>2 DEF UpperOf
<1>4. PICK r \in d.relations : r.kind = "table" /\ r.at = t
  BY DEF TablesOf
<1>5. ASSUME NEW c \in d.constraints, c.kind = "f"
      PROVE  /\ c.at[1] = c.target[1] /\ c.at \in TablesOf(d)
             /\ c.at \in Int \X Int /\ c.target \in Int \X Int
             /\ \A u \in TablesOf(d) : SameIgnoringCase(u, c.target) => u = c.target
  BY <1>5, Typed DEF KeysKnown, ForeignKeyOf
<1>6. ASSUME NEW u \in TablesOf(d), u[1] = t[1], Upper(u[2]) = Upper(t[2])
      PROVE  u = t
  <2>1. PICK q \in d.relations : q.kind = "table" /\ q.at = u
    BY DEF TablesOf
  <2>2. SameIgnoringCase(q.at, r.at)
    BY <1>4, <1>6, <2>1 DEF SameIgnoringCase, UpperOf
  <2> QED
    BY <1>4, <2>1, <2>2 DEF KeysKnown, NamesOf
<1>7. ASSUME NEW c \in d.constraints, c.kind = "f", c.at[1] = t[1], Upper(c.target[2]) = Upper(t[2])
      PROVE  c.target = t
  <2>1. SameIgnoringCase(t, c.target)
    BY <1>5, <1>7 DEF SameIgnoringCase, UpperOf
  <2> QED
    BY <1>5, <1>7, <2>1
<1>8. ASSUME NEW c \in d.constraints, c.kind = "f"
      PROVE  (/\ c.at \in T
              /\ \/ Upper(c.at[2]) = Upper(asked[2])
                 \/ Upper(c.target[2]) = Upper(asked[2])) <=> (c.at = t \/ c.target = t)
  <2>1. c.at \in T <=> c.at[1] = t[1]
    BY <1>5, <1>8
  <2>2. ASSUME c.at[1] = t[1], Upper(c.at[2]) = Upper(asked[2]) PROVE c.at = t
    BY <1>3, <1>5, <1>6, <1>8, <2>2
  <2>3. ASSUME c.at[1] = t[1], Upper(c.target[2]) = Upper(asked[2]) PROVE c.target = t
    BY <1>3, <1>7, <1>8, <2>3
  <2>4. c.at = t => c.at[1] = t[1] /\ Upper(c.at[2]) = Upper(asked[2])
    BY <1>3
  <2>5. c.target = t => c.at[1] = t[1] /\ Upper(c.target[2]) = Upper(asked[2])
    BY <1>3, <1>5, <1>8
  <2> QED
    BY <2>1, <2>2, <2>3, <2>4, <2>5
<1> QED
  BY <1>8 DEF Touching

\* So SQLite answers with the keys touching the table.
LEMMA SqliteAnswers ==
  ASSUME NEW d, KeysKnown("sqlite", d), NEW t \in TablesOf(d), NEW asked, Spelled(asked, t)
  PROVE  Relationships("sqlite", d, asked) = SqliteNodes(d, Touching(d, t))
<1> DEFINE home == {s \in d.schemas : Upper(s) = Upper(asked[1])}
           own == CHOOSE x \in home : TRUE
           T == {r.at : r \in {q \in RelationsIn(d, own) : q.kind = "table"}}
           target(c) == IF \E u \in T : SameIgnoringCase(u, c.target)
                        THEN CHOOSE u \in T : SameIgnoringCase(u, c.target) ELSE c.target
           found == {c \in d.constraints : /\ c.kind = "f" /\ c.at \in T
                                           /\ \/ Upper(c.at[2]) = Upper(asked[2])
                                              \/ Upper(target(c)[2]) = Upper(asked[2])}
           refs(c) == IF c.refs = <<>> THEN KeyOf(d, target(c)) ELSE c.refs
           rows == SqliteKeys(d, found)
<1>6. Relationships("sqlite", d, asked)
        = IF home = {} \/ \E c \in found : Len(refs(c)) # Len(c.cols) THEN Failed
          ELSE [i \in DOMAIN rows |-> Relationship(KeyId(d, rows[i]), rows[i].at, rows[i].cols,
                                                   target(rows[i]), refs(rows[i]))]
  BY DEF Relationships, SqliteRelationships, SqliteKeys
<1>2. home = {t[1]}
  BY SqliteHome
<1>3. own = t[1]
  BY <1>2
<1>5. T = {u \in TablesOf(d) : u[1] = t[1]}
  BY <1>3 DEF RelationsIn, TablesOf
<1>7. ASSUME NEW c \in d.constraints, c.kind = "f", c.at \in T PROVE target(c) = c.target
  <2>1. c.at[1] = t[1]
    BY <1>5, <1>7
  <2>2. T = {u \in TablesOf(d) : u[1] = c.at[1]}
    BY <1>5, <2>1
  <2> HIDE DEF home, own, T
  <2> QED
    BY <1>7, <2>2, SqliteTarget
<1>8. found = {c \in d.constraints : /\ c.kind = "f" /\ c.at \in T
                                     /\ \/ Upper(c.at[2]) = Upper(asked[2])
                                        \/ Upper(c.target[2]) = Upper(asked[2])}
  BY <1>7
<1>9. found = Touching(d, t)
  <2> HIDE DEF home, own, T, found
  <2>1. {c \in d.constraints : /\ c.kind = "f" /\ c.at \in T
                               /\ \/ Upper(c.at[2]) = Upper(asked[2])
                                  \/ Upper(c.target[2]) = Upper(asked[2])} = Touching(d, t)
    BY <1>5, SqliteFound
  <2> QED
    BY <1>8, <2>1
<1>10. \A c \in found : target(c) = c.target /\ refs(c) = Referenced(d, c)
  BY <1>7 DEF Referenced
<1>11. \A i \in DOMAIN rows : rows[i] \in found
  <2>1. /\ IsFiniteSet(d.constraints) /\ d.constraints \subseteq Constraint
        /\ \A b, c \in d.constraints : b.no = c.no => b = c
    BY DEF KeysKnown
  <2>2. \A c \in found : c.at[1] = t[1]
    BY <1>5, <1>8
  <2>3. found \subseteq {c \in d.constraints : c.kind = "f"}
    OBVIOUS
  <2>4. rows \in Bijection(1..Cardinality(found), found)
    BY <2>1, <2>2, <2>3, SqliteKeysAre
  <2> QED
    BY <2>4 DEF Bijection, Injection
<1>12. PICK S : S = Touching(d, t)
  OBVIOUS
<1>13. rows = SqliteKeys(d, S)
  BY <1>9, <1>12
<1> HIDE DEF home, own, T, target, found, refs, rows
<1>14. (\E c \in found : Len(refs(c)) # Len(c.cols)) <=> \E c \in S : Len(Referenced(d, c)) # Len(c.cols)
  BY <1>9, <1>10, <1>12
<1>15. [i \in DOMAIN rows |-> Relationship(KeyId(d, rows[i]), rows[i].at, rows[i].cols, target(rows[i]), refs(rows[i]))]
         = [i \in DOMAIN rows |-> Relationship(KeyId(d, rows[i]), rows[i].at, rows[i].cols,
                                               rows[i].target, Referenced(d, rows[i]))]
  BY <1>10, <1>11
<1> QED
  BY <1>2, <1>6, <1>12, <1>13, <1>14, <1>15 DEF SqliteNodes

\* SQLite.
LEMMA SqliteTells ==
  ASSUME NEW d, KeysKnown("sqlite", d), NEW t \in TablesOf(d), NEW asked, Spelled(asked, t)
  PROVE  AnswerRight("sqlite", d, t, asked)
<1>1. PICK S : S = Touching(d, t)
  OBVIOUS
<1>2. PICK answer : answer = SqliteNodes(d, S)
  OBVIOUS
<1>3. Relationships("sqlite", d, asked) = answer
  BY <1>1, <1>2, SqliteAnswers
<1>4. CASE \E c \in S : Len(Referenced(d, c)) # Len(c.cols)
  <2>1. answer = Failed
    BY <1>2, <1>4 DEF SqliteNodes
  <2> QED
    BY <1>1, <1>3, <1>4, <2>1 DEF AnswerRight
<1>5. CASE ~\E c \in S : Len(Referenced(d, c)) # Len(c.cols)
  <2>1. /\ IsFiniteSet(d.constraints) /\ d.constraints \subseteq Constraint
        /\ \A b, c \in d.constraints : b.no = c.no => b = c
    BY DEF KeysKnown
  <2>2. /\ IsFiniteSet(S) /\ S \subseteq {c \in d.constraints : c.kind = "f"}
        /\ S \subseteq Constraint /\ \A c \in S : c.at[1] = c.target[1]
    BY <1>1, TouchingKnown DEF ForeignKeyOf
  <2>3. \A c \in S : c.at[1] = t[1]
    BY <1>1, <2>2 DEF Touching
  <2>4. PICK q \in Bijection(1..Cardinality(S), S) : q = SqliteKeys(d, S)
    BY <2>1, <2>2, <2>3, SqliteKeysAre
  <2>5. answer = [i \in DOMAIN q |-> Relationship(KeyId(d, q[i]), q[i].at, q[i].cols, q[i].target, Referenced(d, q[i]))]
    BY <1>2, <1>5, <2>4 DEF SqliteNodes
  <2>6. ASSUME NEW i \in DOMAIN q PROVE answer[i] \in Links /\ Says(answer[i], d, q[i])
    <3>1. PICK c \in S : c = q[i]
      BY DEF Bijection, Injection
    <3>2. c \in Constraint /\ c \in d.constraints /\ c.kind = "f"
      BY <2>2
    <3>3. c.at \in Int \X Int /\ c.target \in Int \X Int /\ c.cols \in Seq(Int) /\ c.refs \in Seq(Int)
      BY <3>2, Typed
    <3>4. KeyId(d, c) \in Int
      BY <2>1, <3>2, KeyIdsApart
    <3>5. Referenced(d, c) \in Seq(Int)
      BY <2>1, <3>3, KeyColumns DEF Referenced
    <3>6. answer[i] = Relationship(KeyId(d, c), c.at, c.cols, c.target, Referenced(d, c))
      BY <2>5, <3>1
    <3> QED
      BY <3>1, <3>3, <3>4, <3>5, <3>6 DEF Says, Links, Relationship
  <2>7. DOMAIN answer = DOMAIN q /\ answer = [i \in DOMAIN answer |-> answer[i]]
    BY <2>5
  <2>8. Tells(answer, d, S)
    BY <2>2, <2>6, <2>7, EachTells
  <2>9. answer # Failed
    BY <2>8, TellingIsNoFailure
  <2> QED
    BY <1>1, <1>3, <2>8, <2>9 DEF AnswerRight
<1> QED
  BY <1>4, <1>5

\* The keys are those that were defined, numbered on from one.
KeysInv ==
  /\ \E w \in DOMAIN Worlds : world = Worlds[w]
  /\ engine \in Relational =>
       /\ {"constraints", "relations", "schemas"} \subseteq DOMAIN db
       /\ db.relations = world.db.relations /\ db.schemas = world.db.schemas
       /\ KeysKnown(engine, db)
       /\ \A c \in db.constraints : c.no \in 1..Cardinality(db.constraints)

LEMMA SameKeys ==
  ASSUME NEW e, NEW d, NEW b, b.relations = d.relations, b.schemas = d.schemas
  PROVE  /\ NamesOf(e, b) <=> NamesOf(e, d)
         /\ \A c : ForeignKeyOf(e, b, c) <=> ForeignKeyOf(e, d, c)
         /\ b.constraints = d.constraints => (KeysKnown(e, b) <=> KeysKnown(e, d))
<1>1. TablesOf(b) = TablesOf(d) /\ \A t : ColumnsOf(b, t) = ColumnsOf(d, t)
  BY DEF TablesOf, ColumnsOf, RelationAt
<1>2. NamesOf(e, b) <=> NamesOf(e, d)
  BY <1>1 DEF NamesOf
<1>3. \A c : ForeignKeyOf(e, b, c) <=> ForeignKeyOf(e, d, c)
  BY <1>1 DEF ForeignKeyOf
<1> QED
  BY <1>2, <1>3 DEF KeysKnown

LEMMA KeysAtStart == Init => KeysInv
<1> SUFFICES ASSUME Init PROVE KeysInv
  OBVIOUS
<1>1. PICK w \in DOMAIN Worlds : world = Worlds[w]
  BY DEF Init
<1>2. db = world.db
  BY DEF Init
<1>3. ASSUME engine \in Relational PROVE KeysOf(world)
  BY <1>1, <1>3, KeysGiven DEF engine
<1>4. ASSUME engine \in Relational
      PROVE  /\ {"constraints", "relations", "schemas"} \subseteq DOMAIN db
             /\ KeysKnown(engine, db) /\ db.constraints = {}
  <2>1. /\ {"constraints", "relations", "schemas"} \subseteq DOMAIN db
        /\ db.constraints = {} /\ NamesOf(engine, db)
    BY <1>2, <1>3, <1>4 DEF KeysOf, engine
  <2> QED
    BY <2>1, FS_EmptySet DEF KeysKnown
<1> QED
  BY <1>1, <1>2, <1>4 DEF KeysInv

\* A key that may be defined is numbered on and named apart.
LEMMA KeyDefined ==
  ASSUME KeysInv, NEW x \in world.changes, Define(x)
  PROVE  KeysInv'
<1>1. world' = world /\ engine' = engine
  BY DEF Define, engine
<1>2. PICK w \in DOMAIN Worlds : world = Worlds[w]
  BY DEF KeysInv
<1>3. SUFFICES ASSUME engine \in Relational
               PROVE  /\ {"constraints", "relations", "schemas"} \subseteq DOMAIN db'
                      /\ db'.relations = world.db.relations /\ db'.schemas = world.db.schemas
                      /\ KeysKnown(engine, db')
                      /\ \A c \in db'.constraints : c.no \in 1..Cardinality(db'.constraints)
  BY <1>1, <1>2 DEF KeysInv
<1>4. PICK C : C = db.constraints
  OBVIOUS
<1>5. PICK n : n = Cardinality(C)
  OBVIOUS
<1>6. PICK new : new = [x EXCEPT !.no = n + 1]
  OBVIOUS
<1>7. /\ {"constraints", "relations", "schemas"} \subseteq DOMAIN db
      /\ db.relations = world.db.relations /\ db.schemas = world.db.schemas
      /\ IsFiniteSet(C) /\ C \subseteq Constraint /\ KeysKnown(engine, db)
      /\ \A c \in C : c.no \in 1..n
  BY <1>3, <1>4, <1>5 DEF KeysInv, KeysKnown
<1>8. n \in Nat
  BY <1>5, <1>7, FS_CardinalityType
<1>9. /\ DOMAIN db' = DOMAIN db /\ db'.constraints = C \cup {new}
      /\ db'.relations = db.relations /\ db'.schemas = db.schemas
  BY <1>4, <1>5, <1>6, <1>7 DEF Define
<1>10. KeysOf(world)
  BY <1>2, <1>3, KeysGiven DEF engine
<1>11. x \in Constraint /\ (x.kind = "f" => ForeignKeyOf(engine, world.db, x))
  BY <1>10 DEF KeysOf, engine
<1>12. /\ new \in Constraint /\ new.no = n + 1 /\ new.kind = x.kind /\ new.name = x.name /\ new.at = x.at
       /\ new.cols = x.cols /\ new.refs = x.refs /\ new.target = x.target
  <2>1. new = [no |-> n + 1, kind |-> x.kind, name |-> x.name, at |-> x.at, cols |-> x.cols, more |-> x.more,
               index |-> x.index, target |-> x.target, refs |-> x.refs, strict |-> x.strict]
    BY <1>6, <1>11 DEF Constraint
  <2>2. /\ x.kind \in {"p", "u", "f", "c"} /\ x.name \in Int /\ x.at \in Int \X Int /\ x.cols \in Seq(Int)
        /\ x.more \in Seq(Int) /\ x.index \in Int /\ x.target \in Int \X Int /\ x.refs \in Seq(Int)
        /\ x.strict \in BOOLEAN
    BY <1>11 DEF Constraint
  <2>3. n + 1 \in Nat
    BY <1>8
  <2>4. new \in Constraint
    BY <2>1, <2>2, <2>3 DEF Constraint
  <2> QED
    BY <2>1, <2>4
<1>13. new \notin C
  BY <1>7, <1>8, <1>12
<1>14. IsFiniteSet(C \cup {new}) /\ Cardinality(C \cup {new}) = n + 1
  BY <1>5, <1>7, <1>13, FS_AddElement
<1>15. \A c \in C \cup {new} : c.no \in 1..(n + 1)
  BY <1>7, <1>8, <1>12
<1>16. \A b, c \in C \cup {new} : b.no = c.no => b = c
  <2>1. \A b, c \in C : b.no = c.no => b = c
    BY <1>4, <1>7 DEF KeysKnown
  <2>2. \A c \in C : c.no # new.no
    BY <1>7, <1>8, <1>12
  <2> QED
    BY <2>1, <2>2
<1>17. NamesOf(engine, db') /\ \A c : ForeignKeyOf(engine, db', c) <=> ForeignKeyOf(engine, db, c)
  BY <1>7, <1>9, SameKeys DEF KeysKnown
<1>18. \A c \in C \cup {new} : c.kind = "f" => ForeignKeyOf(engine, db', c)
  <2>1. \A c \in C : c.kind = "f" => ForeignKeyOf(engine, db, c)
    BY <1>4, <1>7 DEF KeysKnown
  <2>2. ASSUME new.kind = "f" PROVE ForeignKeyOf(engine, db, new)
    <3>1. ForeignKeyOf(engine, world.db, x)
      BY <1>11, <1>12, <2>2
    <3>2. ForeignKeyOf(engine, world.db, new)
      BY <1>12, <3>1 DEF ForeignKeyOf
    <3> QED
      BY <1>7, <3>2, SameKeys
  <2> QED
    BY <1>17, <2>1, <2>2
<1>19. ASSUME engine \in {"mysql", "mssql", "oracle"}
       PROVE  \A b, c \in C \cup {new} :
                (b.kind = "f" /\ c.kind = "f" /\ b.at[1] = c.at[1] /\ b.name = c.name) => b = c
  <2>1. \A b, c \in C : (b.kind = "f" /\ c.kind = "f" /\ b.at[1] = c.at[1] /\ b.name = c.name) => b = c
    BY <1>4, <1>7, <1>19 DEF KeysKnown
  <2>2. ASSUME NEW c \in C, c.kind = "f", new.kind = "f", c.at[1] = new.at[1], c.name = new.name PROVE FALSE
    <3>1. Permitted(x)
      BY DEF Define
    <3>2. \A d \in C : (x.kind = d.kind /\ Apart(x, d)) => x.name # d.name
      BY <1>4, <3>1 DEF Permitted
    <3>3. Apart(x, c)
      BY <1>12, <1>19, <2>2 DEF Apart
    <3> QED
      BY <1>12, <2>2, <3>2, <3>3
  <2> QED
    BY <2>1, <2>2
<1>20. KeysKnown(engine, db')
  BY <1>7, <1>9, <1>12, <1>14, <1>16, <1>17, <1>18, <1>19 DEF KeysKnown
<1> QED
  BY <1>7, <1>9, <1>14, <1>15, <1>20

\* What is known of the keys stays so while more are defined.
LEMMA KeysStay == Spec => []KeysInv
<1>1. KeysInv /\ [Next]_vars => KeysInv'
  <2> SUFFICES ASSUME KeysInv, [Next]_vars PROVE KeysInv'
    OBVIOUS
  <2>1. CASE world' = world /\ db' = db
    BY <2>1 DEF KeysInv, engine
  <2>2. ASSUME NEW x \in world.changes, Define(x) PROVE KeysInv'
    BY <2>2, KeyDefined
  <2>3. ASSUME NEW k, Retype(k) PROVE KeysInv'
    <3>1. PICK v : db' = [db EXCEPT !.types = v]
      BY <2>3 DEF Retype
    <3>2. world' = world /\ engine' = engine
      BY <2>3 DEF Retype, engine
    <3>3. CASE engine \in Relational
      <4>1. /\ {"constraints", "relations", "schemas"} \subseteq DOMAIN db
            /\ KeysKnown(engine, db)
        BY <3>3 DEF KeysInv
      <4>2. /\ DOMAIN db' = DOMAIN db /\ db'.constraints = db.constraints
            /\ db'.relations = db.relations /\ db'.schemas = db.schemas
        BY <3>1, <4>1
      <4>3. KeysKnown(engine, db')
        BY <4>1, <4>2, SameKeys
      <4> QED
        BY <3>2, <3>3, <4>2, <4>3 DEF KeysInv
    <3> QED
      BY <3>2, <3>3 DEF KeysInv
  <2>4. CASE User
    BY <2>1, <2>4 DEF User, Toggle, Refresh, EditTable, FilterKeys, EditRoutine, OpenRoutine, OpenStructure, Close
  <2>5. ASSUME NEW i, Answer(i) PROVE KeysInv'
    BY <2>1, <2>5 DEF Answer, Read, Refuse, OnNodes, OnRoutine, OnDone
  <2>6. CASE UNCHANGED vars
    BY <2>1, <2>6 DEF vars
  <2> QED
    BY <2>2, <2>3, <2>4, <2>5, <2>6 DEF Next
<1> QED
  BY <1>1, KeysAtStart, PTL DEF Spec

\* Whatever the engine, and whatever spelling of the table was asked for.
LEMMA AnswersRight ==
  ASSUME NEW e \in Relational, NEW d, KeysKnown(e, d), NEW t \in TablesOf(d), NEW asked, Spelled(asked, t),
         e \notin {"oracle", "sqlite"} => asked = t
  PROVE  AnswerRight(e, d, t, asked)
<1>1. CASE e = "postgres"
  BY <1>1, PostgresTells
<1>2. CASE e = "mysql"
  BY <1>2, MySqlTells
<1>3. CASE e = "mssql"
  BY <1>3, MsSqlTells
<1>4. CASE e = "oracle"
  BY <1>4, OracleTells
<1>5. CASE e = "duckdb"
  BY <1>5, DuckDbTells
<1>6. CASE e = "sqlite"
  BY <1>6, SqliteTells
<1> QED
  BY <1>1, <1>2, <1>3, <1>4, <1>5, <1>6 DEF Relational

\* A relationships answer holds each foreign key at either end of the table
\* once, its columns paired in their order, whatever keys are defined, between
\* whichever tables, and however the table was spelled (relationship_nodes and
\* each adapter's `relationships`).
THEOREM RelationshipsAreTrue == Spec => []RelationshipsTrue
<1>1. KeysInv => RelationshipsTrue
  <2> SUFFICES ASSUME KeysInv, NEW t \in Tables, NEW asked \in Spellings(t)
               PROVE  IF Relationships(engine, db, asked) = Failed
                      THEN engine \notin Relational \/ \E c \in Touching(db, t) : ~Resolvable(c)
                      ELSE /\ Len(Relationships(engine, db, asked)) = Cardinality(Touching(db, t))
                           /\ \A c \in Touching(db, t) : \E i \in DOMAIN Relationships(engine, db, asked) :
                                Says(Relationships(engine, db, asked)[i], db, c)
    BY DEF RelationshipsTrue, Says
  <2>1. PICK answer : answer = Relationships(engine, db, asked)
    OBVIOUS
  <2>2. CASE engine \notin Relational
    <3>1. answer = Failed
      BY <2>1, <2>2 DEF Relational, Relationships
    <3> QED
      BY <2>1, <2>2, <3>1
  <2>3. CASE engine \in Relational
    <3>1. Spelled(asked, t) /\ (engine \notin {"oracle", "sqlite"} => asked = t)
      BY DEF Spellings, Spelled
    <3>2. AnswerRight(engine, db, t, asked)
      BY <2>3, <3>1, AnswersRight DEF KeysInv, Tables
    <3>3. CASE answer = Failed
      BY <2>1, <3>2, <3>3 DEF AnswerRight, Resolvable
    <3>4. CASE answer # Failed
      <4>1. PICK S : S = Touching(db, t)
        OBVIOUS
      <4>2. Tells(answer, db, S)
        BY <2>1, <3>2, <3>4, <4>1 DEF AnswerRight
      <4>3. IsFiniteSet(S)
        BY <2>3, <4>1, TouchingKnown DEF KeysInv
      <4>4. PICK n \in Nat : n = Cardinality(S)
        BY <4>3, FS_CardinalityType
      <4>5. PICK q \in Bijection(1..n, S) :
              DOMAIN answer = 1..n /\ \A k \in 1..n : Says(answer[k], db, q[k])
        BY <4>2, <4>4 DEF Tells
      <4>6. Len(answer) = n
        BY <4>2, <4>5 DEF Tells
      <4>7. ASSUME NEW c \in S PROVE \E i \in DOMAIN answer : Says(answer[i], db, c)
        <5>1. PICK i \in 1..n : q[i] = c
          BY DEF Bijection, Surjection
        <5> QED
          BY <4>5, <5>1
      <4> QED
        BY <2>1, <3>4, <4>1, <4>4, <4>6, <4>7
    <3> QED
      BY <3>3, <3>4
  <2> QED
    BY <2>2, <2>3
<1> QED
  BY <1>1, KeysStay, PTL

\* Every key of an answer points at as many columns as it has.
LEMMA AllResolved ==
  ASSUME NEW e \in Relational, NEW d, KeysKnown(e, d), NEW t \in TablesOf(d), NEW asked, Spelled(asked, t),
         Relationships(e, d, asked) # Failed, NEW c \in Touching(d, t)
  PROVE  Len(Referenced(d, c)) = Len(c.cols)
<1>1. ForeignKeyOf(e, d, c) /\ c \in Constraint /\ c.cols # <<>>
  BY TouchingKnown
<1>2. CASE e = "sqlite"
  <2>1. Relationships(e, d, asked) = SqliteNodes(d, Touching(d, t))
    BY <1>2, SqliteAnswers
  <2> QED
    BY <2>1 DEF SqliteNodes
<1>3. CASE e # "sqlite"
  <2>1. Len(c.refs) = Len(c.cols)
    BY <1>1, <1>3 DEF ForeignKeyOf
  <2>2. Shaped(c)
    BY <1>1, TypedShape
  <2>3. c.refs # <<>>
    BY <2>1, <2>2 DEF Shaped
  <2> QED
    BY <2>1, <2>3 DEF Referenced
<1> QED
  BY <1>2, <1>3

\* The ends of the keys touching a table, and the one that is the table asked for.
EndsOf(S) == UNION {{c.at, c.target} : c \in S}
\* Only the table asked for is spelled as it was asked for.
LEMMA SpelledEnds ==
  ASSUME NEW e \in Relational, NEW d, KeysKnown(e, d), NEW t \in TablesOf(d), NEW asked, Spelled(asked, t),
         NEW u \in EndsOf(Touching(d, t)),
         e \notin {"oracle", "sqlite"} => asked = t
  PROVE  /\ u = asked => u = t
         /\ e = "oracle" /\ asked # t => (u = UpperOf(asked) => u = t)
         /\ e = "sqlite" => (SameIgnoringCase(u, asked) => u = t)
<1>1. t \in Int \X Int
  BY DEF KeysKnown, NamesOf
<1>2. UpperOf(asked) = UpperOf(t) /\ (asked # t => UpperOf(asked) = t)
  BY <1>1, SpellingFolds
<1>3. PICK c \in Touching(d, t) : u = c.at \/ u = c.target
  BY DEF EndsOf
<1>4. ForeignKeyOf(e, d, c)
  BY TouchingKnown
<1>5. ASSUME e \in {"oracle", "sqlite"}, u \in TablesOf(d), SameIgnoringCase(u, t) PROVE u = t
  <2>1. PICK r \in d.relations : r.kind = "table" /\ r.at = t
    BY DEF TablesOf
  <2>2. PICK q \in d.relations : q.kind = "table" /\ q.at = u
    BY <1>5 DEF TablesOf
  <2>3. r.kind # "sequence" /\ q.kind # "sequence" /\ SameIgnoringCase(q.at, r.at)
    BY <1>5, <2>1, <2>2
  <2>4. \A p, s \in d.relations : (p.kind # "sequence" /\ s.kind # "sequence" /\ SameIgnoringCase(p.at, s.at)) => p.at = s.at
    BY <1>5 DEF KeysKnown, NamesOf
  <2> QED
    BY <2>1, <2>2, <2>3, <2>4
<1>6. CASE e = "oracle"
  <2>1. u \in TablesOf(d)
    BY <1>3, <1>4, <1>6 DEF ForeignKeyOf
  <2>2. u = asked => u = t
    BY <1>2, <1>5, <1>6, <2>1 DEF SameIgnoringCase
  <2>3. asked # t => (u = UpperOf(asked) => u = t)
    BY <1>2
  <2> QED
    BY <1>6, <2>2, <2>3
<1>7. CASE e = "sqlite"
  <2>1. SameIgnoringCase(u, asked) => SameIgnoringCase(u, t)
    BY <1>2 DEF SameIgnoringCase
  <2>2. CASE u = c.at
    BY <1>4, <1>5, <1>7, <2>1, <2>2 DEF ForeignKeyOf, SameIgnoringCase
  <2>3. CASE u = c.target
    <3>1. SameIgnoringCase(t, u) => t = u
      BY <1>4, <1>7, <2>3 DEF ForeignKeyOf
    <3> QED
      BY <1>7, <2>1, <3>1 DEF SameIgnoringCase
  <2> QED
    BY <1>3, <2>2, <2>3
<1>8. CASE e \notin {"oracle", "sqlite"}
  BY <1>8
<1> QED
  BY <1>6, <1>7, <1>8

\* The ends an answer names are those of its keys.
LEMMA AnswerEnds ==
  ASSUME NEW answer, NEW d, NEW S, NEW n, NEW q \in Bijection(1..n, S),
         DOMAIN answer = 1..n, \A k \in 1..n : Says(answer[k], d, q[k])
  PROVE  UNION {{answer[i].source, answer[i].target} : i \in DOMAIN answer} = EndsOf(S)
<1>1. \A k \in 1..n : q[k] \in S /\ answer[k].source = q[k].at /\ answer[k].target = q[k].target
  BY DEF Says, Bijection, Injection
<1>2. \A c \in S : \E k \in 1..n : q[k] = c
  BY DEF Bijection, Surjection
<1> QED
  BY <1>1, <1>2 DEF EndsOf

\* The table asked for is known again in the answer, where it has any key.
LEMMA Identity ==
  ASSUME NEW e \in Relational, NEW d, KeysKnown(e, d), NEW t \in TablesOf(d), NEW asked, Spelled(asked, t),
         e \notin {"oracle", "sqlite"} => asked = t,
         NEW answer, NEW n, NEW q \in Bijection(1..n, Touching(d, t)),
         DOMAIN answer = 1..n, \A k \in 1..n : Says(answer[k], d, q[k]),
         Touching(d, t) # {}
  PROVE  ResolvedIdentity(e, asked, answer) = t
<1>1. PICK ends : ends = UNION {{answer[i].source, answer[i].target} : i \in DOMAIN answer}
  OBVIOUS
<1>2. ends = EndsOf(Touching(d, t))
  BY <1>1, AnswerEnds
<1>3. t \in ends
  BY <1>2 DEF EndsOf, Touching
<1>4. PICK like : like = {u \in ends : CASE e = "oracle" -> u = UpperOf(asked)
                                         [] e \in {"sqlite", "mssql", "mysql"} -> SameIgnoringCase(u, asked)
                                         [] OTHER -> FALSE}
  OBVIOUS
<1>5. ResolvedIdentity(e, asked, answer) = IF asked \in ends \/ like = {} THEN asked ELSE CHOOSE u \in like : TRUE
  BY <1>1, <1>4 DEF ResolvedIdentity
<1>6. asked \in ends => asked = t
  BY <1>2, SpelledEnds
<1>7. CASE asked \in ends
  BY <1>5, <1>6, <1>7
<1>8. CASE asked \notin ends
  <2>1. asked # t /\ e \in {"oracle", "sqlite"}
    BY <1>3, <1>8
  <2>2. t \in Int \X Int
    BY DEF KeysKnown, NamesOf
  <2>3. UpperOf(asked) = UpperOf(t) /\ UpperOf(asked) = t
    BY <2>1, <2>2, SpellingFolds
  <2>4. \A u \in ends : u \in like <=> (IF e = "oracle" THEN u = UpperOf(asked) ELSE SameIgnoringCase(u, asked))
    BY <1>4, <2>1
  <2>5. t \in like
    BY <1>3, <2>3, <2>4 DEF SameIgnoringCase
  <2>6. \A u \in ends : u \in like => u = t
    BY <1>2, <2>1, <2>4, SpelledEnds
  <2>7. like = {t}
    BY <1>4, <2>5, <2>6
  <2> QED
    BY <1>5, <1>8, <2>7
<1> QED
  BY <1>7, <1>8


\* One thing told, by f, of each member of G, found by its place in q.
Images(f, J) == {f[i] : i \in J}
PlacesIn(q, n, G) == {i \in 1..n : q[i] \in G}
OneEach(f, J) == f = [i \in J |-> f[i]] /\ \A i, j \in J : f[i] = f[j] => i = j
LEMMA CountedAlong ==
  ASSUME NEW S, NEW n \in Nat, NEW q \in Bijection(1..n, S), NEW G \in SUBSET S,
         NEW f, OneEach(f, PlacesIn(q, n, G))
  PROVE  Cardinality(Images(f, PlacesIn(q, n, G))) = Cardinality(G)
<1>0. PICK J : J = {i \in 1..n : q[i] \in G} /\ f = [i \in J |-> f[i]] /\ \A i, j \in J : f[i] = f[j] => i = j
  BY DEF OneEach, PlacesIn
<1>1. PICK F : F = {f[i] : i \in J}
  OBVIOUS
<1>2. IsFiniteSet(1..n)
  <2>1. n \in Int /\ 1 \in Int
    OBVIOUS
  <2> QED
    BY <2>1, FS_Interval, Zenon
<1>3. J \in SUBSET (1..n)
  BY <1>0
<1>4. IsFiniteSet(J)
  BY <1>2, <1>3, FS_Subset
<1>5. f \in Bijection(J, F)
  <2>1. f \in [J -> F]
    BY <1>0, <1>1
  <2>2. \A y \in F : \E i \in J : f[i] = y
    BY <1>1
  <2> QED
    BY <1>0, <2>1, <2>2 DEF Bijection, Injection, IsInjective, Surjection
<1>6. PICK g : g = [i \in J |-> q[i]]
  OBVIOUS
<1>7. /\ \A i \in 1..n : q[i] \in S
      /\ \A i, j \in 1..n : q[i] = q[j] => i = j
      /\ \A c \in S : \E i \in 1..n : q[i] = c
  BY DEF Bijection, Injection, IsInjective, Surjection
<1>8. g \in Bijection(J, G)
  <2>1. g \in [J -> G]
    BY <1>0, <1>6
  <2>2. \A i, j \in J : g[i] = g[j] => i = j
    BY <1>0, <1>6, <1>7
  <2>3. \A c \in G : \E i \in J : g[i] = c
    BY <1>0, <1>6, <1>7
  <2> QED
    BY <2>1, <2>2, <2>3 DEF Bijection, Injection, IsInjective, Surjection
<1>9. Cardinality(F) = Cardinality(J) /\ Cardinality(G) = Cardinality(J)
  BY <1>4, <1>5, <1>8, FS_Bijection DEF ExistsBijection
<1> QED
  BY <1>0, <1>1, <1>9 DEF Images, PlacesIn

\* A column called by a name, the key's columns at one end, and what a cell leads
\* along and asks for, of any database.
CallsIn(e, column, name) == column = name \/ (e = "sqlite" /\ Upper(column) = Upper(name))
Here(outgoing, k, d) == IF outgoing THEN k.cols ELSE Referenced(d, k)
LeadsIn(e, cols, usable, i, here) ==
  /\ \E x \in DOMAIN here : CallsIn(e, cols[i], here[x])
  /\ \A x \in DOMAIN here : \E j \in usable : CallsIn(e, cols[j], here[x])
MatchedIn(e, cols, shows, here, there) ==
  {<<p[1], there[p[2]]>> : p \in {q \in shows \X DOMAIN here : CallsIn(e, cols[q[1]], here[q[2]])}}
Goals(e, d, t, outgoing, i, usable) ==
  {k \in Touching(d, t) : /\ t = IF outgoing THEN k.at ELSE k.target
                          /\ LeadsIn(e, ColumnsOf(d, t), usable, i, Here(outgoing, k, d))}
Reached(found, goals, e, d, t, outgoing, shows) ==
  /\ Cardinality(found) = Cardinality(goals)
  /\ \A k \in goals : \E f \in found :
       /\ f.table = IF outgoing THEN k.target ELSE k.at
       /\ f.where = MatchedIn(e, ColumnsOf(d, t), shows, Here(outgoing, k, d), Here(~outgoing, k, d))

\* A result that shows some columns of a table, each named in either case, and a
\* key that calls a column of the table as it calls no other of them.
ShownAs(cols, shows, names) ==
  /\ cols \in Seq(Int) /\ shows \subseteq DOMAIN cols /\ DOMAIN names = shows
  /\ \A i, j \in DOMAIN cols : Upper(cols[i]) = Upper(cols[j]) => i = j
  /\ \A j \in shows : Upper(names[j]) = Upper(cols[j])
SpelledOnce(e, cols, here) ==
  \A x \in DOMAIN here, j \in DOMAIN cols : CallsIn(e, cols[j], here[x]) <=> Upper(cols[j]) = Upper(here[x])

\* A key of which the result has every column, none staged, with the cell's own
\* among them; and the cells its columns are matched with.
AllShown(names, here) == \A x \in DOMAIN here : PlacesOf(names, here[x]) # {}
MatchesBy(names, staged, i, here) ==
  /\ i \notin staged
  /\ \E x \in DOMAIN here : Upper(here[x]) = Upper(names[i])
  /\ AllShown(names, here)
  /\ \A x \in DOMAIN here : ColumnIndex(names, here[x]) \notin staged
WhereBy(names, here, there) == {<<ColumnIndex(names, here[x]), there[x]>> : x \in DOMAIN here}

LEMMA KeyTold ==
  ASSUME NEW e \in Relational, NEW d, KeysKnown(e, d), NEW t \in TablesOf(d), NEW c \in Touching(d, t),
         NEW outgoing \in BOOLEAN, t = IF outgoing THEN c.at ELSE c.target
  PROVE  SpelledOnce(e, ColumnsOf(d, t), Here(outgoing, c, d))
<1>1. PICK cols : cols = ColumnsOf(d, t)
  OBVIOUS
<1>2. \A i, j \in DOMAIN cols : Upper(cols[i]) = Upper(cols[j]) => i = j
  BY <1>1 DEF KeysKnown, NamesOf
<1>3. PICK here : here = Here(outgoing, c, d)
  OBVIOUS
<1>4. CASE e = "sqlite"
  BY <1>1, <1>3, <1>4 DEF SpelledOnce, CallsIn
<1>5. CASE e # "sqlite"
  <2>1. /\ c \in Constraint /\ c.cols # <<>> /\ Len(c.refs) = Len(c.cols)
        /\ Elements(c.cols) \subseteq Elements(ColumnsOf(d, c.at))
        /\ Elements(c.refs) \subseteq Elements(ColumnsOf(d, c.target))
    BY <1>5, TouchingKnown DEF ForeignKeyOf
  <2>2. c.refs # <<>>
    BY <2>1, TypedShape DEF Shaped
  <2>3. Elements(here) \subseteq Elements(cols)
    BY <1>1, <1>3, <2>1, <2>2 DEF Here, Referenced
  <2>4. ASSUME NEW x \in DOMAIN here, NEW j \in DOMAIN cols
        PROVE  CallsIn(e, cols[j], here[x]) <=> Upper(cols[j]) = Upper(here[x])
    <3>1. PICK k \in DOMAIN cols : cols[k] = here[x]
      BY <2>3 DEF Elements
    <3>2. Upper(cols[j]) = Upper(here[x]) => cols[j] = here[x]
      BY <1>2, <3>1
    <3> QED
      BY <1>5, <3>2 DEF CallsIn
  <2> QED
    BY <1>1, <1>3, <2>4 DEF SpelledOnce
<1> QED
  BY <1>4, <1>5

\* A name is looked for where the one column is that it may mean.
LEMMA PlaceIs ==
  ASSUME NEW cols, NEW shows, NEW names, ShownAs(cols, shows, names), NEW name, NEW j \in shows,
         Upper(cols[j]) = Upper(name)
  PROVE  PlacesOf(names, name) = {j} /\ ColumnIndex(names, name) = j
<1>1. PlacesOf(names, name) = {j}
  BY DEF PlacesOf, ShownAs
<1>2. j \in Nat
  BY DEF ShownAs
<1>3. j \in {j} /\ \A y \in {j} : j =< y
  BY <1>2
<1>4. Min({j}) = j
  BY <1>3 DEF Min
<1> QED
  BY <1>1, <1>4 DEF ColumnIndex

\* A key is matched, whole and unstaged, just where the cell leads along it.
LEMMA MatchesLead ==
  ASSUME NEW e, NEW cols, NEW shows, NEW names, ShownAs(cols, shows, names), NEW here, SpelledOnce(e, cols, here),
         NEW i \in shows, NEW staged \in SUBSET shows
  PROVE  LeadsIn(e, cols, shows \ staged, i, here) <=> MatchesBy(names, staged, i, here)
<1>1. /\ shows \subseteq DOMAIN cols /\ DOMAIN names = shows /\ \A j \in shows : Upper(names[j]) = Upper(cols[j])
      /\ \A k, j \in DOMAIN cols : Upper(cols[k]) = Upper(cols[j]) => k = j
  BY DEF ShownAs
<1>2. \A x \in DOMAIN here, j \in shows : CallsIn(e, cols[j], here[x]) <=> Upper(cols[j]) = Upper(here[x])
  BY <1>1 DEF SpelledOnce
<1>3. ASSUME NEW x \in DOMAIN here
      PROVE  (\E j \in shows \ staged : CallsIn(e, cols[j], here[x]))
               <=> PlacesOf(names, here[x]) # {} /\ ColumnIndex(names, here[x]) \notin staged
  <2>1. ASSUME NEW j \in shows, Upper(cols[j]) = Upper(here[x])
        PROVE  PlacesOf(names, here[x]) # {} /\ ColumnIndex(names, here[x]) = j
    BY <2>1, PlaceIs
  <2>2. ASSUME PlacesOf(names, here[x]) # {} PROVE \E j \in shows : Upper(cols[j]) = Upper(here[x])
    BY <1>1, <2>2 DEF PlacesOf
  <2> QED
    BY <1>2, <2>1, <2>2
<1>4. ASSUME LeadsIn(e, cols, shows \ staged, i, here) PROVE i \notin staged
  <2>1. PICK x \in DOMAIN here : Upper(cols[i]) = Upper(here[x])
    BY <1>2, <1>4 DEF LeadsIn
  <2>2. PICK j \in shows \ staged : Upper(cols[j]) = Upper(here[x])
    BY <1>2, <1>4, <2>1 DEF LeadsIn
  <2>3. i = j
    BY <1>1, <2>1, <2>2
  <2> QED
    BY <2>2, <2>3
<1>5. \A x \in DOMAIN here : CallsIn(e, cols[i], here[x]) <=> Upper(here[x]) = Upper(names[i])
  BY <1>1, <1>2
<1> QED
  BY <1>3, <1>4, <1>5 DEF LeadsIn, MatchesBy, AllShown

\* What the rows at the other end are asked for is each column's own cell.
LEMMA WhereIs ==
  ASSUME NEW e, NEW cols, NEW shows, NEW names, ShownAs(cols, shows, names), NEW here, SpelledOnce(e, cols, here), NEW there,
         AllShown(names, here)
  PROVE  WhereBy(names, here, there) = MatchedIn(e, cols, shows, here, there)
<1>1. /\ shows \subseteq DOMAIN cols /\ DOMAIN names = shows /\ \A j \in shows : Upper(names[j]) = Upper(cols[j])
  BY DEF ShownAs
<1>2. \A x \in DOMAIN here, j \in shows : CallsIn(e, cols[j], here[x]) <=> Upper(cols[j]) = Upper(here[x])
  BY <1>1 DEF SpelledOnce
<1>3. ASSUME NEW x \in DOMAIN here
      PROVE  <<ColumnIndex(names, here[x]), there[x]>> \in MatchedIn(e, cols, shows, here, there)
  <2>1. PICK j \in shows : Upper(cols[j]) = Upper(here[x])
    BY <1>1 DEF PlacesOf, AllShown
  <2>2. ColumnIndex(names, here[x]) = j
    BY <2>1, PlaceIs
  <2>3. PICK p : p = <<j, x>>
    OBVIOUS
  <2>4. p \in shows \X DOMAIN here /\ p[1] = j /\ p[2] = x /\ CallsIn(e, cols[p[1]], here[p[2]])
    BY <1>2, <2>1, <2>3
  <2> QED
    BY <2>2, <2>4 DEF MatchedIn
<1>4. ASSUME NEW y \in MatchedIn(e, cols, shows, here, there)
      PROVE  \E x \in DOMAIN here : y = <<ColumnIndex(names, here[x]), there[x]>>
  <2>1. PICK p \in shows \X DOMAIN here : CallsIn(e, cols[p[1]], here[p[2]]) /\ y = <<p[1], there[p[2]]>>
    BY <1>4 DEF MatchedIn
  <2>2. p[1] \in shows /\ p[2] \in DOMAIN here /\ Upper(cols[p[1]]) = Upper(here[p[2]])
    BY <1>2, <2>1
  <2>3. ColumnIndex(names, here[p[2]]) = p[1]
    BY <2>2, PlaceIs
  <2> QED
    BY <2>1, <2>2, <2>3
<1> QED
  BY <1>3, <1>4 DEF WhereBy

\* What a cell is followed to is what each of the keys it may follow leads to.
LEMMA FollowedRight ==
  ASSUME NEW e \in Relational, NEW d, KeysKnown(e, d), NEW t \in TablesOf(d), NEW asked, Spelled(asked, t),
         e \notin {"oracle", "sqlite"} => asked = t,
         NEW answer, answer = Relationships(e, d, asked), answer # Failed,
         NEW shows, NEW names, ShownAs(ColumnsOf(d, t), shows, names), NEW staged \in SUBSET shows,
         NEW column \in shows, NEW outgoing \in BOOLEAN
  PROVE  Reached(Followed(e, asked, answer, column, outgoing, names, staged),
                 Goals(e, d, t, outgoing, column, shows \ staged), e, d, t, outgoing, shows)
<1>0. PICK table : table = ColumnsOf(d, t) /\ ShownAs(table, shows, names)
  OBVIOUS
<1>1. PICK S : S = Touching(d, t)
  OBVIOUS
<1>2. IsFiniteSet(S) /\ S \subseteq Constraint
  BY <1>1, TouchingKnown
<1>3. PICK n \in Nat : n = Cardinality(S)
  BY <1>2, FS_CardinalityType
<1>4. Tells(answer, d, S)
  BY <1>1, AnswersRight DEF AnswerRight
<1>5. PICK q \in Bijection(1..n, S) : DOMAIN answer = 1..n /\ \A k \in 1..n : Says(answer[k], d, q[k])
  BY <1>3, <1>4 DEF Tells
<1>6. /\ \A i \in 1..n : q[i] \in S
      /\ \A c \in S : \E i \in 1..n : q[i] = c
  BY DEF Bijection, Injection, Surjection
<1>7. PICK G : G = Goals(e, d, t, outgoing, column, shows \ staged)
  OBVIOUS
<1>8. G \in SUBSET S
  BY <1>1, <1>7 DEF Goals
<1> DEFINE self == ResolvedIdentity(e, asked, answer)
           here(k) == IF outgoing THEN k.source ELSE k.target
           cols(k) == IF outgoing THEN k.columns ELSE k.referenced
           there(k) == IF outgoing THEN k.referenced ELSE k.columns
           holds(k) == \E x \in DOMAIN cols(k) : Upper(cols(k)[x]) = Upper(names[column])
           complete(k) == /\ DOMAIN cols(k) \subseteq DOMAIN there(k)
                          /\ \A x \in DOMAIN cols(k) : PlacesOf(names, cols(k)[x]) # {}
           unstaged(k) == \A x \in DOMAIN cols(k) : ColumnIndex(names, cols(k)[x]) \notin staged
           matches == {k \in DOMAIN answer : /\ here(answer[k]) = self /\ holds(answer[k])
                                             /\ complete(answer[k]) /\ unstaged(answer[k])}
           good == IF column \in staged THEN {} ELSE matches
           to(i) == [table |-> IF outgoing THEN answer[i].target ELSE answer[i].source, no |-> i,
                     where |-> {<<ColumnIndex(names, cols(answer[i])[x]), there(answer[i])[x]>> :
                                  x \in DOMAIN cols(answer[i])}]
<1>9. PICK found : found = Followed(e, asked, answer, column, outgoing, names, staged)
  OBVIOUS
<1>10. found = {to(i) : i \in good}
  BY <1>9 DEF Followed
<1>11. ASSUME NEW i \in 1..n
       PROVE  /\ here(answer[i]) = IF outgoing THEN q[i].at ELSE q[i].target
              /\ cols(answer[i]) = Here(outgoing, q[i], d) /\ there(answer[i]) = Here(~outgoing, q[i], d)
              /\ to(i).table = (IF outgoing THEN q[i].target ELSE q[i].at)
  <2>1. /\ answer[i].source = q[i].at /\ answer[i].target = q[i].target
        /\ answer[i].columns = q[i].cols /\ answer[i].referenced = Referenced(d, q[i])
    BY <1>5 DEF Says
  <2>2. to(i).table = IF outgoing THEN answer[i].target ELSE answer[i].source
    OBVIOUS
  <2>3. CASE outgoing
    BY <2>1, <2>2, <2>3 DEF Here
  <2>4. CASE ~outgoing
    BY <2>1, <2>2, <2>4 DEF Here
  <2> QED
    BY <2>3, <2>4
<1>12. ASSUME NEW i \in 1..n
       PROVE  DOMAIN Here(outgoing, q[i], d) = DOMAIN Here(~outgoing, q[i], d)
  <2>1. PICK c \in S : c = q[i]
    BY <1>6
  <2>2. Len(Referenced(d, c)) = Len(c.cols)
    BY <1>1, AllResolved
  <2>3. c.cols \in Seq(Int)
    BY <1>2, Typed
  <2>4. Referenced(d, c) \in Seq(Int)
    <3>1. d.constraints \subseteq Constraint
      BY DEF KeysKnown
    <3> QED
      BY <1>2, <3>1, Typed, KeyColumns DEF Referenced
  <2>5. DOMAIN c.cols = DOMAIN Referenced(d, c)
    BY <2>2, <2>3, <2>4
  <2> QED
    BY <2>1, <2>5 DEF Here
<1>13. ASSUME S # {} PROVE self = t
  BY <1>1, <1>5, <1>13, Identity
<1>14. ASSUME NEW i \in 1..n
       PROVE  i \in good <=> q[i] \in G
  <2>1. PICK c \in S : c = q[i]
    BY <1>6
  <2>2. self = t
    BY <1>13
  <2>3. PICK h : h = Here(outgoing, c, d)
    OBVIOUS
  <2>4. i \in good <=> (IF outgoing THEN c.at ELSE c.target) = t /\ MatchesBy(names, staged, column, h)
    BY <1>5, <1>11, <1>12, <2>1, <2>2, <2>3 DEF MatchesBy, AllShown
  <2>5. PICK end : end = IF outgoing THEN c.at ELSE c.target
    OBVIOUS
  <2>6. c \in G <=> t = end /\ LeadsIn(e, table, shows \ staged, column, h)
    BY <1>0, <1>1, <1>7, <2>3, <2>5 DEF Goals
  <2>7. ASSUME t = end
        PROVE  LeadsIn(e, table, shows \ staged, column, h) <=> MatchesBy(names, staged, column, h)
    <3>1. SpelledOnce(e, table, h)
      BY <1>0, <1>1, <2>3, <2>5, <2>7, KeyTold
    <3> HIDE DEF self, here, cols, there, holds, complete, unstaged, matches, good, to
    <3> QED
      BY <1>0, <3>1, MatchesLead
  <2> HIDE DEF self, here, cols, there, holds, complete, unstaged, matches, good, to
  <2>8. i \in good <=> t = end /\ LeadsIn(e, table, shows \ staged, column, h)
    BY <2>4, <2>5, <2>7
  <2> QED
    BY <2>1, <2>6, <2>8
<1>15. ASSUME NEW i \in 1..n, q[i] \in G
       PROVE  to(i).where = MatchedIn(e, ColumnsOf(d, t), shows, Here(outgoing, q[i], d), Here(~outgoing, q[i], d))
  <2>1. PICK c \in S : c = q[i]
    BY <1>6
  <2>2. PICK h, o : h = Here(outgoing, c, d) /\ o = Here(~outgoing, c, d)
    OBVIOUS
  <2>3. SpelledOnce(e, table, h)
    BY <1>0, <1>1, <1>7, <1>15, <2>1, <2>2, KeyTold DEF Goals
  <2>4. LeadsIn(e, table, shows \ staged, column, h)
    BY <1>0, <1>7, <1>15, <2>1, <2>2 DEF Goals
  <2>5. to(i).where = WhereBy(names, h, o)
    BY <1>11, <2>1, <2>2 DEF WhereBy
  <2> HIDE DEF self, here, cols, there, holds, complete, unstaged, matches, good, to
  <2>6. AllShown(names, h)
    <3>1. MatchesBy(names, staged, column, h)
      BY <1>0, <2>3, <2>4, MatchesLead
    <3> QED
      BY <3>1 DEF MatchesBy
  <2>7. WhereBy(names, h, o) = MatchedIn(e, table, shows, h, o)
    BY <1>0, <2>3, <2>6, WhereIs
  <2> QED
    BY <1>0, <2>1, <2>2, <2>5, <2>7
<1>16. PICK J : J = {i \in 1..n : q[i] \in G}
  OBVIOUS
<1>17. good = J
  BY <1>5, <1>14, <1>16
<1>18. PICK f : f = [i \in J |-> to(i)]
  OBVIOUS
<1>19. \A i \in J : f[i].no = i /\ f[i] = to(i)
  BY <1>18
<1> HIDE DEF self, here, cols, there, holds, complete, unstaged, matches, good, to
<1>20. found = {f[i] : i \in J}
  BY <1>10, <1>17, <1>19
<1>21. Cardinality(found) = Cardinality(G)
  <2>1. f = [i \in J |-> f[i]]
    BY <1>18
  <2>2. \A i, j \in J : f[i] = f[j] => i = j
    BY <1>19
  <2>3. J = PlacesIn(q, n, G) /\ OneEach(f, J) /\ found = Images(f, J)
    BY <1>16, <1>20, <2>1, <2>2 DEF PlacesIn, OneEach, Images
  <2> QED
    BY <1>8, <2>3, CountedAlong
<1>22. ASSUME NEW k \in G
       PROVE  \E g \in found :
                /\ g.table = IF outgoing THEN k.target ELSE k.at
                /\ g.where = MatchedIn(e, ColumnsOf(d, t), shows, Here(outgoing, k, d), Here(~outgoing, k, d))
  <2>1. PICK i \in 1..n : q[i] = k
    BY <1>6, <1>8
  <2>2. i \in J
    BY <1>16, <2>1
  <2>3. f[i] \in found /\ f[i] = to(i)
    BY <1>19, <1>20, <2>2
  <2> QED
    BY <1>11, <1>15, <2>1, <2>3
<1> QED
  BY <1>7, <1>9, <1>21, <1>22 DEF Reached

\* gd and gr lead from a cell to the rows of every foreign key of its column that
\* the result shows whole and unedited, and to no other, along all the key's
\* columns, whatever case the result and the key spell a column in and from
\* whatever spelling of the table (resolved_identity, handle_drilldown).
THEOREM FollowingIsTrue == Spec => []FollowsTrue
<1>1. KeysInv => FollowsTrue
  <2> SUFFICES ASSUME KeysInv, NEW t \in Tables, NEW asked \in Spellings(t),
                      Relationships(engine, db, asked) # Failed,
                      NEW shows \in SUBSET DOMAIN ColumnsOf(db, t), NEW recased \in {{}, shows},
                      NEW staged \in SUBSET shows, NEW i \in shows, NEW outgoing \in BOOLEAN
               PROVE  Reaches(Followed(engine, asked, Relationships(engine, db, asked), i, outgoing,
                                       Spelling(ColumnsOf(db, t), shows, recased), staged),
                              Leading(t, outgoing, i, shows \ staged), t, outgoing, shows)
    BY DEF FollowsTrue
  <2>0. PICK names : names = Spelling(ColumnsOf(db, t), shows, recased)
    OBVIOUS
  <2>1. engine \in Relational
    BY DEF Relational, Relationships
  <2>2. Spelled(asked, t) /\ (engine \notin {"oracle", "sqlite"} => asked = t)
    BY DEF Spellings, Spelled
  <2>3. KeysKnown(engine, db) /\ t \in TablesOf(db)
    BY <2>1 DEF KeysInv, Tables
  <2>4. PICK cols : cols = ColumnsOf(db, t)
    OBVIOUS
  <2>5. cols \in Seq(Int) /\ \A j, k \in DOMAIN cols : Upper(cols[j]) = Upper(cols[k]) => j = k
    BY <2>3, <2>4 DEF KeysKnown, NamesOf
  <2>6. ASSUME NEW j \in shows PROVE Upper(names[j]) = Upper(cols[j])
    <3>1. PICK c \in Int : c = cols[j]
      BY <2>4, <2>5
    <3>2. Upper(OtherCase(c)) = Upper(c)
      BY DEF Upper, OtherCase
    <3> QED
      BY <2>0, <2>4, <3>1, <3>2 DEF Spelling
  <2>7. ShownAs(cols, shows, names)
    BY <2>0, <2>4, <2>5, <2>6 DEF ShownAs, Spelling
  <2>8. PICK found, goals : /\ found = Followed(engine, asked, Relationships(engine, db, asked), i, outgoing, names, staged)
                            /\ goals = Goals(engine, db, t, outgoing, i, shows \ staged)
    OBVIOUS
  <2>9. Reached(found, goals, engine, db, t, outgoing, shows)
    BY <2>1, <2>2, <2>3, <2>4, <2>7, <2>8, FollowedRight
  <2>10. goals = Leading(t, outgoing, i, shows \ staged)
    BY <2>8 DEF Goals, Leading, LeadsIn, Leads, CallsIn, Calls, Here, HereOf
  <2>11. \A k, b : Here(b, k, db) = HereOf(b, k)
    BY DEF Here, HereOf
  <2>12. \A here, there : MatchedIn(engine, cols, shows, here, there) = Matched(cols, shows, here, there)
    BY DEF MatchedIn, Matched, CallsIn, Calls
  <2>13. Reaches(found, goals, t, outgoing, shows)
    BY <2>4, <2>9, <2>11, <2>12 DEF Reached, Reaches
  <2> QED
    BY <2>0, <2>8, <2>10, <2>13
<1> QED
  BY <1>1, KeysStay, PTL
===============================================================================
