---------------------------- MODULE IntakeProofs ----------------------------
(***************************************************************************)
(* Theorems of what a visitor gives before there is a website.             *)
(*                                                                         *)
(* Of Autosave: a save takes nothing out of a row that its own tab still   *)
(* shows, a tab that holds itself for saved is, and a submitted row keeps  *)
(* what was submitted, but for the edits of outrun, which there are only   *)
(* where the clock of the browser is ahead; and a dirty draft is attended  *)
(* to.  For any clock and any number of tabs, edits, losses and retries.   *)
(*                                                                         *)
(* Of Media: a photo that is offered was verified, an upload that is owed  *)
(* survives, and a photo that is ready stays so, for any number of tiles,  *)
(* photos, consumers, faults and duplicates.                               *)
(***************************************************************************)
EXTENDS Autosave, Media, TLAPS, SequenceTheorems, NaturalsInduction, WellFoundedInduction

----------------------------------------------------------------------------
\* The onboarding draft.

USE AutosaveAssumption DEF AutosaveAssumption

\* A tab's hook and submit, a save adrift, and all that the tabs share.
Client == [page : Pages, draft : Draft, dirty : BOOLEAN, frozen : BOOLEAN,
           due : BOOLEAN, failed : BOOLEAN, ask : Draft,
           got : Draft, saves : Seq(Save), creates : Seq(Create), submit : Submission]
Letters == [by : Tabs, body : Draft, session : Nat]
World == [rows |-> rows, cookie |-> cookie, local |-> local, adrift |-> adrift, now |-> now,
          edits |-> edits, loose |-> loose, restored |-> restored, outrun |-> outrun]

Known(w) == {s \in DOMAIN w.rows : w.rows[s].session = s}
Excused(w) == w.loose \cup w.restored \cup w.outrun
\* How far ahead of the api a stamp can be.
Ahead == IF Skew <= 0 THEN 0 ELSE Skew

\* A draft, wherever it is, holds what was typed and is not of the future.
DraftOK(w, d) ==
  /\ d \in Draft /\ d.content \subseteq 1..w.edits
  /\ d.stamp <= w.now + Ahead
  /\ d.id # 0 => d.id \in DOMAIN w.rows /\ w.cookie # 0

\* What was read off a row is not newer, and the same if it is not older.
CopyOK(w, d) ==
  d.id # 0 => /\ d.stamp <= w.rows[d.id].updated
              /\ d.stamp = w.rows[d.id].updated => d.content = w.rows[d.id].content

RowOK(w, i) ==
  LET r == w.rows[i] IN
  /\ r \in Row /\ r.session \in Known(w) /\ r.updated <= w.now /\ r.content \subseteq 1..w.edits
  /\ r.status = "submitted" => r.owed \subseteq r.content

WorldOK(w) ==
  /\ w.rows \in Seq(Row) /\ \A i \in DOMAIN w.rows : RowOK(w, i)
  /\ w.cookie = 0 \/ w.cookie \in Known(w)
  /\ DraftOK(w, w.local) /\ w.adrift \subseteq Letters
  /\ w.now \in Nat /\ w.edits \in 0..MaxEdits
  /\ w.loose \subseteq Edits /\ w.restored \subseteq Edits /\ w.outrun \subseteq Edits

\* A save of a draft stamped after the row was written takes out nothing the tab shows.
Harmless(w, c, p) ==
  \A i \in DOMAIN w.rows :
    w.rows[i].session = p.session /\ w.rows[i].updated + Ahead <= p.body.stamp =>
      (w.rows[i].content \ p.body.content) \cap c.draft.content \subseteq w.restored
LetterOK(w, c, p) ==
  DraftOK(w, p.body) /\ w.cookie # 0 /\ p.session \in Known(w) /\ Harmless(w, c, p)
Drifts(w, t, c) == \A p \in w.adrift : p.by = t => LetterOK(w, c, p)

\* Row i holds X, when only the tab has written it.
Kept(w, t, i, X) ==
  w.rows[i].writers \subseteq {t} => X \ Excused(w) \subseteq w.rows[i].content

SaveOK(w, t, c, s) ==
  /\ LetterOK(w, c, s) /\ c.draft.content \ s.body.content \subseteq Excused(w)
  /\ s.state = "stored" => /\ s.reply.id \in DOMAIN w.rows /\ s.reply.stamp <= w.now
                           /\ Kept(w, t, s.reply.id, s.body.content \cap c.draft.content)
  /\ s.state = "refused" => s.reply.id # 0 /\ DraftOK(w, s.reply) /\ CopyOK(w, s.reply)
  /\ s.awaited => c.submit.at = "flushing" /\ s.body.content = c.submit.payload

CreateOK(w, c, n) ==
  /\ n.session = 0 \/ n.session \in Known(w)
  /\ n.id = 0 \/ n.id \in DOMAIN w.rows
  /\ n.awaited => c.submit.at = "creating"

\* One call at most is awaited.
Once(calls) == \A j, k \in DOMAIN calls : calls[j].awaited /\ calls[k].awaited => j = k

CallsOK(w, t, c) ==
  /\ \A k \in DOMAIN c.saves : SaveOK(w, t, c, c.saves[k])
  /\ \A k \in DOMAIN c.creates : CreateOK(w, c, c.creates[k])
  /\ Once(c.saves) /\ Once(c.creates)

PageOK(w, c) ==
  /\ c.page \in {"mounted", "read"} => c.submit = Idle /\ ~ c.dirty /\ ~ c.frozen
  /\ c.page \in {"mounted", "read", "closed"} => c.saves = <<>> /\ c.creates = <<>> /\ c.ask.id = 0
  /\ c.page = "read" /\ c.got.id = 0 => c.draft.id = 0 \/ c.draft.content \subseteq w.loose

FormsOK(w, c) ==
  /\ DraftOK(w, c.draft) /\ DraftOK(w, c.ask) /\ DraftOK(w, c.got)
  /\ CopyOK(w, c.ask) /\ CopyOK(w, c.got)

SubmitOK(w, t, c) ==
  LET s == c.submit IN
  /\ s.payload \subseteq 1..w.edits
  /\ s.at = "token" => w.cookie # 0
  /\ s.at = "sent" => s.session \in Known(w)
  /\ s.at \in {"received", "screened"} => s.row \in DOMAIN w.rows
  /\ s.saved # 0 => s.saved \in DOMAIN w.rows /\ Kept(w, t, s.saved, s.payload \cap c.draft.content)

Clean(w, t, c) ==
  c.page \in {"editing", "resume"} /\ ~ c.dirty /\ c.draft.id # 0 /\ c.ask.id = 0 =>
    Kept(w, t, c.draft.id, c.draft.content)

Good(w, t, c) ==
  c \in Client /\ PageOK(w, c) /\ FormsOK(w, c) /\ CallsOK(w, t, c) /\ SubmitOK(w, t, c) /\ Clean(w, t, c)

Attended(c) ==
  c.dirty /\ c.draft.id # 0 /\ ~ c.frozen /\ c.page # "closed" =>
    c.due \/ c.saves # <<>> \/ c.ask.id # 0 \/ c.failed

AutosaveInv ==
  /\ tab \in [Tabs -> Client] /\ moves \in [Tabs -> Nat] /\ WorldOK(World)
  /\ \A t \in Tabs : Good(World, t, tab[t]) /\ Drifts(World, t, tab[t]) /\ Attended(tab[t])

----------------------------------------------------------------------------
\* What the other tabs and the api do meanwhile.

Evolves(v, w, t, c) ==
  /\ v.now <= w.now /\ v.edits <= w.edits
  /\ v.loose \subseteq w.loose /\ v.restored \subseteq w.restored /\ v.outrun \subseteq w.outrun
  /\ v.cookie # 0 => w.cookie # 0
  /\ DOMAIN v.rows \subseteq DOMAIN w.rows
  /\ \A i \in DOMAIN v.rows :
       LET old == v.rows[i]
           new == w.rows[i] IN
       /\ new.session = old.session
       /\ \/ new.updated = old.updated /\ new.content = old.content /\ new.writers = old.writers
          \/ /\ new.updated = w.now /\ v.now < w.now /\ old.writers \subseteq new.writers
             /\ new.writers \subseteq {t} =>
                  (old.content \cap c.draft.content) \ (w.restored \cup w.outrun) \subseteq new.content
  /\ \A i \in DOMAIN w.rows \ DOMAIN v.rows : w.rows[i].updated = w.now /\ v.now < w.now

LEMMA AheadIs == Ahead \in Nat /\ Skew <= Ahead
BY DEF Ahead

LEMMA DraftEvolves ==
  ASSUME NEW v, NEW w, NEW t, NEW c, WorldOK(v), WorldOK(w), Evolves(v, w, t, c), NEW d, DraftOK(v, d)
  PROVE  DraftOK(w, d)
<1>1. v.now \in Nat /\ w.now \in Nat /\ v.edits \in Nat /\ w.edits \in Nat
  BY DEF WorldOK
<1>2. v.now <= w.now /\ 1..v.edits \subseteq 1..w.edits /\ DOMAIN v.rows \subseteq DOMAIN w.rows
      /\ (v.cookie # 0 => w.cookie # 0)
  BY <1>1 DEF Evolves
<1> QED BY <1>1, <1>2, AheadIs DEF DraftOK, Draft

LEMMA RowNumbers ==
  ASSUME NEW w, WorldOK(w), NEW i \in DOMAIN w.rows
  PROVE  /\ w.rows[i] \in Row /\ w.rows[i].updated \in Nat /\ w.rows[i].updated <= w.now /\ w.now \in Nat
         /\ w.rows[i].session \in Known(w) /\ w.rows[i].content \subseteq 1..w.edits
BY DEF WorldOK, RowOK, Row

LEMMA CopyEvolves ==
  ASSUME NEW v, NEW w, NEW t, NEW c, WorldOK(v), WorldOK(w), Evolves(v, w, t, c), NEW d,
         DraftOK(v, d), CopyOK(v, d)
  PROVE  CopyOK(w, d)
<1> SUFFICES ASSUME d.id # 0 PROVE CopyOK(w, d)
  BY DEF CopyOK
<1> DEFINE i == d.id
<1>1. i \in DOMAIN v.rows /\ d.stamp \in Int /\ d.stamp <= v.rows[i].updated
      /\ (d.stamp = v.rows[i].updated => d.content = v.rows[i].content)
  BY DEF DraftOK, Draft, CopyOK
<1>2. v.rows[i].updated \in Nat /\ v.rows[i].updated <= v.now /\ v.now \in Nat
  BY <1>1, RowNumbers
<1>3. i \in DOMAIN w.rows
  BY <1>1 DEF Evolves
<1>4. w.rows[i].updated \in Nat /\ w.now \in Nat
  BY <1>3, RowNumbers
<1>5. \/ w.rows[i].updated = v.rows[i].updated /\ w.rows[i].content = v.rows[i].content
      \/ w.rows[i].updated = w.now /\ v.now < w.now
  BY <1>1 DEF Evolves
<1> QED BY <1>1, <1>2, <1>4, <1>5 DEF CopyOK

LEMMA KnownEvolves ==
  ASSUME NEW v, NEW w, NEW t, NEW c, Evolves(v, w, t, c)
  PROVE  Known(v) \subseteq Known(w)
BY DEF Evolves, Known

\* What a save would take out can only be a row that has not changed since.
LEMMA LetterEvolves ==
  ASSUME NEW v, NEW w, NEW t, NEW c, WorldOK(v), WorldOK(w), Evolves(v, w, t, c), NEW p,
         LetterOK(v, c, p)
  PROVE  LetterOK(w, c, p)
<1>1. DraftOK(w, p.body) /\ w.cookie # 0 /\ p.session \in Known(w)
  <2>1. w.cookie # 0
    BY DEF LetterOK, Evolves
  <2> QED BY <2>1, DraftEvolves, KnownEvolves DEF LetterOK
<1>2. ASSUME NEW i \in DOMAIN w.rows,
             w.rows[i].session = p.session, w.rows[i].updated + Ahead <= p.body.stamp
      PROVE  (w.rows[i].content \ p.body.content) \cap c.draft.content \subseteq w.restored
  <2>1. /\ p.body.stamp \in Int /\ p.body.stamp <= v.now + Ahead /\ v.now \in Nat /\ w.now \in Nat
        /\ Ahead \in Nat
    BY <1>2, AheadIs DEF LetterOK, DraftOK, Draft, WorldOK
  <2>2. ~ (w.rows[i].updated = w.now /\ v.now < w.now)
    BY <1>2, <2>1
  <2>3. i \in DOMAIN v.rows
    BY <2>2 DEF Evolves
  <2>4. /\ v.rows[i].session = w.rows[i].session
        /\ v.rows[i].updated = w.rows[i].updated /\ v.rows[i].content = w.rows[i].content
    BY <2>2, <2>3 DEF Evolves
  <2>5. (v.rows[i].content \ p.body.content) \cap c.draft.content \subseteq v.restored
    BY <1>2, <2>3, <2>4 DEF LetterOK, Harmless
  <2> QED BY <2>4, <2>5 DEF Evolves
<1> QED BY <1>1, <1>2 DEF LetterOK, Harmless

LEMMA KeptEvolves ==
  ASSUME NEW v, NEW w, NEW t, NEW c, Evolves(v, w, t, c), NEW i \in DOMAIN v.rows,
         NEW X, X \subseteq c.draft.content, Kept(v, t, i, X)
  PROVE  Kept(w, t, i, X)
<1> SUFFICES ASSUME w.rows[i].writers \subseteq {t}, NEW x \in X, x \notin Excused(w)
             PROVE  x \in w.rows[i].content
  BY DEF Kept
<1>1. v.rows[i].writers \subseteq w.rows[i].writers
  BY DEF Evolves
<1>2. x \in v.rows[i].content
  BY <1>1 DEF Kept, Excused, Evolves
<1> QED BY <1>2 DEF Excused, Evolves

LEMMA DriftsEvolve ==
  ASSUME NEW v, NEW w, NEW t, NEW c, WorldOK(v), WorldOK(w), Evolves(v, w, t, c), Drifts(v, t, c),
         \A p \in w.adrift : p.by = t => p \in v.adrift
  PROVE  Drifts(w, t, c)
BY LetterEvolves DEF Drifts

LEMMA SaveEvolves ==
  ASSUME NEW v, NEW w, NEW t, NEW c, WorldOK(v), WorldOK(w), Evolves(v, w, t, c),
         NEW s, s.reply.stamp \in Int, SaveOK(v, t, c, s)
  PROVE  SaveOK(w, t, c, s)
<1>1. LetterOK(w, c, s)
  BY LetterEvolves DEF SaveOK
<1>2. c.draft.content \ s.body.content \subseteq Excused(w)
  BY DEF SaveOK, Evolves, Excused
<1>3. ASSUME s.state = "stored"
      PROVE  /\ s.reply.id \in DOMAIN w.rows /\ s.reply.stamp <= w.now
             /\ Kept(w, t, s.reply.id, s.body.content \cap c.draft.content)
  <2>1. /\ s.reply.id \in DOMAIN v.rows /\ s.reply.stamp <= v.now
        /\ Kept(v, t, s.reply.id, s.body.content \cap c.draft.content)
    BY <1>3 DEF SaveOK
  <2>2. Kept(w, t, s.reply.id, s.body.content \cap c.draft.content)
    BY <2>1, KeptEvolves
  <2>3. v.now \in Nat /\ w.now \in Nat
    BY DEF WorldOK
  <2> QED BY <2>1, <2>2, <2>3 DEF Evolves
<1>4. s.state = "refused" => s.reply.id # 0 /\ DraftOK(w, s.reply) /\ CopyOK(w, s.reply)
  BY DraftEvolves, CopyEvolves DEF SaveOK
<1> QED BY <1>1, <1>2, <1>3, <1>4 DEF SaveOK

LEMMA GoodEvolves ==
  ASSUME NEW v, NEW w, NEW t, NEW c, WorldOK(v), WorldOK(w), Evolves(v, w, t, c), Good(v, t, c)
  PROVE  Good(w, t, c)
<1>1. PageOK(w, c)
  BY DEF Good, PageOK, Evolves
<1>2. FormsOK(w, c)
  BY DraftEvolves, CopyEvolves DEF Good, FormsOK
<1>3. CallsOK(w, t, c)
  <2>1. ASSUME NEW k \in DOMAIN c.saves PROVE SaveOK(w, t, c, c.saves[k])
    <3>1. c.saves[k] \in Save
      BY DEF Good, Client
    <3> QED BY <3>1, SaveEvolves DEF Good, CallsOK, Save, Draft
  <2>2. ASSUME NEW k \in DOMAIN c.creates PROVE CreateOK(w, c, c.creates[k])
    <3>1. CreateOK(v, c, c.creates[k])
      BY DEF Good, CallsOK
    <3>2. Known(v) \subseteq Known(w)
      BY KnownEvolves
    <3>3. DOMAIN v.rows \subseteq DOMAIN w.rows
      BY DEF Evolves
    <3> QED BY <3>1, <3>2, <3>3 DEF CreateOK
  <2> QED BY <2>1, <2>2 DEF Good, CallsOK
<1>4. SubmitOK(w, t, c)
  <2> DEFINE s == c.submit
  <2>0. SubmitOK(v, t, c)
    BY DEF Good
  <2>1. 1..v.edits \subseteq 1..w.edits
    BY DEF Evolves, WorldOK
  <2>2. s.saved # 0 => s.saved \in DOMAIN w.rows /\ Kept(w, t, s.saved, s.payload \cap c.draft.content)
    <3> SUFFICES ASSUME s.saved # 0 PROVE s.saved \in DOMAIN w.rows /\ Kept(w, t, s.saved, s.payload \cap c.draft.content)
      OBVIOUS
    <3>1. s.saved \in DOMAIN v.rows /\ Kept(v, t, s.saved, s.payload \cap c.draft.content)
      BY <2>0 DEF SubmitOK
    <3>2. s.saved \in DOMAIN w.rows
      BY <3>1 DEF Evolves
    <3> QED BY <3>1, <3>2, KeptEvolves
  <2>3. s.at \in {"received", "screened"} => s.row \in DOMAIN w.rows
    BY <2>0 DEF SubmitOK, Evolves
  <2>4. s.at = "token" => w.cookie # 0
    BY <2>0 DEF SubmitOK, Evolves
  <2>5. s.at = "sent" => s.session \in Known(w)
    BY <2>0, KnownEvolves DEF SubmitOK
  <2>6. s.payload \subseteq 1..w.edits
    BY <2>0, <2>1 DEF SubmitOK
  <2> QED BY <2>2, <2>3, <2>4, <2>5, <2>6 DEF SubmitOK
<1>5. Clean(w, t, c)
  BY KeptEvolves DEF Good, Clean, FormsOK, DraftOK
<1> QED BY <1>1, <1>2, <1>3, <1>4, <1>5 DEF Good

----------------------------------------------------------------------------
\* What the parts of an action do to a client.

LEMMA RemoveAtProperties ==
  ASSUME NEW S, NEW q \in Seq(S), NEW k \in DOMAIN q
  PROVE  /\ RemoveAt(q, k) \in Seq(S) /\ DOMAIN RemoveAt(q, k) = 1..(Len(q) - 1)
         /\ \A j \in 1..(Len(q) - 1) : RemoveAt(q, k)[j] = IF j < k THEN q[j] ELSE q[j + 1]
<1> DEFINE n == Len(q)
           a == SubSeq(q, 1, k - 1)
           b == SubSeq(q, k + 1, n)
<1>1. n \in Nat /\ DOMAIN q = 1..n /\ k \in 1..n /\ \A j \in 1..n : q[j] \in S
  BY LenProperties
<1>2. a \in Seq(S) /\ Len(a) = k - 1 /\ \A j \in 1..(k - 1) : a[j] = q[j]
  BY <1>1, SubSeqProperties
<1>3. b \in Seq(S) /\ Len(b) = n - k /\ \A j \in 1..(n - k) : b[j] = q[k + j]
  BY <1>1, SubSeqProperties
<1> HIDE DEF a, b, n
<1>4. /\ a \o b \in Seq(S) /\ Len(a \o b) = Len(a) + Len(b)
      /\ \A j \in 1..(Len(a) + Len(b)) : (a \o b)[j] = IF j <= Len(a) THEN a[j] ELSE b[j - Len(a)]
  BY <1>2, <1>3, ConcatProperties
<1>a. Len(a) + Len(b) = n - 1
  BY <1>1, <1>2, <1>3
<1>5. ASSUME NEW j \in 1..(n - 1) PROVE (a \o b)[j] = IF j < k THEN q[j] ELSE q[j + 1]
  <2>1. (a \o b)[j] = IF j <= k - 1 THEN a[j] ELSE b[j - (k - 1)]
    BY <1>2, <1>4, <1>a
  <2>2. CASE j <= k - 1
    BY <1>1, <1>2, <2>1, <2>2
  <2>3. CASE ~ (j <= k - 1)
    <3>1. j - (k - 1) \in 1..(n - k) /\ k + (j - (k - 1)) = j + 1 /\ ~ (j < k)
      BY <1>1, <2>3
    <3> QED BY <1>3, <2>1, <2>3, <3>1
  <2> QED BY <2>2, <2>3
<1>6. DOMAIN (a \o b) = 1..(n - 1)
  BY <1>4, <1>a, LenProperties
<1> QED BY <1>4, <1>5, <1>6 DEF RemoveAt, a, b, n

\* What is left of a sequence of calls are calls of it, none of them twice.
LEMMA CallsLeft ==
  ASSUME NEW S, NEW q \in Seq(S), NEW k \in DOMAIN q
  PROVE  /\ RemoveAt(q, k) \in Seq(S)
         /\ \A j \in DOMAIN RemoveAt(q, k) : \E i \in DOMAIN q \ {k} : RemoveAt(q, k)[j] = q[i]
         /\ Once(q) => Once(RemoveAt(q, k))
         /\ Once(q) /\ q[k].awaited => \A j \in DOMAIN RemoveAt(q, k) : ~ RemoveAt(q, k)[j].awaited
<1> DEFINE r == RemoveAt(q, k)
           at(j) == IF j < k THEN j ELSE j + 1
<1>1. r \in Seq(S) /\ DOMAIN r = 1..(Len(q) - 1) /\ DOMAIN q = 1..Len(q)
      /\ \A j \in 1..(Len(q) - 1) : r[j] = q[at(j)]
  BY RemoveAtProperties
<1>2. \A j \in DOMAIN r : at(j) \in DOMAIN q \ {k}
  BY <1>1
<1>3. \A i, j \in DOMAIN r : at(i) = at(j) => i = j
  BY <1>1
<1> HIDE DEF r, at
<1>4. \A j \in DOMAIN r : r[j] = q[at(j)]
  BY <1>1
<1>5. Once(q) => Once(r)
  BY <1>2, <1>3, <1>4 DEF Once
<1>6. Once(q) /\ q[k].awaited => \A j \in DOMAIN r : ~ r[j].awaited
  BY <1>2, <1>4 DEF Once
<1>7. \A j \in DOMAIN r : \E i \in DOMAIN q \ {k} : r[j] = q[i]
  BY <1>2, <1>4
<1> QED BY <1>1, <1>5, <1>6, <1>7 DEF r

LEMMA CallsMore ==
  ASSUME NEW S, NEW q \in Seq(S), NEW x \in S
  PROVE  /\ Append(q, x) \in Seq(S) /\ Append(q, x) # <<>>
         /\ \A j \in DOMAIN Append(q, x) : Append(q, x)[j] = x \/ \E i \in DOMAIN q : Append(q, x)[j] = q[i]
         /\ Once(q) /\ (x.awaited => \A j \in DOMAIN q : ~ q[j].awaited) => Once(Append(q, x))
<1>1. Append(q, x) \in Seq(S) /\ DOMAIN Append(q, x) = 1..(Len(q) + 1) /\ DOMAIN q = 1..Len(q)
      /\ Append(q, x) # <<>> /\ Len(q) \in Nat
      /\ Append(q, x)[Len(q) + 1] = x /\ \A j \in 1..Len(q) : Append(q, x)[j] = q[j]
  BY AppendProperties, LenProperties
<1> DEFINE r == Append(q, x)
<1> HIDE DEF r
<1>2. \A j \in DOMAIN r : (j \in DOMAIN q /\ r[j] = q[j]) \/ (j = Len(q) + 1 /\ r[j] = x)
  BY <1>1 DEF r
<1>3. Once(q) /\ (x.awaited => \A j \in DOMAIN q : ~ q[j].awaited) => Once(r)
  BY <1>2 DEF Once
<1> QED BY <1>1, <1>2, <1>3 DEF r

\* A client that keeps its form, its calls and its submit.
LEMMA Rests ==
  ASSUME NEW w, NEW t, NEW c, Good(w, t, c), NEW d \in Client,
         d.draft.content = c.draft.content, d.saves = c.saves, d.creates = c.creates, d.submit = c.submit,
         PageOK(w, d), FormsOK(w, d), Clean(w, t, d)
  PROVE  Good(w, t, d)
<1>1. CallsOK(w, t, d)
  BY DEF Good, CallsOK, SaveOK, LetterOK, Harmless, CreateOK
<1>2. SubmitOK(w, t, d)
  BY DEF Good, SubmitOK
<1> QED BY <1>1, <1>2 DEF Good

\* A client that sends a save of what it shows.
LEMMA SaveSent ==
  ASSUME NEW w, WorldOK(w), NEW t, NEW c, Good(w, t, c), w.cookie \in Nat, NEW awaited \in BOOLEAN,
         c.page \notin {"mounted", "read", "closed"},
         awaited => /\ c.submit.at = "flushing" /\ c.submit.payload = c.draft.content
                    /\ \A k \in DOMAIN c.saves : ~ c.saves[k].awaited
  PROVE  Good(w, t, Writing(c, w.cookie, awaited))
<1>1. CASE ~ Writes(c)
  BY <1>1 DEF Writing
<1>2. CASE Writes(c)
  <2> DEFINE s == Sent(c, w.cookie, awaited)
             d == [c EXCEPT !.saves = Append(@, s)]
  <2>0. c \in Client /\ c.draft \in Draft
    BY DEF Good, Client
  <2>1. s \in Save
    BY <2>0 DEF Sent, Save, NoDraft, Draft
  <2>a. Append(c.saves, s) \in Seq(Save)
    BY <2>0, <2>1, CallsMore DEF Client
  <2>2. d \in Client
    BY <2>0, <2>a DEF Client
  <2>3. /\ d.page = c.page /\ d.draft = c.draft /\ d.dirty = c.dirty /\ d.ask = c.ask /\ d.got = c.got
        /\ d.creates = c.creates /\ d.submit = c.submit /\ d.saves = Append(c.saves, s)
    BY <2>0 DEF Client
  <2>4. s.body = c.draft /\ s.session = w.cookie /\ s.state = "sent" /\ s.awaited = awaited
    BY DEF Sent
  <2> HIDE DEF s, d
  <2>5. SaveOK(w, t, c, s)
    <3>1. w.cookie \in Known(w) /\ w.cookie # 0
      BY <1>2 DEF Writes, Good, FormsOK, DraftOK, WorldOK
    <3> QED BY <2>4, <3>1 DEF SaveOK, LetterOK, Harmless, Good, FormsOK
  <2>6. CallsOK(w, t, c)
    BY DEF Good
  <2>7. /\ \A j \in DOMAIN d.saves : d.saves[j] = s \/ \E i \in DOMAIN c.saves : d.saves[j] = c.saves[i]
        /\ Once(d.saves)
    <3>1. Once(c.saves) /\ c.saves \in Seq(Save)
      BY <2>0, <2>6 DEF CallsOK, Client
    <3> QED BY <2>1, <2>3, <2>4, <3>1, CallsMore
  <2>8. ASSUME NEW j \in DOMAIN d.saves PROVE SaveOK(w, t, d, d.saves[j])
    <3>1. SaveOK(w, t, c, d.saves[j])
      BY <2>5, <2>6, <2>7 DEF CallsOK
    <3> QED BY <2>3, <3>1 DEF SaveOK, LetterOK, Harmless
  <2>9. CallsOK(w, t, d)
    BY <2>3, <2>6, <2>7, <2>8 DEF CallsOK, CreateOK
  <2>10. PageOK(w, d) /\ FormsOK(w, d) /\ SubmitOK(w, t, d) /\ Clean(w, t, d)
    BY <2>3 DEF Good, PageOK, FormsOK, SubmitOK, Clean
  <2> QED BY <1>2, <2>2, <2>9, <2>10 DEF Writing, Good, d, s
<1> QED BY <1>1, <1>2

\* A client one of whose saves is over.
LEMMA SaveOver ==
  ASSUME NEW w, NEW t, NEW c, Good(w, t, c), NEW k \in DOMAIN c.saves
  PROVE  /\ Good(w, t, Without(c, k))
         /\ c.saves[k].awaited => \A j \in DOMAIN Without(c, k).saves : ~ Without(c, k).saves[j].awaited
<1> DEFINE d == Without(c, k)
<1>0. c \in Client /\ c.saves \in Seq(Save) /\ CallsOK(w, t, c)
  BY DEF Good, Client
<1>1. /\ RemoveAt(c.saves, k) \in Seq(Save)
      /\ \A j \in DOMAIN RemoveAt(c.saves, k) : \E i \in DOMAIN c.saves : RemoveAt(c.saves, k)[j] = c.saves[i]
      /\ Once(RemoveAt(c.saves, k))
      /\ c.saves[k].awaited => \A j \in DOMAIN RemoveAt(c.saves, k) : ~ RemoveAt(c.saves, k)[j].awaited
  BY <1>0, CallsLeft DEF CallsOK
<1>2. d \in Client
  BY <1>0, <1>1 DEF Without, Client
<1>3. /\ d.page = c.page /\ d.draft = c.draft /\ d.dirty = c.dirty /\ d.ask = c.ask /\ d.got = c.got
      /\ d.creates = c.creates /\ d.submit = c.submit /\ d.saves = RemoveAt(c.saves, k)
  BY <1>0 DEF Without, Client
<1> HIDE DEF d
<1>4. ASSUME NEW j \in DOMAIN d.saves PROVE SaveOK(w, t, d, d.saves[j])
  <2>1. SaveOK(w, t, c, d.saves[j])
    BY <1>0, <1>1, <1>3 DEF CallsOK
  <2> QED BY <1>3, <2>1 DEF SaveOK, LetterOK, Harmless
<1>5. CallsOK(w, t, d)
  BY <1>0, <1>1, <1>3, <1>4 DEF CallsOK, CreateOK
<1>6. ~ c.page \in {"mounted", "read", "closed"}
  BY DEF Good, PageOK
<1>7. PageOK(w, d) /\ FormsOK(w, d) /\ SubmitOK(w, t, d) /\ Clean(w, t, d)
  BY <1>3, <1>6 DEF Good, PageOK, FormsOK, SubmitOK, Clean
<1> QED BY <1>1, <1>2, <1>3, <1>5, <1>7 DEF Good, d

\* A client whose submit goes on, or is over.
LEMMA SubmitMoves ==
  ASSUME NEW w, NEW t, NEW c, Good(w, t, c), NEW s \in Submission,
         \A k \in DOMAIN c.saves : c.saves[k].awaited => s.at = "flushing" /\ s.payload = c.submit.payload,
         \A k \in DOMAIN c.creates : c.creates[k].awaited => s.at = "creating",
         c.page \notin {"mounted", "read"},
         SubmitOK(w, t, [c EXCEPT !.submit = s])
  PROVE  Good(w, t, [c EXCEPT !.submit = s])
<1> DEFINE d == [c EXCEPT !.submit = s]
<1>0. c \in Client /\ CallsOK(w, t, c)
  BY DEF Good
<1>1. d \in Client
  BY <1>0 DEF Client
<1>2. /\ d.page = c.page /\ d.draft = c.draft /\ d.dirty = c.dirty /\ d.ask = c.ask /\ d.got = c.got
      /\ d.creates = c.creates /\ d.submit = s /\ d.saves = c.saves
  BY <1>0 DEF Client
<1> HIDE DEF d
<1>3. CallsOK(w, t, d)
  BY <1>0, <1>2 DEF CallsOK, CreateOK, SaveOK, LetterOK, Harmless
<1>4. PageOK(w, d) /\ FormsOK(w, d) /\ Clean(w, t, d)
  BY <1>2 DEF Good, PageOK, FormsOK, Clean
<1> QED BY <1>1, <1>3, <1>4 DEF Good, d

\* A client that shows another draft: what it shows now was shown, is excused or new.
LEMMA Redrawn ==
  ASSUME NEW w, NEW t, NEW c, Good(w, t, c), NEW d \in Client,
         d.saves = c.saves, d.creates = c.creates, PageOK(w, d), FormsOK(w, d), Clean(w, t, d),
         d.submit.at = c.submit.at, d.submit.payload = c.submit.payload,
         d.submit.session = c.submit.session, d.submit.row = c.submit.row,
         d.submit.saved # 0 => d.submit.saved = c.submit.saved,
         NEW N, d.draft.content \subseteq c.draft.content \cup w.restored \cup N,
         c.saves # <<>> => N \subseteq w.loose /\ \A i \in DOMAIN w.rows : N \cap w.rows[i].content = {},
         d.submit.saved # 0 => N \cap c.submit.payload \subseteq w.rows[d.submit.saved].content
  PROVE  Good(w, t, d)
<1>1. ASSUME NEW k \in DOMAIN d.saves PROVE SaveOK(w, t, d, d.saves[k])
  <2> DEFINE s == d.saves[k]
  <2>0. SaveOK(w, t, c, s)
    BY DEF Good, CallsOK
  <2>1. c.saves # <<>>
    OBVIOUS
  <2>2. LetterOK(w, d, s)
    BY <2>0, <2>1 DEF SaveOK, LetterOK, Harmless
  <2>3. d.draft.content \ s.body.content \subseteq Excused(w)
    BY <2>0, <2>1 DEF SaveOK, Excused
  <2>4. Kept(w, t, s.reply.id, s.body.content \cap c.draft.content) =>
          Kept(w, t, s.reply.id, s.body.content \cap d.draft.content)
    BY <2>1 DEF Kept, Excused
  <2> QED BY <2>0, <2>2, <2>3, <2>4 DEF SaveOK
<1>2. CallsOK(w, t, d)
  BY <1>1 DEF Good, CallsOK, CreateOK
<1>3. SubmitOK(w, t, d)
  BY DEF Good, SubmitOK, Kept, Excused
<1> QED BY <1>2, <1>3 DEF Good

LEMMA DriftsRedrawn ==
  ASSUME NEW w, NEW t, NEW c, Drifts(w, t, c), NEW d,
         NEW N, d.draft.content \subseteq c.draft.content \cup w.restored \cup N,
         \A p \in w.adrift : p.by = t => \A i \in DOMAIN w.rows : N \cap w.rows[i].content = {}
  PROVE  Drifts(w, t, d)
BY DEF Drifts, LetterOK, Harmless

\* A client that asks for a draft.
LEMMA CreateSent ==
  ASSUME NEW w, WorldOK(w), NEW t, NEW c, Good(w, t, c), w.cookie = cookie, cookie \in Nat,
         NEW awaited \in BOOLEAN, c.page \notin {"mounted", "read", "closed"},
         awaited => c.submit.at = "creating" /\ \A k \in DOMAIN c.creates : ~ c.creates[k].awaited
  PROVE  Good(w, t, Post(c, awaited))
<1> DEFINE n == [session |-> cookie, id |-> 0, awaited |-> awaited]
           d == [c EXCEPT !.creates = Append(c.creates, n)]
<1>0. c \in Client /\ CallsOK(w, t, c) /\ c.creates \in Seq(Create)
  BY DEF Good, Client
<1>1. n \in Create
  BY DEF Create
<1>2. /\ Append(c.creates, n) \in Seq(Create)
      /\ \A j \in DOMAIN Append(c.creates, n) :
           Append(c.creates, n)[j] = n \/ \E i \in DOMAIN c.creates : Append(c.creates, n)[j] = c.creates[i]
      /\ Once(Append(c.creates, n))
  BY <1>0, <1>1, CallsMore DEF CallsOK
<1>3. d \in Client
  BY <1>0, <1>2 DEF Client
<1>4. /\ d.page = c.page /\ d.draft = c.draft /\ d.dirty = c.dirty /\ d.ask = c.ask /\ d.got = c.got
      /\ d.saves = c.saves /\ d.submit = c.submit /\ d.creates = Append(c.creates, n)
  BY <1>0 DEF Client
<1> HIDE DEF d
<1>5. CreateOK(w, c, n)
  BY DEF CreateOK, WorldOK
<1> HIDE DEF n
<1>6. ASSUME NEW j \in DOMAIN d.creates PROVE CreateOK(w, d, d.creates[j])
  <2>1. CreateOK(w, c, d.creates[j])
    BY <1>0, <1>2, <1>4, <1>5 DEF CallsOK
  <2> QED BY <1>4, <2>1 DEF CreateOK
<1>7. CallsOK(w, t, d)
  BY <1>0, <1>2, <1>4, <1>6 DEF CallsOK, SaveOK, LetterOK, Harmless
<1>8. PageOK(w, d) /\ FormsOK(w, d) /\ SubmitOK(w, t, d) /\ Clean(w, t, d)
  BY <1>4 DEF Good, PageOK, FormsOK, SubmitOK, Clean
<1> QED BY <1>3, <1>7, <1>8 DEF Good, Post, d, n

\* A client one of whose requests for a draft is over.
LEMMA CreateOver ==
  ASSUME NEW w, NEW t, NEW c, Good(w, t, c), NEW k \in DOMAIN c.creates,
         NEW d, d = [c EXCEPT !.creates = RemoveAt(c.creates, k)]
  PROVE  /\ Good(w, t, d)
         /\ c.creates[k].awaited => \A j \in DOMAIN d.creates : ~ d.creates[j].awaited
<1>0. c \in Client /\ c.creates \in Seq(Create) /\ CallsOK(w, t, c)
  BY DEF Good, Client
<1>1. /\ RemoveAt(c.creates, k) \in Seq(Create)
      /\ \A j \in DOMAIN RemoveAt(c.creates, k) : \E i \in DOMAIN c.creates : RemoveAt(c.creates, k)[j] = c.creates[i]
      /\ Once(RemoveAt(c.creates, k))
      /\ c.creates[k].awaited => \A j \in DOMAIN RemoveAt(c.creates, k) : ~ RemoveAt(c.creates, k)[j].awaited
  BY <1>0, CallsLeft DEF CallsOK
<1>2. d \in Client
  BY <1>0, <1>1 DEF Client
<1>3. /\ d.page = c.page /\ d.draft = c.draft /\ d.dirty = c.dirty /\ d.ask = c.ask /\ d.got = c.got
      /\ d.saves = c.saves /\ d.submit = c.submit /\ d.creates = RemoveAt(c.creates, k)
  BY <1>0 DEF Client
<1>4. ASSUME NEW j \in DOMAIN d.creates PROVE CreateOK(w, d, d.creates[j])
  <2>1. CreateOK(w, c, d.creates[j])
    BY <1>0, <1>1, <1>3 DEF CallsOK
  <2> QED BY <1>3, <2>1 DEF CreateOK
<1>a. ASSUME NEW j \in DOMAIN d.saves PROVE SaveOK(w, t, d, d.saves[j])
  BY <1>0, <1>3 DEF CallsOK, SaveOK, LetterOK, Harmless
<1>5. CallsOK(w, t, d)
  BY <1>0, <1>1, <1>3, <1>4, <1>a DEF CallsOK
<1>6. ~ c.page \in {"mounted", "read", "closed"}
  BY DEF Good, PageOK
<1>7. PageOK(w, d) /\ FormsOK(w, d) /\ SubmitOK(w, t, d) /\ Clean(w, t, d)
  BY <1>3, <1>6 DEF Good, PageOK, FormsOK, SubmitOK, Clean
<1> QED BY <1>1, <1>2, <1>3, <1>5, <1>7 DEF Good

\* A submit that goes on when its flush is over.
LEMMA FlushOver ==
  ASSUME NEW w, WorldOK(w), NEW t, NEW c, Good(w, t, c), w.cookie = cookie, cookie \in Nat,
         c.page \notin {"mounted", "read", "closed"}, c.submit.at = "flushing",
         \A k \in DOMAIN c.saves : ~ c.saves[k].awaited
  PROVE  Good(w, t, Ensured(c))
<1>0. c \in Client /\ c.submit \in Submission /\ CallsOK(w, t, c) /\ SubmitOK(w, t, c) /\ FormsOK(w, c)
  BY DEF Good, Client
<1>1. \A k \in DOMAIN c.creates : ~ c.creates[k].awaited
  BY <1>0 DEF CallsOK, CreateOK
<1>2. ASSUME NEW at \in {"creating", "token"}, at = "token" => w.cookie # 0
      PROVE  Good(w, t, [c EXCEPT !.submit = [c.submit EXCEPT !.at = at]])
  <2> DEFINE s == [c.submit EXCEPT !.at = at]
             d == [c EXCEPT !.submit = s]
  <2>1. s \in Submission
    BY <1>0 DEF Submission, Submits
  <2>2. s.at = at /\ s.payload = c.submit.payload /\ s.saved = c.submit.saved
    BY <1>0 DEF Submission
  <2>3. d.submit = s /\ d.draft = c.draft
    BY <1>0 DEF Client
  <2> HIDE DEF s, d
  <2>4. SubmitOK(w, t, d)
    BY <1>0, <1>2, <2>2, <2>3 DEF SubmitOK
  <2> QED BY <1>1, <2>1, <2>4, SubmitMoves DEF s, d
<1>3. CASE c.draft.id = 0
  <2> DEFINE d == [c EXCEPT !.submit = [c.submit EXCEPT !.at = "creating"]]
  <2>1. Good(w, t, d)
    BY <1>2
  <2>2. d.page = c.page /\ d.creates = c.creates /\ d.submit.at = "creating"
    BY <1>0 DEF Client, Submission
  <2>3. Post(d, TRUE) = [Post(c, TRUE) EXCEPT !.submit.at = "creating"]
    BY <1>0 DEF Post, Client
  <2> HIDE DEF d
  <2>4. Good(w, t, Post(d, TRUE))
    BY <1>1, <2>1, <2>2, CreateSent
  <2> QED BY <1>3, <2>3, <2>4 DEF Ensured
<1>4. CASE c.draft.id # 0
  <2>1. w.cookie # 0
    BY <1>0, <1>4 DEF FormsOK, DraftOK
  <2> QED BY <1>2, <1>4, <2>1 DEF Ensured
<1> QED BY <1>3, <1>4

\* A client of which only marks change.
LEMMA Flags ==
  ASSUME NEW w, NEW t, NEW c, Good(w, t, c), NEW d \in Client,
         d.draft = c.draft, d.saves = c.saves, d.creates = c.creates, d.submit = c.submit,
         d.ask = c.ask, d.got = c.got, d.dirty \in {c.dirty, TRUE},
         d.page = c.page \/ {d.page, c.page} \subseteq {"editing", "resume"},
         c.page \in {"mounted", "read"} => d.dirty = c.dirty /\ d.frozen = c.frozen
  PROVE  Good(w, t, d)
<1>1. PageOK(w, d) /\ FormsOK(w, d) /\ Clean(w, t, d)
  BY DEF Good, PageOK, FormsOK, Clean
<1> QED BY <1>1, Rests

LEMMA FlushSent ==
  ASSUME NEW w, WorldOK(w), NEW t, NEW c, Good(w, t, c), w.cookie = cookie, cookie \in Nat,
         c.page \notin {"mounted", "read", "closed"}, NEW awaited \in BOOLEAN,
         awaited => /\ c.submit.at = "flushing" /\ c.submit.payload = c.draft.content
                    /\ \A k \in DOMAIN c.saves : ~ c.saves[k].awaited
  PROVE  Good(w, t, Flushing(c, awaited))
<1> DEFINE d == [c EXCEPT !.due = FALSE]
<1>0. c \in Client
  BY DEF Good
<1>1. d \in Client
  BY <1>0 DEF Client
<1>2. /\ d.page = c.page /\ d.draft = c.draft /\ d.dirty = c.dirty /\ d.frozen = c.frozen /\ d.ask = c.ask
      /\ d.got = c.got /\ d.saves = c.saves /\ d.creates = c.creates /\ d.submit = c.submit
  BY <1>0 DEF Client
<1> HIDE DEF d
<1>3. Good(w, t, d)
  BY <1>1, <1>2, Flags
<1>4. Good(w, t, Writing(d, w.cookie, awaited))
  BY <1>2, <1>3, SaveSent
<1> QED BY <1>4 DEF Flushing, d

\* writeServer(), after its await.
LEMMA SaveSettled ==
  ASSUME NEW w, WorldOK(w), NEW t, NEW c, Good(w, t, c), NEW k \in DOMAIN c.saves,
         c.saves[k].state # "sent",
         c.saves[k].state = "stored" /\ c.saves[k].reply.id # c.draft.id => c.draft.content \subseteq w.loose
  PROVE  Good(w, t, Settled(Without(c, k), c.saves[k]))
<1> DEFINE s == c.saves[k]
           b == Without(c, k)
           d == Settled(b, s)
<1>0. c \in Client /\ s \in Save /\ SaveOK(w, t, c, s) /\ FormsOK(w, c) /\ ~ c.page \in {"mounted", "read", "closed"}
  BY DEF Good, CallsOK, Client, PageOK
<1>1. Good(w, t, b) /\ b \in Client
  BY SaveOver DEF Good
<1>2. b.page = c.page /\ b.draft = c.draft /\ b.ask = c.ask /\ b.got = c.got
  BY <1>0 DEF Without, Client
<1> HIDE DEF b
<1>3. CASE s.state = "stored"
  <2>1. d = [b EXCEPT !.dirty = FALSE, !.failed = FALSE, !.draft = [b.draft EXCEPT !.stamp = s.reply.stamp]]
    BY <1>3 DEF Settled
  <2>2. s.reply \in Draft /\ b.draft \in Draft
    BY <1>0, <1>1 DEF Save, Client
  <2>3. [b.draft EXCEPT !.stamp = s.reply.stamp] \in Draft
    BY <2>2 DEF Draft
  <2>4. d \in Client
    BY <1>1, <2>1, <2>3 DEF Client
  <2>5. /\ d.page = b.page /\ d.ask = b.ask /\ d.got = b.got /\ ~ d.dirty
        /\ d.saves = b.saves /\ d.creates = b.creates /\ d.submit = b.submit
        /\ d.draft = [b.draft EXCEPT !.stamp = s.reply.stamp]
    BY <1>1, <2>1 DEF Client
  <2>6. d.draft.id = b.draft.id /\ d.draft.content = b.draft.content /\ d.draft.stamp = s.reply.stamp
    BY <2>2, <2>5 DEF Draft
  <2>7. s.reply.stamp <= w.now + Ahead
    <3>1. s.reply.stamp <= w.now /\ s.reply.stamp \in Int /\ w.now \in Nat
      BY <1>0, <1>3, <2>2 DEF SaveOK, WorldOK, Draft
    <3> QED BY <3>1, AheadIs
  <2> HIDE DEF d
  <2>8. DraftOK(w, d.draft)
    BY <1>0, <1>2, <2>3, <2>5, <2>6, <2>7 DEF FormsOK, DraftOK
  <2>9. PageOK(w, d) /\ FormsOK(w, d)
    BY <1>0, <1>1, <1>2, <2>5, <2>8 DEF PageOK, FormsOK, Good
  <2>10. Clean(w, t, d)
    <3>1. CASE s.reply.id = c.draft.id
      BY <1>0, <1>2, <1>3, <2>6, <3>1 DEF SaveOK, Clean, Kept, Excused
    <3>2. CASE s.reply.id # c.draft.id
      BY <1>2, <1>3, <2>6, <3>2 DEF Clean, Kept, Excused
    <3> QED BY <3>1, <3>2
  <2>11. Good(w, t, d)
    BY <1>1, <2>4, <2>5, <2>6, <2>9, <2>10, Rests
  <2> QED BY <2>11 DEF d, b
<1>4. CASE s.state # "stored"
  <2>1. d = [b EXCEPT !.ask = s.reply]
    BY <1>4 DEF Settled
  <2>2. s.reply.id # 0 /\ DraftOK(w, s.reply) /\ CopyOK(w, s.reply) /\ s.reply \in Draft
    BY <1>0, <1>4 DEF SaveOK, Save
  <2>4. d \in Client
    BY <1>1, <2>1, <2>2 DEF Client
  <2>5. /\ d.page = b.page /\ d.ask = s.reply /\ d.got = b.got /\ d.dirty = b.dirty
        /\ d.saves = b.saves /\ d.creates = b.creates /\ d.submit = b.submit /\ d.draft = b.draft
    BY <1>1, <2>1 DEF Client
  <2> HIDE DEF d
  <2>6. PageOK(w, d) /\ FormsOK(w, d) /\ Clean(w, t, d)
    BY <1>0, <1>1, <1>2, <2>2, <2>5 DEF PageOK, FormsOK, Good, Clean
  <2>7. Good(w, t, d)
    BY <1>1, <2>4, <2>5, <2>6, Rests
  <2> QED BY <2>7 DEF d, b
<1> QED BY <1>3, <1>4 DEF b

LEMMA FlushSettled ==
  ASSUME NEW w, WorldOK(w), NEW t, NEW c, Good(w, t, c), w.cookie = cookie, cookie \in Nat,
         c.page \notin {"mounted", "read", "closed"},
         NEW s, s.awaited => \A k \in DOMAIN c.saves : ~ c.saves[k].awaited,
         NEW saved \in Nat,
         s.awaited /\ saved # 0 =>
           saved \in DOMAIN w.rows /\ Kept(w, t, saved, c.submit.payload \cap c.draft.content)
  PROVE  Good(w, t, Flushed(c, s, saved))
<1> SUFFICES ASSUME s.awaited, c.submit.at = "flushing" PROVE Good(w, t, Ensured([c EXCEPT !.submit.saved = saved]))
  BY DEF Flushed
<1> DEFINE n == [c.submit EXCEPT !.saved = saved]
           d == [c EXCEPT !.submit = n]
<1>0. c \in Client /\ c.submit \in Submission /\ SubmitOK(w, t, c) /\ CallsOK(w, t, c)
  BY DEF Good, Client
<1>1. n \in Submission /\ n.at = "flushing" /\ n.payload = c.submit.payload /\ n.saved = saved
  BY <1>0 DEF Submission
<1>2. d.submit = n /\ d.draft = c.draft /\ d.saves = c.saves /\ d.page = c.page
  BY <1>0 DEF Client
<1> HIDE DEF n, d
<1>3. SubmitOK(w, t, d)
  BY <1>0, <1>1, <1>2 DEF SubmitOK
<1>4. \A k \in DOMAIN c.creates : ~ c.creates[k].awaited
  BY <1>0 DEF CallsOK, CreateOK
<1>5. Good(w, t, d)
  BY <1>1, <1>3, <1>4, SubmitMoves DEF d
<1>6. Good(w, t, Ensured(d))
  BY <1>1, <1>2, <1>5, FlushOver
<1> QED BY <1>6 DEF d, n

\* submit(), up to its first await.
LEMMA SubmitBegun ==
  ASSUME NEW w, WorldOK(w), NEW t, NEW c, Good(w, t, c), w.cookie = cookie, cookie \in Nat,
         c.page = "editing", c.submit.at = "idle"
  PROVE  Good(w, t, Begin(c))
<1> DEFINE saved == IF c.dirty \/ c.ask.id # 0 THEN 0 ELSE c.draft.id
           n == [Idle EXCEPT !.at = "flushing", !.payload = c.draft.content, !.saved = saved]
           d == [c EXCEPT !.submit = n]
           b == [Flushing(c, TRUE) EXCEPT !.submit = n]
<1>0. c \in Client /\ c.draft \in Draft /\ FormsOK(w, c) /\ CallsOK(w, t, c)
  BY DEF Good, Client
<1>1. /\ n \in Submission /\ n.at = "flushing" /\ n.payload = c.draft.content /\ n.saved = saved
  BY <1>0 DEF Submission, Idle, Submits, Draft
<1>2. /\ \A k \in DOMAIN c.saves : ~ c.saves[k].awaited
      /\ \A k \in DOMAIN c.creates : ~ c.creates[k].awaited
  BY <1>0 DEF CallsOK, SaveOK, CreateOK
<1> HIDE DEF n
<1>3. d.submit = n /\ d.draft = c.draft /\ d.saves = c.saves /\ d.page = c.page /\ d.dirty = c.dirty /\ d.frozen = c.frozen
  BY <1>0 DEF Client
<1>4. SubmitOK(w, t, d)
  <2>1. saved # 0 => saved \in DOMAIN w.rows /\ Kept(w, t, saved, c.draft.content)
    BY <1>0 DEF Good, Clean, FormsOK, DraftOK
  <2>2. n.payload \subseteq 1..w.edits /\ n.payload \cap d.draft.content = c.draft.content
    BY <1>0, <1>1, <1>3 DEF FormsOK, DraftOK
  <2> QED BY <1>1, <1>3, <2>1, <2>2 DEF SubmitOK
<1> HIDE DEF saved, d
<1>5. Good(w, t, d)
  BY <1>1, <1>2, <1>4, SubmitMoves DEF d
<1>6. Good(w, t, Flushing(d, TRUE))
  BY <1>1, <1>2, <1>3, <1>5, FlushSent
<1>7. Flushing(d, TRUE) = b
  BY <1>0 DEF Flushing, Writing, Writes, Sent, Client, d
<1>8. CASE Writes(c)
  BY <1>6, <1>7, <1>8 DEF Begin, n, saved
<1>9. CASE ~ Writes(c)
  <2>1. b.page = c.page /\ b.submit = n /\ b.saves = c.saves
    BY <1>0, <1>9 DEF Flushing, Writing, Writes, Client
  <2> HIDE DEF b
  <2>2. Good(w, t, Ensured(b))
    BY <1>1, <1>2, <1>6, <1>7, <2>1, FlushOver
  <2> QED BY <1>9, <2>2 DEF Begin, b, n, saved
<1> QED BY <1>8, <1>9

----------------------------------------------------------------------------
\* A step of one tab.

LEMMA WorldIs ==
  /\ World.rows = rows /\ World.cookie = cookie /\ World.local = local /\ World.adrift = adrift
  /\ World.now = now /\ World.edits = edits /\ World.loose = loose /\ World.restored = restored
  /\ World.outrun = outrun
BY DEF World

LEMMA WorldBecomes ==
  /\ World'.rows = rows' /\ World'.cookie = cookie' /\ World'.local = local' /\ World'.adrift = adrift'
  /\ World'.now = now' /\ World'.edits = edits' /\ World'.loose = loose' /\ World'.restored = restored'
  /\ World'.outrun = outrun'
BY DEF World

\* A set of naturals has a least one.
LEMMA LeastOf ==
  ASSUME NEW T, T \subseteq Nat, T # {}
  PROVE  \E x \in T : \A y \in T : x <= y
<1>1. IsWellFoundedOn(OpToRel(<, Nat), Nat)
  BY NatLessThanWellFounded
<1>2. PICK x \in T : \A y \in T : ~ (<<y, x>> \in OpToRel(<, Nat))
  BY <1>1, WFMin
<1>3. \A y \in T : ~ (y < x)
  BY <1>2 DEF OpToRel
<1> QED BY <1>3

\* A session that has a row has a latest one.
LEMMA CurrentIsOfSession ==
  ASSUME WorldOK(World), NEW session \in Known(World)
  PROVE  Current(session) \in DOMAIN rows /\ rows[Current(session)].session = session
<1> DEFINE Mine == {i \in DOMAIN rows : rows[i].session = session}
           T == {now - rows[i].updated : i \in Mine}
<1>1. session \in Mine
  BY WorldIs DEF Known
<1>2. \A i \in DOMAIN rows : rows[i].updated \in Nat /\ rows[i].updated <= now /\ now \in Nat
  BY RowNumbers, WorldIs
<1>3. T \subseteq Nat /\ T # {}
  BY <1>1, <1>2
<1>4. PICK x \in T : \A y \in T : x <= y
  BY <1>3, LeastOf
<1>5. PICK i \in Mine : x = now - rows[i].updated
  BY <1>4
<1>6. \A j \in Mine : rows[j].updated <= rows[i].updated
  <2> SUFFICES ASSUME NEW j \in Mine PROVE rows[j].updated <= rows[i].updated
    OBVIOUS
  <2>1. now - rows[i].updated <= now - rows[j].updated
    BY <1>4, <1>5
  <2> QED BY <1>2, <2>1
<1>7. \E k \in DOMAIN rows : /\ rows[k].session = session
                             /\ \A j \in DOMAIN rows : rows[j].session = session => rows[j].updated <= rows[k].updated
  BY <1>6
<1> QED BY <1>7 DEF Current

\* What a step that writes no row does to what the tabs share.
Quiet ==
  /\ rows' = rows /\ now <= now' /\ edits <= edits' /\ loose \subseteq loose' /\ restored \subseteq restored'
  /\ outrun' = outrun
  /\ cookie # 0 => cookie' # 0

LEMMA QuietEvolves ==
  ASSUME Quiet, NEW t, NEW c
  PROVE  Evolves(World, World', t, c)
BY WorldIs, WorldBecomes DEF Quiet, Evolves

LEMMA QuietWorld ==
  ASSUME WorldOK(World), Quiet, cookie' = 0 \/ cookie' \in Known(World),
         now' \in Nat, edits' \in 0..MaxEdits, loose' \subseteq Edits, restored' \subseteq Edits,
         adrift' \subseteq Letters, DraftOK(World, local') \/ DraftOK(World', local')
  PROVE  WorldOK(World')
<1>1. Known(World') = Known(World)
  BY WorldIs, WorldBecomes DEF Known, Quiet
<1>2. now \in Nat /\ edits \in Nat /\ edits' \in Nat /\ 1..edits \subseteq 1..edits' /\ now <= now'
  BY WorldIs DEF WorldOK, Quiet
<1>3. DraftOK(World', local')
  BY <1>2, AheadIs, WorldIs, WorldBecomes DEF DraftOK, Draft, Quiet
<1>4. ASSUME NEW i \in DOMAIN rows PROVE RowOK(World', i)
  <2>1. RowOK(World, i) /\ rows[i].updated \in Nat
    BY WorldIs DEF WorldOK, RowOK, Row
  <2> QED BY <1>1, <1>2, <2>1, WorldIs, WorldBecomes DEF RowOK, Quiet
<1> QED BY <1>1, <1>3, <1>4, WorldIs, WorldBecomes DEF WorldOK, Quiet

LEMMA Meanwhile ==
  ASSUME AutosaveInv, Quiet, WorldOK(World'), NEW t \in Tabs
  PROVE  /\ Good(World', t, tab[t])
         /\ (\A p \in adrift' : p.by = t => p \in adrift) => Drifts(World', t, tab[t])
<1>1. Evolves(World, World', t, tab[t])
  BY QuietEvolves
<1>2. Good(World', t, tab[t])
  BY <1>1, GoodEvolves DEF AutosaveInv
<1>3. (\A p \in adrift' : p.by = t => p \in adrift) => Drifts(World', t, tab[t])
  BY <1>1, DriftsEvolve, WorldIs, WorldBecomes DEF AutosaveInv
<1> QED BY <1>2, <1>3

LEMMA TabStep ==
  ASSUME AutosaveInv, Quiet, WorldOK(World'), moves' \in [Tabs -> Nat], NEW t \in Tabs, NEW c,
         Becomes(t, c), \A p \in adrift' : p.by # t => p \in adrift,
         Good(World', t, c), Drifts(World', t, c), Attended(c)
  PROVE  AutosaveInv'
<1>1. tab \in [Tabs -> Client] /\ c \in Client
  BY DEF AutosaveInv, Good
<1>2. tab' \in [Tabs -> Client] /\ tab'[t] = c /\ \A u \in Tabs : u # t => tab'[u] = tab[u]
  BY <1>1 DEF Becomes
<1>3. ASSUME NEW u \in Tabs
      PROVE  Good(World', u, tab'[u]) /\ Drifts(World', u, tab'[u]) /\ Attended(tab'[u])
  <2>1. CASE u = t
    BY <1>2, <2>1
  <2>2. CASE u # t
    <3>1. Good(World', u, tab[u]) /\ Drifts(World', u, tab[u]) /\ Attended(tab[u])
      BY <2>2, Meanwhile DEF AutosaveInv
    <3> QED BY <1>2, <2>2, <3>1
  <2> QED BY <2>1, <2>2
<1> QED BY <1>2, <1>3 DEF AutosaveInv

LEMMA MoveIs ==
  ASSUME moves \in [Tabs -> Nat], NEW t \in Tabs, Move(t)
  PROVE  moves' \in [Tabs -> Nat]
BY DEF Move

\* What the tabs share, when a step leaves it alone but for the moves.
Still == UNCHANGED <<rows, cookie, local, adrift, now, edits, loose, restored, outrun>>

LEMMA StillStep ==
  ASSUME AutosaveInv, Still, moves' \in [Tabs -> Nat], NEW t \in Tabs, NEW c, Becomes(t, c),
         Good(World, t, c), Drifts(World, t, c), Attended(c)
  PROVE  AutosaveInv'
<1>1. World' = World
  BY DEF World, Still
<1>2. Quiet
  BY WorldIs DEF Quiet, Still, AutosaveInv, WorldOK
<1>3. WorldOK(World')
  BY <1>1 DEF AutosaveInv
<1>4. Good(World', t, c) /\ Drifts(World', t, c)
  BY <1>1
<1> QED BY <1>2, <1>3, <1>4, TabStep DEF Still

LEMMA Shown ==
  ASSUME NEW w, NEW t, NEW c, Drifts(w, t, c), NEW d, d.draft.content = c.draft.content
  PROVE  Drifts(w, t, d)
BY DEF Drifts, LetterOK, Harmless

LEMMA TabHolds ==
  ASSUME AutosaveInv, NEW t \in Tabs
  PROVE  /\ tab[t] \in Client /\ Good(World, t, tab[t]) /\ Drifts(World, t, tab[t]) /\ Attended(tab[t])
         /\ WorldOK(World) /\ World.cookie = cookie /\ cookie \in Nat /\ moves \in [Tabs -> Nat]
<1>1. WorldOK(World) /\ DOMAIN rows = 1..Len(rows) /\ Len(rows) \in Nat
  BY WorldIs, LenProperties DEF AutosaveInv, WorldOK
<1>2. cookie \in Nat
  BY <1>1, WorldIs DEF WorldOK, Known
<1> QED BY <1>1, <1>2, WorldIs DEF AutosaveInv

----------------------------------------------------------------------------
\* The form and its timers.

LEMMA ResumeStep ==
  ASSUME AutosaveInv, NEW t \in Tabs, Resume(t)
  PROVE  AutosaveInv'
<1> DEFINE c == tab[t]
           d == [c EXCEPT !.page = "editing"]
<1>0. c.page = "resume" /\ Becomes(t, d) /\ Still /\ moves' = moves
  BY DEF Resume, Still
<1>1. c \in Client /\ Good(World, t, c) /\ Drifts(World, t, c) /\ Attended(c)
  BY TabHolds
<1> HIDE DEF c
<1>2. d \in Client
  BY <1>1 DEF Client, Pages
<1>3. /\ d.page = "editing" /\ d.draft = c.draft /\ d.dirty = c.dirty /\ d.frozen = c.frozen /\ d.due = c.due
      /\ d.failed = c.failed /\ d.ask = c.ask /\ d.got = c.got
      /\ d.saves = c.saves /\ d.creates = c.creates /\ d.submit = c.submit
  BY <1>1 DEF Client
<1> HIDE DEF d
<1>4. Good(World, t, d)
  BY <1>0, <1>1, <1>2, <1>3, Flags
<1>5. Drifts(World, t, d)
  BY <1>1, <1>3, Shown
<1>6. Attended(d)
  BY <1>0, <1>1, <1>3 DEF Attended
<1> QED BY <1>0, <1>4, <1>5, <1>6, StillStep DEF AutosaveInv

\* A save is sent if it must be; what was marked for it no longer matters.
LEMMA WritingIs ==
  ASSUME NEW c \in Client, NEW session \in Nat, NEW awaited \in BOOLEAN
  PROVE  LET d == Writing(c, session, awaited) IN
         /\ d.page = c.page /\ d.draft = c.draft /\ d.dirty = c.dirty /\ d.frozen = c.frozen
         /\ d.due = c.due /\ d.failed = c.failed /\ d.ask = c.ask /\ d.got = c.got
         /\ d.creates = c.creates /\ d.submit = c.submit
         /\ d.saves = IF Writes(c) THEN Append(c.saves, Sent(c, session, awaited)) ELSE c.saves
BY DEF Writing, Client

LEMMA WritingSends ==
  ASSUME NEW c \in Client, NEW session \in Nat, NEW awaited \in BOOLEAN, Writes(c)
  PROVE  Writing(c, session, awaited).saves # <<>>
<1>1. Sent(c, session, awaited) \in Save /\ c.saves \in Seq(Save)
  BY DEF Sent, Save, NoDraft, Draft, Client
<1>2. Append(c.saves, Sent(c, session, awaited)) # <<>>
  BY <1>1, AppendProperties
<1>3. Writing(c, session, awaited).saves = Append(c.saves, Sent(c, session, awaited))
  BY WritingIs
<1> QED BY <1>2, <1>3

LEMMA WritingAttends ==
  ASSUME NEW c \in Client, NEW session \in Nat, NEW awaited \in BOOLEAN
  PROVE  Attended(Writing(c, session, awaited))
<1>1. CASE Writes(c)
  <2>1. Writing(c, session, awaited).saves # <<>>
    BY <1>1, WritingSends
  <2> QED BY <2>1 DEF Attended
<1>2. CASE ~ Writes(c)
  <2>1. Writing(c, session, awaited) = c
    BY <1>2 DEF Writing
  <2>2. ~ (c.dirty /\ c.draft.id # 0 /\ ~ c.frozen)
    BY <1>2 DEF Writes
  <2> QED BY <2>1, <2>2 DEF Attended
<1> QED BY <1>1, <1>2

LEMMA ServerTimerStep ==
  ASSUME AutosaveInv, NEW t \in Tabs, ServerTimer(t)
  PROVE  AutosaveInv'
<1> DEFINE c == tab[t]
           b == [c EXCEPT !.due = FALSE]
           d == Writing(b, cookie, FALSE)
<1>0. c.due /\ c.page # "closed" /\ Becomes(t, d) /\ Still /\ moves' = moves
  BY DEF ServerTimer, Still
<1>1. c \in Client /\ Good(World, t, c) /\ Drifts(World, t, c) /\ Attended(c) /\ WorldOK(World)
      /\ World.cookie = cookie /\ cookie \in Nat
  BY TabHolds
<1> HIDE DEF c
<1>2. b \in Client
  BY <1>1 DEF Client
<1>3. /\ b.page = c.page /\ b.draft = c.draft /\ b.dirty = c.dirty /\ b.frozen = c.frozen
      /\ b.ask = c.ask /\ b.got = c.got
      /\ b.saves = c.saves /\ b.creates = c.creates /\ b.submit = c.submit
  BY <1>1 DEF Client
<1> HIDE DEF b
<1>4. Good(World, t, b)
  BY <1>1, <1>2, <1>3, Flags
<1>5. Good(World, t, d)
  <2>1. CASE c.page \in {"mounted", "read"}
    <3>1. ~ Writes(b)
      BY <1>3, <1>4, <2>1 DEF Good, PageOK, Writes
    <3> QED BY <1>4, <3>1 DEF Writing
  <2>2. CASE c.page \notin {"mounted", "read"}
    BY <1>0, <1>1, <1>3, <1>4, <2>2, SaveSent
  <2> QED BY <2>1, <2>2
<1>6. Drifts(World, t, d)
  <2>1. d.draft = c.draft
    BY <1>1, <1>2, <1>3, WritingIs
  <2> QED BY <1>1, <2>1, Shown
<1>7. Attended(d)
  BY <1>1, <1>2, WritingAttends
<1> HIDE DEF d
<1> QED BY <1>0, <1>5, <1>6, <1>7, StillStep DEF AutosaveInv

LEMMA OnlineStep ==
  ASSUME AutosaveInv, NEW t \in Tabs, Online(t)
  PROVE  AutosaveInv'
<1> DEFINE c == tab[t]
           b == [c EXCEPT !.failed = FALSE]
           d == Writing(b, cookie, FALSE)
<1>0. c.failed /\ c.page # "closed" /\ Becomes(t, d) /\ Still /\ moves' = moves
  BY DEF Online, Still
<1>1. c \in Client /\ Good(World, t, c) /\ Drifts(World, t, c) /\ Attended(c) /\ WorldOK(World)
      /\ World.cookie = cookie /\ cookie \in Nat
  BY TabHolds
<1> HIDE DEF c
<1>2. b \in Client
  BY <1>1 DEF Client
<1>3. /\ b.page = c.page /\ b.draft = c.draft /\ b.dirty = c.dirty /\ b.frozen = c.frozen
      /\ b.ask = c.ask /\ b.got = c.got
      /\ b.saves = c.saves /\ b.creates = c.creates /\ b.submit = c.submit
  BY <1>1 DEF Client
<1> HIDE DEF b
<1>4. Good(World, t, b)
  BY <1>1, <1>2, <1>3, Flags
<1>5. Good(World, t, d)
  <2>1. CASE c.page \in {"mounted", "read"}
    <3>1. ~ Writes(b)
      BY <1>3, <1>4, <2>1 DEF Good, PageOK, Writes
    <3> QED BY <1>4, <3>1 DEF Writing
  <2>2. CASE c.page \notin {"mounted", "read"}
    BY <1>0, <1>1, <1>3, <1>4, <2>2, SaveSent
  <2> QED BY <2>1, <2>2
<1>6. Drifts(World, t, d)
  <2>1. d.draft = c.draft
    BY <1>1, <1>2, <1>3, WritingIs
  <2> QED BY <1>1, <2>1, Shown
<1>7. Attended(d)
  BY <1>1, <1>2, WritingAttends
<1> HIDE DEF d
<1> QED BY <1>0, <1>5, <1>6, <1>7, StillStep DEF AutosaveInv

\* Edit, Advance and Restart: the form is drawn again, and stamped.
LEMMA UpdatedIs ==
  ASSUME NEW c \in Client, NEW content, content \subseteq Edits, now \in Nat
  PROVE  LET d == Updated(c, content) IN
         /\ d \in Client /\ d.dirty /\ d.due
         /\ d.draft.id = c.draft.id /\ d.draft.content = content /\ d.draft.stamp = now + 1 + Skew
         /\ d.page = c.page /\ d.frozen = c.frozen /\ d.failed = c.failed /\ d.ask = c.ask /\ d.got = c.got
         /\ d.saves = c.saves /\ d.creates = c.creates /\ d.submit = c.submit
<1> DEFINE f == [c.draft EXCEPT !.content = content, !.stamp = now + 1 + Skew]
           d == [c EXCEPT !.draft = f, !.dirty = TRUE, !.due = TRUE]
<1>0. c.draft \in Draft
  BY DEF Client
<1>a. now + 1 + Skew \in Int
  OBVIOUS
<1>1. f \in Draft /\ f.id = c.draft.id /\ f.content = content /\ f.stamp = now + 1 + Skew
  BY <1>0, <1>a DEF Draft
<1>2. Updated(c, content) = d
  BY DEF Updated, Scheduled, Client, Draft
<1> HIDE DEF f
<1>3. d \in Client
  BY <1>1 DEF Client
<1> QED BY <1>1, <1>2, <1>3 DEF Client

LEMMA TypedDraft ==
  ASSUME AutosaveInv, Quiet, Tick, edits' \in 0..MaxEdits, NEW t \in Tabs, NEW content, content \subseteq 1..edits'
  PROVE  /\ Updated(tab[t], content).draft \in Draft /\ Updated(tab[t], content) \in Client
         /\ DraftOK(World', Updated(tab[t], content).draft)
<1> DEFINE c == tab[t]
           d == Updated(c, content)
<1>0. c \in Client /\ DraftOK(World, c.draft) /\ now \in Nat /\ content \subseteq Edits
  BY TabHolds, WorldIs DEF Good, FormsOK, WorldOK, Edits
<1> HIDE DEF c
<1>1. d \in Client /\ d.draft.id = c.draft.id /\ d.draft.content = content /\ d.draft.stamp = now + 1 + Skew
  BY <1>0, UpdatedIs
<1> HIDE DEF d
<1>2. d.draft \in Draft
  BY <1>1 DEF Client
<1>3. DraftOK(World', d.draft)
  BY <1>0, <1>1, <1>2, AheadIs, WorldIs, WorldBecomes DEF DraftOK, Quiet, Tick
<1> QED BY <1>1, <1>2, <1>3 DEF c, d

LEMMA Typed ==
  ASSUME AutosaveInv, WorldOK(World'), Quiet, Tick, NEW t \in Tabs,
         tab[t].page \in {"editing", "resume"},
         \A p \in adrift' : p \in adrift,
         NEW content, content \subseteq 1..edits',
         NEW N, content \subseteq tab[t].draft.content \cup N, N \cap 1..edits = {},
         tab[t].saves # <<>> => N \subseteq loose'
  PROVE  Good(World', t, Updated(tab[t], content)) /\ Drifts(World', t, Updated(tab[t], content))
<1> DEFINE c == tab[t]
           d == Updated(c, content)
<1>0. Good(World, t, c) /\ c \in Client /\ WorldOK(World)
  BY TabHolds
<1>1. Good(World', t, c) /\ Drifts(World', t, c)
  BY Meanwhile
<1>2. now \in Nat /\ edits' \in 0..MaxEdits /\ content \subseteq Edits
  BY <1>0, WorldIs, WorldBecomes DEF WorldOK, Edits
<1>6. DraftOK(World', d.draft)
  BY <1>2, TypedDraft
<1>4. c.page \in {"editing", "resume"}
  OBVIOUS
<1>10. d.draft.content \subseteq c.draft.content \cup World'.restored \cup N
  BY <1>0, <1>2, UpdatedIs
<1>11. c.saves # <<>> => N \subseteq World'.loose
  BY WorldBecomes
<1> HIDE DEF c
<1>3. /\ d \in Client /\ d.dirty /\ d.page = c.page /\ d.ask = c.ask /\ d.got = c.got
      /\ d.saves = c.saves /\ d.creates = c.creates /\ d.submit = c.submit
  BY <1>0, <1>2, UpdatedIs
<1> HIDE DEF d
<1>7. PageOK(World', d) /\ FormsOK(World', d) /\ Clean(World', t, d)
  BY <1>1, <1>3, <1>4, <1>6 DEF PageOK, FormsOK, Clean, Good
<1>8. \A i \in DOMAIN World'.rows : N \cap World'.rows[i].content = {}
  BY <1>0, RowNumbers, WorldIs, WorldBecomes DEF Quiet
<1>9. N \cap c.submit.payload = {}
  BY <1>0, WorldIs DEF Good, SubmitOK
<1>12. Good(World', t, d)
  BY <1>1, <1>3, <1>7, <1>8, <1>9, <1>10, <1>11, Redrawn
<1>13. Drifts(World', t, d)
  BY <1>1, <1>8, <1>10, DriftsRedrawn
<1> QED BY <1>12, <1>13 DEF c, d

LEMMA EditStep ==
  ASSUME AutosaveInv, NEW t \in Tabs, Edit(t)
  PROVE  AutosaveInv'
<1> DEFINE e == edits + 1
           content == tab[t].draft.content \cup {e}
           d == Updated(tab[t], content)
<1>0. /\ tab[t].page = "editing" /\ Tick /\ edits' = e /\ edits < MaxEdits /\ Becomes(t, d) /\ local' = d.draft
      /\ loose' = (IF tab[t].saves # <<>> THEN loose \cup {e} ELSE loose)
      /\ rows' = rows /\ cookie' = cookie /\ adrift' = adrift /\ restored' = restored /\ Move(t)
      /\ outrun' = outrun
  BY DEF Edit, Editing, SavesOf
<1>1. tab[t] \in Client /\ WorldOK(World) /\ moves \in [Tabs -> Nat] /\ DraftOK(World, tab[t].draft)
  BY TabHolds DEF Good, FormsOK
<1>2. edits \in Nat /\ now \in Nat /\ tab[t].draft.content \subseteq 1..edits
  BY <1>1, WorldIs DEF WorldOK, DraftOK
<1> HIDE DEF d
<1>3. Quiet
  BY <1>0, <1>2 DEF Quiet, Tick
<1>4. edits' \in 0..MaxEdits /\ content \subseteq 1..edits' /\ {e} \cap 1..edits = {} /\ e \in Edits
  BY <1>0, <1>2 DEF Edits
<1>5. DraftOK(World', d.draft)
  BY <1>0, <1>3, <1>4, TypedDraft DEF d
<1> HIDE DEF content, e
<1>6. WorldOK(World')
  BY <1>0, <1>1, <1>2, <1>3, <1>4, <1>5, QuietWorld, WorldIs DEF WorldOK, Tick
<1>7. content \subseteq tab[t].draft.content \cup {e} /\ (tab[t].saves # <<>> => {e} \subseteq loose')
  BY <1>0 DEF content
<1>8. Good(World', t, d) /\ Drifts(World', t, d)
  BY <1>0, <1>3, <1>4, <1>6, <1>7, Typed DEF d
<1>9. Attended(d)
  <2>1. content \subseteq Edits
    BY <1>4 DEF Edits
  <2>2. d.due
    BY <1>1, <1>2, <2>1, UpdatedIs DEF d
  <2> QED BY <2>2 DEF Attended
<1> QED BY <1>0, <1>1, <1>3, <1>6, <1>8, <1>9, MoveIs, TabStep

LEMMA AdvanceStep ==
  ASSUME AutosaveInv, NEW t \in Tabs, Advance(t)
  PROVE  AutosaveInv'
<1> DEFINE content == tab[t].draft.content
           b == Updated(tab[t], content)
           d == Flushing(b, FALSE)
<1>0. /\ tab[t].page = "editing" /\ Tick /\ edits' = edits /\ Becomes(t, d) /\ local' = d.draft /\ loose' = loose
      /\ rows' = rows /\ cookie' = cookie /\ adrift' = adrift /\ restored' = restored /\ Move(t)
      /\ outrun' = outrun
  BY DEF Advance, Editing
<1>1. tab[t] \in Client /\ WorldOK(World) /\ moves \in [Tabs -> Nat] /\ DraftOK(World, tab[t].draft)
      /\ cookie \in Nat
  BY TabHolds DEF Good, FormsOK
<1>2. edits \in 0..MaxEdits /\ now \in Nat /\ content \subseteq 1..edits
  BY <1>1, WorldIs DEF WorldOK, DraftOK
<1>3. Quiet
  BY <1>0, <1>2 DEF Quiet, Tick
<1>4. content \subseteq 1..edits' /\ edits' \in 0..MaxEdits /\ {} \cap 1..edits = {}
  BY <1>0, <1>2
<1> HIDE DEF d
<1>5. DraftOK(World', b.draft) /\ b \in Client
  BY <1>0, <1>3, <1>4, TypedDraft
<1>a. [b EXCEPT !.due = FALSE] \in Client /\ [b EXCEPT !.due = FALSE].draft = b.draft /\ b.page = tab[t].page
  <2>1. content \subseteq Edits
    BY <1>2 DEF Edits
  <2>2. b.page = tab[t].page
    BY <1>1, <1>2, <2>1, UpdatedIs
  <2> HIDE DEF b
  <2> QED BY <1>5, <2>2 DEF Client
<1>b. d.draft = b.draft
  BY <1>1, <1>a, WritingIs DEF d, Flushing
<1>6. WorldOK(World')
  BY <1>0, <1>1, <1>2, <1>3, <1>5, <1>b, QuietWorld, WorldIs DEF WorldOK, Tick
<1>8. Good(World', t, b) /\ Drifts(World', t, b)
  BY <1>0, <1>3, <1>4, <1>6, Typed
<1> HIDE DEF b
<1>c. Good(World', t, d)
  BY <1>0, <1>1, <1>6, <1>8, <1>a, FlushSent, WorldBecomes DEF d
<1>d. Drifts(World', t, d)
  BY <1>8, <1>b, Shown
<1>9. Attended(d)
  BY <1>1, <1>a, WritingAttends DEF d, Flushing
<1> QED BY <1>0, <1>1, <1>3, <1>6, <1>9, <1>c, <1>d, MoveIs, TabStep

LEMMA RestartStep ==
  ASSUME AutosaveInv, NEW t \in Tabs, Restart(t)
  PROVE  AutosaveInv'
<1> DEFINE b == Updated(tab[t], {})
           d == [b EXCEPT !.page = "editing"]
<1>0. /\ tab[t].page = "resume" /\ Tick /\ edits' = edits /\ Becomes(t, d) /\ local' = b.draft /\ loose' = loose
      /\ rows' = rows /\ cookie' = cookie /\ adrift' = adrift /\ restored' = restored /\ Move(t)
      /\ outrun' = outrun
  BY DEF Restart, Emptied
<1>1. tab[t] \in Client /\ WorldOK(World) /\ moves \in [Tabs -> Nat]
  BY TabHolds
<1>2. edits \in 0..MaxEdits /\ now \in Nat
  BY <1>1, WorldIs DEF WorldOK
<1>3. Quiet
  BY <1>0, <1>2 DEF Quiet, Tick
<1>4. edits' \in 0..MaxEdits /\ {} \subseteq 1..edits' /\ {} \cap 1..edits = {} /\ {} \subseteq Edits
  BY <1>0, <1>2
<1>5. DraftOK(World', b.draft) /\ b \in Client /\ b.page = "resume" /\ b.due
  BY <1>0, <1>1, <1>2, <1>3, <1>4, TypedDraft, UpdatedIs
<1>6. WorldOK(World')
  BY <1>0, <1>1, <1>2, <1>3, <1>5, QuietWorld, WorldIs DEF WorldOK, Tick
<1>8. Good(World', t, b) /\ Drifts(World', t, b)
  BY <1>0, <1>3, <1>4, <1>6, Typed
<1> HIDE DEF b
<1>a. d \in Client
  BY <1>5 DEF Client, Pages
<1>b. /\ d.page = "editing" /\ d.draft = b.draft /\ d.dirty = b.dirty /\ d.due = b.due
      /\ d.ask = b.ask /\ d.got = b.got
      /\ d.saves = b.saves /\ d.creates = b.creates /\ d.submit = b.submit
  BY <1>5 DEF Client
<1> HIDE DEF d
<1>c. Good(World', t, d)
  BY <1>5, <1>8, <1>a, <1>b, Flags
<1>d. Drifts(World', t, d)
  BY <1>8, <1>b, Shown
<1>9. Attended(d)
  BY <1>5, <1>b DEF Attended
<1> QED BY <1>0, <1>1, <1>3, <1>6, <1>9, <1>c, <1>d, MoveIs, TabStep

\* A step that keeps a draft in the browser and puts saves adrift, and nothing else.
LEMMA LocalWorld ==
  ASSUME AutosaveInv, NEW t \in Tabs, local' \in {local, tab[t].draft, tab[t].ask},
         adrift' \subseteq Letters, loose \subseteq loose', loose' \subseteq Edits,
         restored \subseteq restored', restored' \subseteq Edits,
         UNCHANGED <<rows, cookie, now, edits, outrun>>
  PROVE  Quiet /\ WorldOK(World')
<1>1. WorldOK(World) /\ now \in Nat /\ edits \in 0..MaxEdits /\ DraftOK(World, local')
      /\ (cookie = 0 \/ cookie \in Known(World))
  BY TabHolds, WorldIs DEF WorldOK, Good, FormsOK
<1>2. Quiet
  BY <1>1 DEF Quiet
<1> QED BY <1>1, <1>2, QuietWorld

LEMMA LeaveStep ==
  ASSUME AutosaveInv, NEW t \in Tabs, Leave(t)
  PROVE  AutosaveInv'
<1> DEFINE c == tab[t]
           b == Flushing(c, FALSE)
           d == [b EXCEPT !.page = "resume"]
<1>0. /\ c.page = "editing" /\ Becomes(t, d) /\ Move(t) /\ local' = c.draft
      /\ UNCHANGED <<rows, cookie, adrift, now, edits, loose, restored, outrun>>
  BY DEF Leave, Editing
<1>1. c \in Client /\ Good(World, t, c) /\ Drifts(World, t, c) /\ WorldOK(World) /\ cookie \in Nat
      /\ moves \in [Tabs -> Nat] /\ loose \subseteq Edits /\ restored \subseteq Edits /\ adrift \subseteq Letters
  BY TabHolds, WorldIs DEF WorldOK
<1>2. Quiet /\ WorldOK(World')
  BY <1>0, <1>1, LocalWorld
<1>3. Good(World', t, c) /\ Drifts(World', t, c)
  BY <1>0, <1>2, Meanwhile
<1> HIDE DEF c
<1>4. Good(World', t, b) /\ b \in Client
  BY <1>0, <1>1, <1>2, <1>3, FlushSent, WorldBecomes DEF Good
<1>5. [c EXCEPT !.due = FALSE] \in Client /\ [c EXCEPT !.due = FALSE].draft = c.draft
      /\ [c EXCEPT !.due = FALSE].page = c.page
  BY <1>1 DEF Client
<1>6. b.draft = c.draft /\ b.page = "editing" /\ Attended(b)
  BY <1>0, <1>1, <1>5, WritingIs, WritingAttends DEF Flushing
<1> HIDE DEF b
<1>a. d \in Client
  BY <1>4 DEF Client, Pages
<1>b. /\ d.page = "resume" /\ d.draft = b.draft /\ d.dirty = b.dirty /\ d.due = b.due
      /\ d.ask = b.ask /\ d.got = b.got /\ d.frozen = b.frozen /\ d.failed = b.failed
      /\ d.saves = b.saves /\ d.creates = b.creates /\ d.submit = b.submit
  BY <1>4 DEF Client
<1> HIDE DEF d
<1>c. Good(World', t, d)
  BY <1>4, <1>6, <1>a, <1>b, Flags
<1>d. Drifts(World', t, d)
  BY <1>3, <1>6, <1>b, Shown
<1>9. Attended(d)
  BY <1>6, <1>b DEF Attended
<1> QED BY <1>0, <1>1, <1>2, <1>9, <1>c, <1>d, MoveIs, TabStep

LEMMA SubmitStep ==
  ASSUME AutosaveInv, NEW t \in Tabs, Submit(t)
  PROVE  AutosaveInv'
<1> DEFINE c == tab[t]
           b == [c EXCEPT !.due = FALSE]
           d == Begin(c)
<1>0. /\ c.page = "editing" /\ ~ c.frozen /\ c.submit.at = "idle" /\ Becomes(t, d) /\ Move(t) /\ local' = c.draft
      /\ UNCHANGED <<rows, cookie, adrift, now, edits, loose, restored, outrun>>
  BY DEF Submit, Editing
<1>1. c \in Client /\ Good(World, t, c) /\ Drifts(World, t, c) /\ WorldOK(World) /\ cookie \in Nat
      /\ moves \in [Tabs -> Nat] /\ loose \subseteq Edits /\ restored \subseteq Edits /\ adrift \subseteq Letters
  BY TabHolds, WorldIs DEF WorldOK
<1>2. Quiet /\ WorldOK(World')
  BY <1>0, <1>1, LocalWorld
<1>3. Good(World', t, c) /\ Drifts(World', t, c)
  BY <1>0, <1>2, Meanwhile
<1> HIDE DEF c
<1>4. Good(World', t, d) /\ d \in Client
  BY <1>0, <1>1, <1>2, <1>3, SubmitBegun, WorldBecomes DEF Good
<1>5. b \in Client /\ b.draft = c.draft
  BY <1>1 DEF Client
<1>6. Flushing(c, TRUE).draft = c.draft /\ Attended(Flushing(c, TRUE)) /\ Flushing(c, TRUE) \in Client
  <2>1. Flushing(c, TRUE) = Writing(b, cookie, TRUE)
    BY DEF Flushing
  <2>2. Sent(b, cookie, TRUE) \in Save
    BY <1>1, <1>5 DEF Sent, Save, NoDraft, Draft, Client
  <2>3. b.saves \in Seq(Save)
    BY <1>5 DEF Client
  <2>4. Append(b.saves, Sent(b, cookie, TRUE)) \in Seq(Save)
    BY <2>2, <2>3, AppendProperties
  <2> HIDE DEF b
  <2>5. Writing(b, cookie, TRUE) \in Client
    BY <1>5, <2>4 DEF Writing, Client
  <2>6. Writing(b, cookie, TRUE).draft = c.draft
    BY <1>1, <1>5, WritingIs
  <2>7. Attended(Writing(b, cookie, TRUE))
    BY <1>1, <1>5, WritingAttends
  <2> QED BY <2>1, <2>5, <2>6, <2>7
<1>7. d.draft = c.draft /\ Attended(d)
  <2> DEFINE f == Flushing(c, TRUE)
  <2> HIDE DEF f
  <2>1. f \in Client /\ f.draft = c.draft /\ Attended(f)
    BY <1>6 DEF f
  <2>2. PICK s : d = [f EXCEPT !.submit = s] \/ d = Ensured([f EXCEPT !.submit = s])
    BY DEF Begin, f
  <2> HIDE DEF d
  <2>3. /\ d.draft = f.draft /\ d.page = f.page /\ d.dirty = f.dirty /\ d.frozen = f.frozen /\ d.due = f.due
        /\ d.saves = f.saves /\ d.ask = f.ask /\ d.failed = f.failed
    BY <2>1, <2>2 DEF Ensured, Post, Client
  <2> QED BY <2>1, <2>3 DEF Attended
<1>d. Drifts(World', t, d)
  BY <1>3, <1>7, Shown
<1> QED BY <1>0, <1>1, <1>2, <1>4, <1>7, <1>d, MoveIs, TabStep

\* A save that is sent as its document goes.
LEMMA PartingIs ==
  ASSUME AutosaveInv, NEW t \in Tabs, NEW w, Good(w, t, tab[t]), WorldOK(w), w.cookie = cookie
  PROVE  /\ Parting(t) \subseteq Letters
         /\ \A p \in Parting(t) : p.by = t /\ LetterOK(w, tab[t], p)
<1> SUFFICES ASSUME Writes(tab[t]), NEW p, p = [by |-> t, body |-> tab[t].draft, session |-> cookie]
             PROVE  p \in Letters /\ p.by = t /\ LetterOK(w, tab[t], p)
  BY DEF Parting
<1>1. tab[t].draft \in Draft /\ cookie \in Nat
  BY TabHolds DEF Client
<1>2. w.cookie \in Known(w) /\ w.cookie # 0 /\ DraftOK(w, tab[t].draft)
  BY DEF Writes, Good, FormsOK, DraftOK, WorldOK
<1> QED BY <1>1, <1>2 DEF Letters, LetterOK, Harmless

LEMMA HideStep ==
  ASSUME AutosaveInv, NEW t \in Tabs, Hide(t)
  PROVE  AutosaveInv'
<1> DEFINE c == tab[t]
<1>0. /\ Move(t) /\ local' = c.draft /\ adrift' = adrift \cup Parting(t)
      /\ UNCHANGED <<rows, cookie, tab, now, edits, loose, restored, outrun>>
  BY DEF Hide
<1>1. c \in Client /\ Good(World, t, c) /\ Drifts(World, t, c) /\ Attended(c) /\ WorldOK(World) /\ World.cookie = cookie
      /\ moves \in [Tabs -> Nat] /\ loose \subseteq Edits /\ restored \subseteq Edits /\ adrift \subseteq Letters
      /\ tab \in [Tabs -> Client]
  BY TabHolds, WorldIs DEF WorldOK, AutosaveInv
<1>2. Parting(t) \subseteq Letters /\ \A p \in Parting(t) : p.by = t
  BY <1>1, PartingIs
<1>3. Quiet /\ WorldOK(World')
  BY <1>0, <1>1, <1>2, LocalWorld
<1>4. Good(World', t, c)
  BY <1>3, Meanwhile
<1>5. Evolves(World, World', t, c)
  BY <1>3, QuietEvolves
<1>6. Drifts(World', t, c)
  <2>1. \A p \in Parting(t) : LetterOK(World', c, p)
    BY <1>0, <1>3, <1>4, PartingIs, WorldBecomes
  <2>2. \A p \in adrift : p.by = t => LetterOK(World', c, p)
    BY <1>1, <1>3, <1>5, LetterEvolves, WorldIs DEF Drifts
  <2> QED BY <1>0, <2>1, <2>2, WorldBecomes DEF Drifts
<1>7. Becomes(t, c)
  BY <1>0, <1>1 DEF Becomes
<1> QED BY <1>0, <1>1, <1>2, <1>3, <1>4, <1>6, <1>7, MoveIs, TabStep

----------------------------------------------------------------------------
\* Closing, opening, conflicts.

LEMMA FreshIs ==
  ASSUME NEW page \in Pages, NEW draft \in Draft
  PROVE  LET d == Fresh(page, draft) IN
         /\ d \in Client /\ d.page = page /\ d.draft = draft /\ ~ d.dirty /\ ~ d.frozen /\ d.ask = NoDraft /\ d.got = NoDraft
         /\ d.saves = <<>> /\ d.creates = <<>> /\ d.submit = Idle
<1>1. NoDraft \in Draft /\ Idle \in Submission /\ <<>> \in Seq(Save) /\ <<>> \in Seq(Create)
  BY DEF NoDraft, Draft, Idle, Submission, Submits
<1> HIDE DEF NoDraft, Idle
<1> QED BY <1>1 DEF Fresh, Client

LEMMA NoDraftOK ==
  ASSUME NEW w, WorldOK(w)
  PROVE  DraftOK(w, NoDraft) /\ CopyOK(w, NoDraft)
BY AheadIs DEF NoDraft, DraftOK, CopyOK, Draft, WorldOK

\* A client that has no call on its way.
LEMMA Alone ==
  ASSUME NEW w, WorldOK(w), NEW t, NEW d \in Client, d.saves = <<>>, d.creates = <<>>,
         DraftOK(w, d.draft), d.ask = NoDraft, d.got = NoDraft, ~ d.dirty, ~ d.frozen,
         (d.page = "mounted" /\ d.submit = Idle) \/ d.page = "closed", SubmitOK(w, t, d)
  PROVE  Good(w, t, d) /\ Attended(d)
<1>1. PageOK(w, d) /\ Clean(w, t, d) /\ Attended(d)
  BY DEF PageOK, Clean, Attended, NoDraft
<1>2. FormsOK(w, d)
  BY NoDraftOK DEF FormsOK
<1>3. CallsOK(w, t, d)
  BY DEF CallsOK, Once
<1> QED BY <1>1, <1>2, <1>3 DEF Good

LEMMA IdleOK ==
  ASSUME NEW w, NEW t, NEW d, d.submit = Idle
  PROVE  SubmitOK(w, t, d)
BY DEF SubmitOK, Idle

LEMMA CloseStep ==
  ASSUME AutosaveInv, NEW t \in Tabs, Close(t)
  PROVE  AutosaveInv'
<1> DEFINE c == tab[t]
           b == IF c.submit.at \in Reached THEN Fresh("closed", c.draft) ELSE Fresh("closed", NoDraft)
           d == IF c.submit.at \in Reached THEN [Fresh("closed", c.draft) EXCEPT !.submit = c.submit]
                ELSE Fresh("closed", NoDraft)
           Left == {Adrift(t, c.saves[k]) : k \in {j \in DOMAIN c.saves : c.saves[j].state = "sent"}}
<1>0. /\ Move(t) /\ Becomes(t, d) /\ local' = c.draft /\ adrift' = (adrift \cup Parting(t)) \cup Left
      /\ UNCHANGED <<rows, cookie, now, edits, loose, restored, outrun>>
  BY DEF Close
<1>1. c \in Client /\ Good(World, t, c) /\ Drifts(World, t, c) /\ Attended(c) /\ WorldOK(World) /\ World.cookie = cookie
      /\ moves \in [Tabs -> Nat] /\ loose \subseteq Edits /\ restored \subseteq Edits /\ adrift \subseteq Letters
  BY TabHolds, WorldIs DEF WorldOK
<1>2. Parting(t) \subseteq Letters /\ \A p \in Parting(t) : p.by = t
  BY <1>1, PartingIs
<1>3. Left \subseteq Letters /\ \A p \in Left : p.by = t
  <2>1. \A k \in DOMAIN c.saves : c.saves[k] \in Save
    BY <1>1 DEF Client
  <2> QED BY <2>1 DEF Adrift, Letters, Save
<1>4. adrift' \subseteq Letters
  BY <1>0, <1>1, <1>2, <1>3
<1>5. Quiet /\ WorldOK(World')
  BY <1>0, <1>1, <1>4, LocalWorld
<1>6. Good(World', t, c)
  BY <1>5, Meanwhile
<1>7. Evolves(World, World', t, c)
  BY <1>5, QuietEvolves
<1>8. \A p \in adrift' : p.by = t => LetterOK(World', c, p)
  <2>1. \A p \in Parting(t) : LetterOK(World', c, p)
    BY <1>0, <1>5, <1>6, PartingIs, WorldBecomes
  <2>2. \A p \in adrift : p.by = t => LetterOK(World', c, p)
    BY <1>1, <1>5, <1>7, LetterEvolves, WorldIs DEF Drifts
  <2>3. \A p \in Left : LetterOK(World', c, p)
    <3>1. \A k \in DOMAIN c.saves : LetterOK(World', c, c.saves[k])
      BY <1>6 DEF Good, CallsOK, SaveOK
    <3> QED BY <3>1 DEF LetterOK, Harmless, Adrift
  <2> QED BY <1>0, <2>1, <2>2, <2>3
<1>9. \A p \in adrift' : p.by # t => p \in adrift
  BY <1>0, <1>2, <1>3
<1> HIDE DEF c, Left
<1>a. DraftOK(World', c.draft) /\ DraftOK(World', NoDraft) /\ SubmitOK(World', t, c) /\ c.draft \in Draft
      /\ c.submit \in Submission /\ NoDraft \in Draft
  BY <1>1, <1>5, <1>6, NoDraftOK DEF Good, FormsOK, Client, DraftOK
<1>b. Good(World', t, d) /\ Attended(d) /\ d.draft \in {c.draft, NoDraft}
  <2>1. CASE c.submit.at \in Reached
    <3> DEFINE f == Fresh("closed", c.draft)
    <3>1. /\ f \in Client /\ f.page = "closed" /\ f.draft = c.draft /\ ~ f.dirty /\ ~ f.frozen /\ f.ask = NoDraft /\ f.got = NoDraft
          /\ f.saves = <<>> /\ f.creates = <<>>
      BY <1>a, FreshIs DEF Pages
    <3> HIDE DEF f
    <3>2. d = [f EXCEPT !.submit = c.submit]
      BY <2>1 DEF f
    <3> HIDE DEF d
    <3>3. /\ d \in Client /\ d.page = "closed" /\ d.draft = c.draft /\ ~ d.dirty /\ ~ d.frozen /\ d.ask = NoDraft /\ d.got = NoDraft
          /\ d.saves = <<>> /\ d.creates = <<>> /\ d.submit = c.submit
      BY <1>a, <3>1, <3>2 DEF Client
    <3>4. SubmitOK(World', t, d)
      BY <1>a, <3>3 DEF SubmitOK
    <3> QED BY <1>5, <1>a, <3>3, <3>4, Alone
  <2>2. CASE c.submit.at \notin Reached
    <3>1. d = Fresh("closed", NoDraft)
      BY <2>2
    <3> HIDE DEF d
    <3>2. /\ d \in Client /\ d.page = "closed" /\ d.draft = NoDraft /\ ~ d.dirty /\ ~ d.frozen /\ d.ask = NoDraft /\ d.got = NoDraft
          /\ d.saves = <<>> /\ d.creates = <<>> /\ d.submit = Idle
      BY <1>a, <3>1, FreshIs DEF Pages
    <3> QED BY <1>5, <1>a, <3>2, Alone, IdleOK
  <2> QED BY <2>1, <2>2
<1> HIDE DEF d
<1>c. Drifts(World', t, d)
  <2>1. d.draft.content \subseteq c.draft.content
    BY <1>b DEF NoDraft
  <2> QED BY <1>8, <2>1, WorldBecomes DEF Drifts, LetterOK, Harmless
<1> QED BY <1>0, <1>1, <1>5, <1>9, <1>b, <1>c, MoveIs, TabStep

LEMMA MountStep ==
  ASSUME AutosaveInv, NEW t \in Tabs, Mount(t)
  PROVE  AutosaveInv'
<1> DEFINE c == tab[t]
           d == Fresh("mounted", local)
           Stale == {e \in local.content : \E p \in adrift : p.by = t /\ e \notin p.body.content}
<1>0. /\ Move(t) /\ Becomes(t, d) /\ restored' = restored \cup Stale
      /\ UNCHANGED <<rows, cookie, local, adrift, now, edits, loose, outrun>>
  BY DEF Mount
<1>1. c \in Client /\ Good(World, t, c) /\ Drifts(World, t, c) /\ Attended(c) /\ WorldOK(World) /\ World.cookie = cookie
      /\ moves \in [Tabs -> Nat] /\ loose \subseteq Edits /\ restored \subseteq Edits /\ adrift \subseteq Letters
      /\ local \in Draft
  BY TabHolds, WorldIs DEF WorldOK, DraftOK
<1>2. restored' \subseteq Edits
  BY <1>0, <1>1 DEF Draft
<1>3. Quiet /\ WorldOK(World')
  BY <1>0, <1>1, <1>2, LocalWorld
<1>4. Good(World', t, c) /\ Drifts(World', t, c)
  BY <1>0, <1>3, Meanwhile
<1>5. /\ d \in Client /\ d.page = "mounted" /\ d.draft = local /\ ~ d.dirty /\ ~ d.frozen /\ d.ask = NoDraft /\ d.got = NoDraft
      /\ d.saves = <<>> /\ d.creates = <<>> /\ d.submit = Idle
  BY <1>1, FreshIs DEF Pages
<1> HIDE DEF c, d
<1>6. DraftOK(World', local)
  BY <1>0, <1>3, WorldBecomes DEF WorldOK
<1>7. Good(World', t, d) /\ Attended(d)
  BY <1>3, <1>5, <1>6, Alone, IdleOK
<1>8. Drifts(World', t, d)
  <2> SUFFICES ASSUME NEW p \in adrift, p.by = t PROVE LetterOK(World', d, p)
    BY <1>0, WorldBecomes DEF Drifts
  <2>1. LetterOK(World', c, p)
    BY <1>0, <1>4, WorldBecomes DEF Drifts
  <2>2. local.content \ p.body.content \subseteq World'.restored
    BY <1>0, WorldBecomes
  <2>3. Harmless(World', d, p)
    BY <1>5, <2>2 DEF Harmless
  <2> QED BY <2>1, <2>3 DEF LetterOK
<1> QED BY <1>0, <1>1, <1>3, <1>7, <1>8, MoveIs, TabStep

LEMMA UploadStep ==
  ASSUME AutosaveInv, NEW t \in Tabs, Upload(t)
  PROVE  AutosaveInv'
<1> DEFINE c == tab[t]
           d == Post(c, FALSE)
<1>0. c.page = "editing" /\ Becomes(t, d) /\ Still /\ Move(t)
  BY DEF Upload, Still, Editing
<1>1. c \in Client /\ Good(World, t, c) /\ Drifts(World, t, c) /\ Attended(c) /\ WorldOK(World)
      /\ World.cookie = cookie /\ cookie \in Nat /\ moves \in [Tabs -> Nat]
  BY TabHolds
<1> HIDE DEF c
<1>2. Good(World, t, d)
  BY <1>0, <1>1, CreateSent
<1>3. /\ d.page = c.page /\ d.draft = c.draft /\ d.dirty = c.dirty /\ d.frozen = c.frozen /\ d.due = c.due
      /\ d.failed = c.failed /\ d.ask = c.ask /\ d.saves = c.saves
  BY <1>1 DEF Client, Post
<1> HIDE DEF d
<1>4. Drifts(World, t, d) /\ Attended(d)
  BY <1>1, <1>3, Shown DEF Attended
<1> QED BY <1>0, <1>1, <1>2, <1>4, MoveIs, StillStep

\* What a tab takes from a copy is excused, or is what the row has while nothing of
\* the tab is on its way.
LEMMA Taken ==
  ASSUME AutosaveInv, NEW t \in Tabs, NEW copy, DraftOK(World, copy), CopyOK(World, copy), copy.id # 0,
         rows' = rows, adrift' = adrift, Restores(t, copy)
  PROVE  \E N : /\ copy.content \subseteq restored' \cup N /\ N \subseteq copy.content
                /\ tab[t].saves # <<>> => N = {}
                /\ (\E p \in adrift' : p.by = t) => N = {}
                /\ N \subseteq rows[copy.id].content
                /\ restored \subseteq restored' /\ restored' \subseteq Edits
<1> DEFINE P(N) == /\ copy.content \subseteq restored' \cup N /\ N \subseteq copy.content
                   /\ tab[t].saves # <<>> => N = {}
                   /\ (\E p \in adrift' : p.by = t) => N = {}
                   /\ N \subseteq rows[copy.id].content
                   /\ restored \subseteq restored' /\ restored' \subseteq Edits
<1>1. copy.content \subseteq Edits /\ restored \subseteq Edits
  BY TabHolds, WorldIs DEF WorldOK, DraftOK, Draft
<1>2. CASE InFlight(t) \/ rows[copy.id].updated # copy.stamp
  <2>1. restored' = restored \cup copy.content
    BY <1>2 DEF Restores
  <2>2. P({})
    BY <1>1, <2>1
  <2> HIDE DEF P
  <2>3. \E N : P(N)
    BY <2>2
  <2> QED BY <2>3 DEF P
<1>3. CASE ~ (InFlight(t) \/ rows[copy.id].updated # copy.stamp)
  <2>1. restored' = restored
    BY <1>3 DEF Restores
  <2>2. tab[t].saves = <<>> /\ ~ (\E p \in adrift' : p.by = t)
    BY <1>3 DEF InFlight, SavesOf
  <2>3. copy.content = rows[copy.id].content
    BY <1>3, WorldIs DEF CopyOK
  <2>4. P(copy.content)
    BY <1>1, <2>1, <2>2, <2>3
  <2> HIDE DEF P
  <2>5. \E N : P(N)
    BY <2>4
  <2> QED BY <2>5 DEF P
<1> QED BY <1>2, <1>3

\* A tab that shows the copy is clean: the row has the copy, or it is excused.
LEMMA TakenIsKept ==
  ASSUME NEW w, NEW t, NEW copy, NEW N, copy.content \subseteq w.restored \cup N, N \subseteq w.rows[copy.id].content
  PROVE  Kept(w, t, copy.id, copy.content)
BY DEF Kept, Excused

LEMMA UseServerStep ==
  ASSUME AutosaveInv, NEW t \in Tabs, UseServer(t)
  PROVE  AutosaveInv'
<1> DEFINE c == tab[t]
           n == [c.submit EXCEPT !.saved = IF c.submit.saved = c.ask.id THEN c.submit.saved ELSE 0]
           d == [c EXCEPT !.draft = c.ask, !.ask = NoDraft, !.dirty = FALSE, !.submit = n]
<1>0. /\ c.ask.id # 0 /\ c.page # "closed" /\ Move(t) /\ local' = c.ask /\ Restores(t, c.ask)
      /\ UNCHANGED <<rows, cookie, adrift, now, edits, loose, outrun>>
  BY DEF UseServer
<1>1. c \in Client /\ Good(World, t, c) /\ Drifts(World, t, c) /\ WorldOK(World) /\ c.submit \in Submission
      /\ moves \in [Tabs -> Nat] /\ loose \subseteq Edits /\ adrift \subseteq Letters
      /\ DraftOK(World, c.ask) /\ CopyOK(World, c.ask) /\ c.ask \in Draft
  BY TabHolds, WorldIs DEF WorldOK, Good, FormsOK, Client
<1>2. Becomes(t, d)
  BY <1>1 DEF UseServer, Becomes, Client
<1>3. PICK N : /\ c.ask.content \subseteq restored' \cup N /\ N \subseteq c.ask.content
               /\ c.saves # <<>> => N = {}
               /\ (\E p \in adrift' : p.by = t) => N = {}
               /\ N \subseteq rows[c.ask.id].content
               /\ restored \subseteq restored' /\ restored' \subseteq Edits
  BY <1>0, <1>1, Taken
<1>4. Quiet /\ WorldOK(World')
  BY <1>0, <1>1, <1>3, LocalWorld
<1>5. Good(World', t, c) /\ Drifts(World', t, c)
  BY <1>0, <1>4, Meanwhile
<1>a. World'.rows = rows /\ World'.restored = restored' /\ World'.adrift = adrift'
  BY <1>0, WorldBecomes
<1> HIDE DEF c
<1>6. n \in Submission /\ n.at = c.submit.at /\ n.payload = c.submit.payload /\ n.session = c.submit.session
      /\ n.row = c.submit.row /\ (n.saved # 0 => n.saved = c.submit.saved /\ n.saved = c.ask.id)
  BY <1>1 DEF Submission
<1> HIDE DEF n
<1>7. NoDraft \in Draft
  BY DEF NoDraft, Draft
<1>8. d \in Client
  BY <1>1, <1>6, <1>7 DEF Client
<1>9. /\ d.page = c.page /\ d.draft = c.ask /\ ~ d.dirty /\ d.ask = NoDraft /\ d.got = c.got
      /\ d.saves = c.saves /\ d.creates = c.creates /\ d.submit = n
  BY <1>1 DEF Client
<1> HIDE DEF d
<1>b. c.page \notin {"mounted", "read", "closed"}
  BY <1>0, <1>5 DEF Good, PageOK
<1>c. PageOK(World', d) /\ FormsOK(World', d)
  BY <1>4, <1>5, <1>9, <1>b, NoDraftOK DEF PageOK, FormsOK, Good
<1>d. Clean(World', t, d)
  BY <1>3, <1>9, <1>a, TakenIsKept DEF Clean
<1>e. Good(World', t, d)
  BY <1>3, <1>5, <1>6, <1>8, <1>9, <1>a, <1>c, <1>d, Redrawn
<1>f. Drifts(World', t, d)
  BY <1>3, <1>5, <1>9, <1>a, DriftsRedrawn
<1>g. Attended(d)
  BY <1>9 DEF Attended
<1> QED BY <1>0, <1>1, <1>2, <1>4, <1>e, <1>f, <1>g, MoveIs, TabStep

\* A draft that gets another id, and is dirty, stays good.
LEMMA Named ==
  ASSUME NEW w, NEW t, NEW c, Good(w, t, c), NEW d \in Client,
         d.draft.content = c.draft.content, d.saves = c.saves, d.creates = c.creates, d.submit = c.submit,
         DraftOK(w, d.draft), d.ask \in {c.ask, NoDraft}, d.got \in {c.got, NoDraft}, d.dirty,
         d.page \notin {"mounted", "read", "closed"}, WorldOK(w)
  PROVE  Good(w, t, d)
<1>1. PageOK(w, d) /\ Clean(w, t, d)
  BY DEF PageOK, Clean
<1>2. FormsOK(w, d)
  BY NoDraftOK DEF Good, FormsOK
<1> QED BY <1>1, <1>2, Rests

LEMMA UseLocalStep ==
  ASSUME AutosaveInv, NEW t \in Tabs, UseLocal(t)
  PROVE  AutosaveInv'
<1> DEFINE c == tab[t]
           f == [c.draft EXCEPT !.id = c.ask.id, !.stamp = c.ask.stamp]
           b == [c EXCEPT !.draft = f, !.ask = NoDraft, !.dirty = TRUE]
           d == Writing(b, cookie, FALSE)
<1>0. /\ c.ask.id # 0 /\ c.page # "closed" /\ Move(t)
      /\ loose' = (IF c.ask.id = c.draft.id THEN loose ELSE loose \cup c.draft.content)
      /\ UNCHANGED <<rows, cookie, local, adrift, now, edits, restored, outrun>>
  <2> DEFINE a == [c EXCEPT !.draft.id = c.ask.id, !.draft.stamp = c.ask.stamp,
                            !.ask = NoDraft, !.dirty = TRUE]
  <2>1. tab[t] \in Client
    BY TabHolds
  <2>2. a.draft.content = c.draft.content
    BY <2>1 DEF Client, Draft
  <2> QED BY <2>2 DEF UseLocal
<1>1. c \in Client /\ Good(World, t, c) /\ Drifts(World, t, c) /\ WorldOK(World) /\ cookie \in Nat
      /\ moves \in [Tabs -> Nat] /\ loose \subseteq Edits /\ adrift \subseteq Letters /\ restored \subseteq Edits
      /\ DraftOK(World, c.ask) /\ c.ask \in Draft /\ c.draft \in Draft
  BY TabHolds, WorldIs DEF WorldOK, Good, FormsOK, Client
<1>2. Becomes(t, d)
  <2>1. b = [c EXCEPT !.draft.id = c.ask.id, !.draft.stamp = c.ask.stamp, !.ask = NoDraft, !.dirty = TRUE]
    BY <1>1 DEF Client, Draft
  <2> QED BY <2>1 DEF UseLocal
<1>3. loose \subseteq loose' /\ loose' \subseteq Edits
  BY <1>0, <1>1 DEF Draft
<1>4. Quiet /\ WorldOK(World')
  BY <1>0, <1>1, <1>3, LocalWorld
<1>5. Good(World', t, c) /\ Drifts(World', t, c)
  BY <1>0, <1>4, Meanwhile
<1> HIDE DEF c
<1>6. f \in Draft /\ f.id = c.ask.id /\ f.content = c.draft.content /\ f.stamp = c.ask.stamp
  BY <1>1 DEF Draft
<1>7. NoDraft \in Draft
  BY DEF NoDraft, Draft
<1> HIDE DEF f, NoDraft
<1>8. b \in Client
  BY <1>1, <1>6, <1>7 DEF Client
<1>9. /\ b.page = c.page /\ b.draft = f /\ b.dirty /\ b.ask = NoDraft /\ b.got = c.got
      /\ b.saves = c.saves /\ b.creates = c.creates /\ b.submit = c.submit
  BY <1>1 DEF Client
<1> HIDE DEF b
<1>a. DraftOK(World', f)
  BY <1>5, <1>6 DEF Good, FormsOK, DraftOK
<1>b. c.page \notin {"mounted", "read", "closed"}
  BY <1>0, <1>5 DEF Good, PageOK
<1>c. Good(World', t, b)
  BY <1>4, <1>5, <1>6, <1>8, <1>9, <1>a, <1>b, Named
<1>d. World'.cookie = cookie
  BY <1>0, WorldBecomes
<1>e. Good(World', t, d)
  BY <1>1, <1>4, <1>9, <1>b, <1>c, <1>d, SaveSent
<1>f. d.draft.content = c.draft.content /\ Attended(d)
  BY <1>1, <1>6, <1>8, <1>9, WritingIs, WritingAttends
<1> HIDE DEF d
<1>g. Drifts(World', t, d)
  BY <1>5, <1>f, Shown
<1> QED BY <1>0, <1>1, <1>2, <1>4, <1>e, <1>f, <1>g, MoveIs, TabStep

\* What the api answers: the draft as the row has it.
LEMMA ViewOK ==
  ASSUME WorldOK(World), NEW i \in DOMAIN rows, cookie # 0
  PROVE  View(i) \in Draft /\ DraftOK(World, View(i)) /\ CopyOK(World, View(i))
<1>1. /\ rows[i] \in Row /\ rows[i].updated \in Nat /\ rows[i].updated <= now
      /\ rows[i].content \subseteq 1..edits /\ edits \in 0..MaxEdits /\ i \in Nat
  BY RowNumbers, WorldIs, LenProperties DEF WorldOK
<1>2. View(i) \in Draft /\ View(i).id = i /\ View(i).content = rows[i].content /\ View(i).stamp = rows[i].updated
  BY <1>1 DEF View, Draft, Edits
<1>3. now \in Nat
  BY WorldIs DEF WorldOK
<1> QED BY <1>1, <1>2, <1>3, AheadIs, WorldIs DEF DraftOK, CopyOK

LEMMA LoadStep ==
  ASSUME AutosaveInv, NEW t \in Tabs, Load(t)
  PROVE  AutosaveInv'
<1> DEFINE c == tab[t]
           got == IF cookie = 0 THEN NoDraft ELSE View(Current(cookie))
<1>0. c.page = "mounted" /\ UNCHANGED <<rows, cookie, local, adrift, now, edits, restored, outrun>>
  BY DEF Load
<1>1. c \in Client /\ Good(World, t, c) /\ Drifts(World, t, c) /\ WorldOK(World) /\ World.cookie = cookie
      /\ moves \in [Tabs -> Nat] /\ loose \subseteq Edits /\ adrift \subseteq Letters /\ restored \subseteq Edits
  BY TabHolds, WorldIs DEF WorldOK
<1>2. CASE Becomes(t, [c EXCEPT !.page = "read", !.got = got]) /\ UNCHANGED <<moves, loose>>
  <2> DEFINE d == [c EXCEPT !.page = "read", !.got = got]
  <2>1. got \in Draft /\ DraftOK(World, got) /\ CopyOK(World, got) /\ (cookie # 0 => got.id # 0)
    <3>1. CASE cookie = 0
      BY <1>1, <3>1, NoDraftOK DEF NoDraft, Draft
    <3>2. CASE cookie # 0
      <4>1. Current(cookie) \in DOMAIN rows
        BY <1>1, <3>2, CurrentIsOfSession DEF WorldOK
      <4>2. View(Current(cookie)).id = Current(cookie) /\ Current(cookie) # 0
        BY <1>1, <4>1, WorldIs, LenProperties DEF View, WorldOK
      <4> QED BY <1>1, <3>2, <4>1, <4>2, ViewOK
    <3> QED BY <3>1, <3>2
  <2> HIDE DEF c, got
  <2>2. d \in Client
    BY <1>1, <2>1 DEF Client, Pages
  <2>3. /\ d.page = "read" /\ d.draft = c.draft /\ d.dirty = c.dirty /\ d.frozen = c.frozen /\ d.ask = c.ask
        /\ d.got = got /\ d.saves = c.saves /\ d.creates = c.creates /\ d.submit = c.submit
    BY <1>1 DEF Client
  <2> HIDE DEF d
  <2>4. PageOK(World, d) /\ FormsOK(World, d) /\ Clean(World, t, d)
    BY <1>0, <1>1, <2>1, <2>3 DEF PageOK, FormsOK, Clean, Good, DraftOK
  <2>5. Good(World, t, d)
    BY <1>1, <2>2, <2>3, <2>4, Rests
  <2>6. Attended(d)
    BY <2>3, <2>4 DEF Attended, PageOK
  <2>7. Drifts(World, t, d)
    BY <1>1, <2>3, Shown
  <2>8. Still
    BY <1>0, <1>2 DEF Still
  <2>9. Becomes(t, d)
    BY <1>2 DEF d, c
  <2> QED BY <1>1, <1>2, <2>5, <2>6, <2>7, <2>8, <2>9, StillStep
<1>3. CASE Move(t) /\ Becomes(t, [c EXCEPT !.page = "read"]) /\ loose' = loose \cup c.draft.content
  <2> DEFINE d == [c EXCEPT !.page = "read"]
  <2>1. loose' \subseteq Edits /\ loose \subseteq loose'
    BY <1>1, <1>3 DEF Client, Draft
  <2>2. Quiet /\ WorldOK(World')
    BY <1>0, <1>1, <2>1, LocalWorld
  <2>3. Good(World', t, c) /\ Drifts(World', t, c)
    BY <1>0, <2>2, Meanwhile
  <2>a. Becomes(t, d) /\ c.draft.content \subseteq World'.loose
    BY <1>3, WorldBecomes
  <2> HIDE DEF c
  <2>4. d \in Client
    BY <1>1 DEF Client, Pages
  <2>5. /\ d.page = "read" /\ d.draft = c.draft /\ d.dirty = c.dirty /\ d.frozen = c.frozen /\ d.ask = c.ask
        /\ d.got = c.got /\ d.saves = c.saves /\ d.creates = c.creates /\ d.submit = c.submit
    BY <1>1 DEF Client
  <2> HIDE DEF d
  <2>6. PageOK(World', d) /\ FormsOK(World', d) /\ Clean(World', t, d)
    BY <1>0, <2>3, <2>5, <2>a DEF PageOK, FormsOK, Clean, Good
  <2>7. Good(World', t, d)
    BY <2>3, <2>4, <2>5, <2>6, Rests
  <2>8. Attended(d)
    BY <2>5, <2>6 DEF Attended, PageOK
  <2>9. Drifts(World', t, d)
    BY <2>3, <2>5, Shown
  <2> QED BY <1>0, <1>1, <1>3, <2>2, <2>7, <2>8, <2>9, <2>a, MoveIs, TabStep
<1> QED BY <1>2, <1>3 DEF Load

\* The draft of a tab that opens goes on, is offered the other, becomes it or is pushed.
LEMMA HydrateStep ==
  ASSUME AutosaveInv, NEW t \in Tabs, Hydrate(t)
  PROVE  AutosaveInv'
<1> DEFINE c == tab[t]
           got == c.got
<1>0. /\ c.page = "read" /\ Restores(t, got)
      /\ UNCHANGED <<rows, cookie, local, adrift, now, edits, moves, loose, outrun>>
  BY DEF Hydrate
<1>a. PICK h \in Hydrated(t), frozen \in BOOLEAN, page \in {"editing", "resume"} :
        Becomes(t, [h EXCEPT !.page = page, !.frozen = frozen, !.got = NoDraft])
  BY DEF Hydrate
<1>1. /\ c \in Client /\ Good(World, t, c) /\ Drifts(World, t, c) /\ WorldOK(World) /\ cookie \in Nat
      /\ moves \in [Tabs -> Nat] /\ loose \subseteq Edits /\ adrift \subseteq Letters /\ restored \subseteq Edits
      /\ got \in Draft /\ DraftOK(World, got) /\ CopyOK(World, got) /\ c.draft \in Draft
  BY TabHolds, WorldIs DEF WorldOK, Good, FormsOK, Client
<1>2. restored \subseteq restored' /\ restored' \subseteq Edits
  BY <1>0, <1>1 DEF Restores, Draft
<1>3. Quiet /\ WorldOK(World')
  BY <1>0, <1>1, <1>2, LocalWorld
<1>4. Good(World', t, c) /\ Drifts(World', t, c)
  BY <1>0, <1>3, Meanwhile
<1>5. /\ c.submit = Idle /\ ~ c.dirty /\ ~ c.frozen /\ c.saves = <<>> /\ c.creates = <<>> /\ c.ask.id = 0
      /\ (got.id = 0 => c.draft.id = 0 \/ c.draft.content \subseteq World'.loose)
  BY <1>0, <1>4 DEF Good, PageOK
<1>6. NoDraft \in Draft /\ DraftOK(World', NoDraft) /\ CopyOK(World', NoDraft) /\ NoDraft.id = 0
  BY <1>3, NoDraftOK DEF DraftOK, NoDraft
<1>7. World'.cookie = cookie /\ World'.rows = rows /\ World'.restored = restored' /\ World'.adrift = adrift'
      /\ adrift' = adrift
  BY <1>0, WorldBecomes
<1>8. FormsOK(World', c) /\ page \in Pages
  BY <1>4 DEF Good, Pages
<1> DEFINE d == [h EXCEPT !.page = page, !.frozen = frozen, !.got = NoDraft]
<1>9. ASSUME Good(World', t, d), Drifts(World', t, d), Attended(d) PROVE AutosaveInv'
  BY <1>0, <1>1, <1>3, <1>7, <1>9, <1>a, TabStep
<1>b. \/ h = c /\ got.id = 0
      \/ h = [c EXCEPT !.ask = got] /\ got.id # 0
      \/ h = [c EXCEPT !.draft = got] /\ got.id # 0
      \/ got.id # 0 /\ h = Writing([c EXCEPT !.draft.id = got.id, !.dirty = TRUE], cookie, FALSE)
  BY DEF Hydrated
<1> HIDE DEF c, NoDraft
<1>c. CASE h = c /\ got.id = 0
  <2>1. d = [c EXCEPT !.page = page, !.frozen = frozen, !.got = NoDraft]
    BY <1>c
  <2> HIDE DEF d
  <2>2. d \in Client
    BY <1>1, <1>6, <1>8, <2>1 DEF Client
  <2>3. /\ d.page = page /\ d.draft = c.draft /\ d.dirty = c.dirty /\ d.ask = c.ask
        /\ d.got = NoDraft /\ d.saves = c.saves /\ d.creates = c.creates /\ d.submit = c.submit
    BY <1>1, <2>1 DEF Client
  <2>4. PageOK(World', d) /\ FormsOK(World', d) /\ Clean(World', t, d)
    BY <1>5, <1>6, <1>8, <1>c, <2>3 DEF PageOK, FormsOK, Clean, Kept, Excused
  <2>5. Good(World', t, d)
    BY <1>4, <2>2, <2>3, <2>4, Rests
  <2>6. Drifts(World', t, d) /\ Attended(d)
    BY <1>4, <1>5, <2>3, Shown DEF Attended
  <2> QED BY <1>9, <2>5, <2>6
<1>d. CASE h = [c EXCEPT !.ask = got] /\ got.id # 0
  <2>1. d = [c EXCEPT !.ask = got, !.page = page, !.frozen = frozen, !.got = NoDraft]
    BY <1>d
  <2> HIDE DEF d
  <2>2. d \in Client
    BY <1>1, <1>6, <1>8, <2>1 DEF Client
  <2>3. /\ d.page = page /\ d.draft = c.draft /\ d.dirty = c.dirty /\ d.ask = got
        /\ d.got = NoDraft /\ d.saves = c.saves /\ d.creates = c.creates /\ d.submit = c.submit
    BY <1>1, <2>1 DEF Client
  <2>4. PageOK(World', d) /\ FormsOK(World', d) /\ Clean(World', t, d)
    BY <1>5, <1>6, <1>8, <1>d, <2>3 DEF PageOK, FormsOK, Clean
  <2>5. Good(World', t, d)
    BY <1>4, <2>2, <2>3, <2>4, Rests
  <2>6. Drifts(World', t, d) /\ Attended(d)
    BY <1>4, <1>5, <2>3, Shown DEF Attended
  <2> QED BY <1>9, <2>5, <2>6
<1>e. CASE h = [c EXCEPT !.draft = got] /\ got.id # 0
  <2>1. d = [c EXCEPT !.draft = got, !.page = page, !.frozen = frozen, !.got = NoDraft]
    BY <1>e
  <2> HIDE DEF d
  <2>2. d \in Client
    BY <1>1, <1>6, <1>8, <2>1 DEF Client
  <2>3. /\ d.page = page /\ d.draft = got /\ d.dirty = c.dirty /\ d.ask = c.ask
        /\ d.got = NoDraft /\ d.saves = c.saves /\ d.creates = c.creates /\ d.submit = c.submit
    BY <1>1, <2>1 DEF Client
  <2>4. PICK N : /\ got.content \subseteq restored' \cup N /\ N \subseteq got.content
                 /\ (\E p \in adrift' : p.by = t) => N = {}
                 /\ N \subseteq rows[got.id].content
    BY <1>0, <1>1, <1>e, Taken
  <2>5. PageOK(World', d) /\ FormsOK(World', d)
    BY <1>5, <1>6, <1>8, <2>3 DEF PageOK, FormsOK
  <2>6. Clean(World', t, d)
    BY <1>7, <2>3, <2>4, TakenIsKept DEF Clean
  <2>a. c.submit.saved = 0
    BY <1>5 DEF Idle
  <2>b. d.draft.content \subseteq c.draft.content \cup World'.restored \cup N
    BY <1>7, <2>3, <2>4
  <2>7. Good(World', t, d)
    BY <1>4, <1>5, <2>2, <2>3, <2>5, <2>6, <2>a, <2>b, Redrawn
  <2>8. Drifts(World', t, d)
    BY <1>4, <1>7, <2>3, <2>4, DriftsRedrawn
  <2>9. Attended(d)
    BY <1>5, <2>3 DEF Attended
  <2> QED BY <1>9, <2>7, <2>8, <2>9
<1>f. CASE got.id # 0 /\ h = Writing([c EXCEPT !.draft.id = got.id, !.dirty = TRUE], cookie, FALSE)
  <2> DEFINE f == [c.draft EXCEPT !.id = got.id]
             b == [c EXCEPT !.draft = f, !.dirty = TRUE, !.page = page, !.got = NoDraft]
             e == Writing(b, cookie, FALSE)
  <2>1. f \in Draft /\ f.id = got.id /\ f.content = c.draft.content /\ f.stamp = c.draft.stamp
    BY <1>1 DEF Draft
  <2>2. Writes([c EXCEPT !.draft.id = got.id, !.dirty = TRUE])
    BY <1>1, <1>5, <1>f, <2>1 DEF Writes, Client
  <2>3. h = [c EXCEPT !.draft = f, !.dirty = TRUE, !.saves = Append(c.saves, Sent([c EXCEPT !.draft = f, !.dirty = TRUE], cookie, FALSE))]
    BY <1>1, <1>f, <2>2 DEF Writing, Client
  <2> HIDE DEF f
  <2>4. b \in Client
    BY <1>1, <1>6, <1>8, <2>1 DEF Client
  <2>5. /\ b.page = page /\ b.draft = f /\ b.dirty /\ b.ask = c.ask /\ b.frozen = c.frozen
        /\ b.got = NoDraft /\ b.saves = c.saves /\ b.creates = c.creates /\ b.submit = c.submit
    BY <1>1 DEF Client
  <2>6. Sent(b, cookie, FALSE) = Sent([c EXCEPT !.draft = f, !.dirty = TRUE], cookie, FALSE)
    BY <1>1 DEF Sent, Client
  <2>7. Writes(b)
    BY <1>5, <1>f, <2>1, <2>5 DEF Writes
  <2>8. d = [e EXCEPT !.frozen = frozen]
    BY <1>1, <2>3, <2>6, <2>7 DEF Writing, Client
  <2> HIDE DEF b, d
  <2>9. DraftOK(World', f)
    BY <1>1, <1>4, <1>7, <2>1, <1>3, WorldIs DEF DraftOK, Good, FormsOK
  <2>10. Good(World', t, b)
    BY <1>3, <1>4, <2>1, <2>4, <2>5, <2>9, Named
  <2>11. Good(World', t, e) /\ e \in Client
    BY <1>1, <1>3, <1>7, <2>5, <2>10, SaveSent DEF Good
  <2>12. e.draft = f /\ e.page = page /\ Attended(e)
    BY <1>1, <2>4, <2>5, WritingIs, WritingAttends
  <2> HIDE DEF e
  <2>13. d \in Client /\ d.draft = e.draft /\ d.saves = e.saves /\ d.creates = e.creates /\ d.submit = e.submit
         /\ d.ask = e.ask /\ d.got = e.got /\ d.dirty = e.dirty /\ d.page = e.page
         /\ d.due = e.due /\ d.failed = e.failed
    BY <2>8, <2>11 DEF Client
  <2>14. Good(World', t, d)
    BY <2>11, <2>12, <2>13, Flags
  <2>15. Drifts(World', t, d)
    BY <1>4, <2>1, <2>12, <2>13, Shown
  <2>16. Attended(d)
    <3>1. e.saves # <<>>
      BY <1>1, <2>4, <2>7, WritingSends DEF e
    <3> QED BY <2>13, <3>1 DEF Attended
  <2> QED BY <1>9, <2>14, <2>15, <2>16
<1> QED BY <1>b, <1>c, <1>d, <1>e, <1>f

----------------------------------------------------------------------------
\* The submit.

LEMMA SubmitGoes ==
  ASSUME NEW w, NEW t, NEW c, Good(w, t, c),
         c.submit.at \in {"token", "sent", "received", "screened", "accepted", "refused"},
         NEW s \in Submission, s.saved \in {0, c.submit.saved}, s.payload \in {{}, c.submit.payload},
         s.at = "token" => w.cookie # 0, s.at = "sent" => s.session \in Known(w),
         s.at \in {"received", "screened"} => s.row \in DOMAIN w.rows
  PROVE  Good(w, t, [c EXCEPT !.submit = s])
<1> DEFINE d == [c EXCEPT !.submit = s]
<1>0. c \in Client /\ SubmitOK(w, t, c) /\ CallsOK(w, t, c)
  BY DEF Good
<1>1. d.submit = s /\ d.draft = c.draft
  BY <1>0 DEF Client
<1> HIDE DEF d
<1>2. SubmitOK(w, t, d)
  BY <1>0, <1>1 DEF SubmitOK, Kept
<1>3. c.page \notin {"mounted", "read"}
  BY DEF Good, PageOK, Idle
<1>4. \A k \in DOMAIN c.saves : ~ c.saves[k].awaited
  BY <1>0 DEF CallsOK, SaveOK
<1>5. \A k \in DOMAIN c.creates : ~ c.creates[k].awaited
  BY <1>0 DEF CallsOK, CreateOK
<1> QED BY <1>2, <1>3, <1>4, <1>5, SubmitMoves DEF d

LEMMA SubmitStill ==
  ASSUME AutosaveInv, Still, moves' \in [Tabs -> Nat], NEW t \in Tabs,
         tab[t].submit.at \in {"token", "sent", "received", "screened", "accepted", "refused"},
         NEW s \in Submission, s.saved \in {0, tab[t].submit.saved}, s.payload \in {{}, tab[t].submit.payload},
         s.at = "token" => cookie # 0, s.at = "sent" => s.session \in Known(World),
         s.at \in {"received", "screened"} => s.row \in DOMAIN rows,
         Becomes(t, [tab[t] EXCEPT !.submit = s])
  PROVE  AutosaveInv'
<1> DEFINE c == tab[t]
           d == [c EXCEPT !.submit = s]
<1>1. c \in Client /\ Good(World, t, c) /\ Drifts(World, t, c) /\ Attended(c)
  BY TabHolds
<1>2. Good(World, t, d)
  BY <1>1, SubmitGoes, WorldIs
<1>3. /\ d.page = c.page /\ d.draft = c.draft /\ d.dirty = c.dirty /\ d.frozen = c.frozen /\ d.due = c.due
      /\ d.failed = c.failed /\ d.ask = c.ask /\ d.saves = c.saves
  BY <1>1 DEF Client
<1>4. Becomes(t, d)
  OBVIOUS
<1> HIDE DEF c, d
<1>5. Drifts(World, t, d) /\ Attended(d)
  BY <1>1, <1>3, Shown DEF Attended
<1> QED BY <1>2, <1>4, <1>5, StillStep

LEMMA IdleIs ==
  Idle \in Submission /\ Idle.at = "idle" /\ Idle.saved = 0 /\ Idle.payload = {}
BY DEF Idle, Submission, Submits

LEMMA SendSubmitStep ==
  ASSUME AutosaveInv, NEW t \in Tabs, SendSubmit(t)
  PROVE  AutosaveInv'
<1> DEFINE c == tab[t]
           s == [c.submit EXCEPT !.at = "sent", !.session = cookie, !.id = c.draft.id]
<1>0. c.submit.at = "token" /\ Still /\ moves' = moves
  BY DEF SendSubmit, Still
<1>1. c \in Client /\ Good(World, t, c) /\ WorldOK(World) /\ World.cookie = cookie /\ cookie \in Nat
      /\ moves \in [Tabs -> Nat] /\ c.submit \in Submission /\ c.draft.id \in Nat
  BY TabHolds DEF Client, Draft
<1>2. cookie \in Known(World)
  BY <1>0, <1>1 DEF Good, SubmitOK, WorldOK
<1>3. s \in Submission /\ s.at = "sent" /\ s.session = cookie /\ s.saved = c.submit.saved /\ s.payload = c.submit.payload
  BY <1>1 DEF Submission, Submits
<1>4. Becomes(t, [c EXCEPT !.submit = s])
  BY <1>1 DEF SendSubmit, Client
<1> HIDE DEF s
<1> QED BY <1>0, <1>1, <1>2, <1>3, <1>4, SubmitStill

LEMMA SubmitFailsStep ==
  ASSUME AutosaveInv, NEW t \in Tabs, SubmitFails(t)
  PROVE  AutosaveInv'
<1>0. Still /\ Move(t) /\ tab[t].submit.at \in {"token", "sent", "accepted", "refused"}
      /\ Becomes(t, [tab[t] EXCEPT !.submit = Idle])
  BY DEF SubmitFails, Still
<1>1. moves' \in [Tabs -> Nat]
  BY <1>0, TabHolds, MoveIs
<1> QED BY <1>0, <1>1, IdleIs, SubmitStill

LEMMA SubmittedStep ==
  ASSUME AutosaveInv, NEW t \in Tabs, Submitted(t)
  PROVE  AutosaveInv'
<1> DEFINE c == tab[t]
<1>0. Still /\ moves' = moves /\ c.submit.at \in {"accepted", "refused"}
  BY DEF Submitted, Still
<1>1. c \in Client /\ Good(World, t, c) /\ Drifts(World, t, c) /\ moves \in [Tabs -> Nat]
  BY TabHolds
<1>2. CASE Becomes(t, [c EXCEPT !.submit = Idle])
  BY <1>0, <1>1, <1>2, IdleIs, SubmitStill
<1>3. CASE Becomes(t, [c EXCEPT !.submit = Idle, !.frozen = TRUE, !.due = FALSE])
  <2> DEFINE b == [c EXCEPT !.submit = Idle]
             d == [b EXCEPT !.frozen = TRUE, !.due = FALSE]
  <2>1. Good(World, t, b) /\ b \in Client
    BY <1>0, <1>1, IdleIs, SubmitGoes DEF Good
  <2>2. b.page = c.page /\ b.draft = c.draft
    BY <1>1 DEF Client
  <2>3. c.page \notin {"mounted", "read"}
    BY <1>0, <1>1, IdleIs DEF Good, PageOK
  <2>4. Becomes(t, d)
    BY <1>3
  <2> HIDE DEF b, c
  <2>5. d \in Client
    BY <2>1 DEF Client
  <2>6. /\ d.page = b.page /\ d.draft = b.draft /\ d.dirty = b.dirty /\ d.frozen /\ d.ask = b.ask
        /\ d.got = b.got /\ d.saves = b.saves /\ d.creates = b.creates /\ d.submit = b.submit
    BY <2>1 DEF Client
  <2> HIDE DEF d
  <2>7. Good(World, t, d)
    BY <2>1, <2>2, <2>3, <2>5, <2>6, Flags
  <2>8. Drifts(World, t, d) /\ Attended(d)
    BY <1>1, <2>2, <2>6, Shown DEF Attended
  <2> QED BY <1>0, <1>1, <2>4, <2>7, <2>8, StillStep
<1> QED BY <1>2, <1>3 DEF Submitted

LEMMA ReceiveStep ==
  ASSUME AutosaveInv, NEW t \in Tabs, Receive(t)
  PROVE  AutosaveInv'
<1> DEFINE c == tab[t]
           i == Current(c.submit.session)
<1>0. Still /\ moves' = moves /\ c.submit.at = "sent"
  BY DEF Receive, Still
<1>1. c \in Client /\ Good(World, t, c) /\ WorldOK(World) /\ moves \in [Tabs -> Nat] /\ c.submit \in Submission
  BY TabHolds DEF Client
<1>2. c.submit.session \in Known(World)
  BY <1>0, <1>1 DEF Good, SubmitOK
<1>3. i \in DOMAIN rows /\ i \in Nat
  BY <1>1, <1>2, CurrentIsOfSession, WorldIs, LenProperties DEF WorldOK
<1> HIDE DEF i
<1>4. ASSUME NEW at \in {"accepted", "refused"}, Goes(t, at) PROVE AutosaveInv'
  <2> DEFINE s == [c.submit EXCEPT !.at = at]
  <2>1. s \in Submission /\ s.at = at /\ s.saved = c.submit.saved /\ s.payload = c.submit.payload
    BY <1>1 DEF Submission, Submits
  <2>2. Becomes(t, [c EXCEPT !.submit = s])
    BY <1>1, <1>4 DEF Goes, Client
  <2> HIDE DEF s
  <2> QED BY <1>0, <1>1, <2>1, <2>2, SubmitStill
<1>5. CASE Becomes(t, [c EXCEPT !.submit.at = "received", !.submit.row = i])
  <2> DEFINE s == [c.submit EXCEPT !.at = "received", !.row = i]
  <2>1. s \in Submission /\ s.at = "received" /\ s.row = i /\ s.saved = c.submit.saved /\ s.payload = c.submit.payload
    BY <1>1, <1>3 DEF Submission, Submits
  <2>2. Becomes(t, [c EXCEPT !.submit = s])
    BY <1>1, <1>5 DEF Client
  <2> HIDE DEF s
  <2> QED BY <1>0, <1>1, <1>3, <2>1, <2>2, SubmitStill
<1>6. \/ Goes(t, Closed(i)) \/ Goes(t, "refused")
      \/ Becomes(t, [c EXCEPT !.submit.at = "received", !.submit.row = i])
  BY DEF Receive, i
<1>7. Closed(i) \in {"accepted", "refused"}
  BY DEF Closed
<1> QED BY <1>4, <1>5, <1>6, <1>7

----------------------------------------------------------------------------
\* What the api answered, and what it did not.

\* What of a client the end of a save leaves alone.
LEMMA FlushedIs ==
  ASSUME NEW c \in Client, NEW s, NEW saved
  PROVE  LET d == Flushed(c, s, saved) IN
         /\ d.page = c.page /\ d.draft = c.draft /\ d.dirty = c.dirty /\ d.frozen = c.frozen
         /\ d.due = c.due /\ d.failed = c.failed /\ d.ask = c.ask /\ d.saves = c.saves
BY DEF Flushed, Ensured, Post, Client

LEMMA ReturnStep ==
  ASSUME AutosaveInv, NEW t \in Tabs, NEW k \in DOMAIN tab[t].saves, Return(t, k)
  PROVE  AutosaveInv'
<1> DEFINE c == tab[t]
           s == c.saves[k]
           saved == IF s.state = "stored" THEN s.reply.id ELSE 0
           b == Settled(Without(c, k), s)
           d == Flushed(b, s, saved)
<1>0. /\ s.state # "sent" /\ Becomes(t, d)
      /\ loose' = (IF s.state = "stored" /\ s.reply.id # c.draft.id THEN loose \cup c.draft.content ELSE loose)
      /\ UNCHANGED <<rows, cookie, local, adrift, now, edits, moves, restored, outrun>>
  BY DEF Return
<1>1. c \in Client /\ Good(World, t, c) /\ WorldOK(World) /\ cookie \in Nat /\ c.draft \in Draft
      /\ moves \in [Tabs -> Nat] /\ loose \subseteq Edits /\ adrift \subseteq Letters /\ restored \subseteq Edits
  BY TabHolds, WorldIs DEF WorldOK, Client
<1>2. loose \subseteq loose' /\ loose' \subseteq Edits
  BY <1>0, <1>1 DEF Draft
<1>3. Quiet /\ WorldOK(World')
  BY <1>0, <1>1, <1>2, LocalWorld
<1>4. Good(World', t, c) /\ Drifts(World', t, c)
  BY <1>0, <1>3, Meanwhile
<1>5. s.state = "stored" /\ s.reply.id # c.draft.id => c.draft.content \subseteq World'.loose
  BY <1>0, WorldBecomes
<1>6. World'.cookie = cookie
  BY <1>0, WorldBecomes
<1> HIDE DEF c
<1>k. k \in DOMAIN c.saves
  BY DEF c
<1>7. s \in Save /\ SaveOK(World', t, c, s) /\ saved \in Nat /\ c.page \notin {"mounted", "read", "closed"}
  <2>1. s \in Save /\ SaveOK(World', t, c, s) /\ c.page \notin {"mounted", "read", "closed"}
    BY <1>1, <1>4, <1>k DEF Good, CallsOK, Client, PageOK
  <2>2. s.reply \in Draft
    BY <2>1 DEF Save
  <2> HIDE DEF s
  <2>3. saved \in Nat
    BY <2>2 DEF Draft
  <2> QED BY <2>1, <2>3
<1>8. Good(World', t, b)
  BY <1>0, <1>3, <1>4, <1>5, <1>k, SaveSettled
<1>9. s.awaited => \A j \in DOMAIN Without(c, k).saves : ~ Without(c, k).saves[j].awaited
  BY <1>4, <1>k, SaveOver DEF Without
<1>a. Without(c, k) \in Client /\ Without(c, k).draft = c.draft /\ Without(c, k).page = c.page
      /\ Without(c, k).submit = c.submit
  <2>1. Without(c, k) \in Client
    BY <1>4, <1>k, SaveOver DEF Good, Without
  <2> QED BY <1>1, <2>1 DEF Without, Client
<1>b. /\ b.draft.content = c.draft.content /\ b.page = c.page /\ b.submit = c.submit
      /\ b.saves = Without(c, k).saves /\ (~ b.dirty \/ (b.ask = s.reply /\ s.state # "stored"))
  <2> DEFINE a == Without(c, k)
  <2> HIDE DEF a, s
  <2>1. a \in Client /\ a.draft \in Draft /\ a.draft = c.draft /\ a.page = c.page /\ a.submit = c.submit
    BY <1>a DEF a, Client
  <2>2. CASE s.state = "stored"
    <3> DEFINE r == [a.draft EXCEPT !.stamp = s.reply.stamp]
    <3>1. Settled(a, s) = [a EXCEPT !.dirty = FALSE, !.failed = FALSE, !.draft = r]
      BY <2>1, <2>2 DEF Settled, Client
    <3>2. r.content = a.draft.content
      BY <2>1 DEF Draft
    <3> HIDE DEF r
    <3> QED BY <2>1, <2>2, <3>1, <3>2 DEF Client, a
  <2>3. CASE s.state # "stored"
    BY <2>1, <2>3 DEF Settled, Client, a
  <2> QED BY <2>2, <2>3
<1>c. b \in Client
  BY <1>8 DEF Good
<1>d. s.awaited /\ saved # 0 =>
        saved \in DOMAIN World'.rows /\ Kept(World', t, saved, b.submit.payload \cap b.draft.content)
  BY <1>7, <1>b DEF SaveOK
<1>e. s.state # "stored" => s.reply.id # 0
  BY <1>0, <1>7 DEF SaveOK, Save
<1> HIDE DEF b, s, saved
<1>f. Good(World', t, d)
  BY <1>1, <1>3, <1>6, <1>7, <1>8, <1>9, <1>b, <1>d, FlushSettled
<1>g. d.draft = b.draft /\ d.dirty = b.dirty /\ d.ask = b.ask
  BY <1>c, FlushedIs
<1> HIDE DEF d
<1>h. Drifts(World', t, d)
  BY <1>4, <1>b, <1>g, Shown
<1>i. Attended(d)
  BY <1>b, <1>e, <1>g DEF Attended
<1> QED BY <1>0, <1>1, <1>3, <1>f, <1>h, <1>i, TabStep

LEMMA CreateFailsStep ==
  ASSUME AutosaveInv, NEW t \in Tabs, NEW k \in DOMAIN tab[t].creates, CreateFails(t, k)
  PROVE  AutosaveInv'
<1> DEFINE c == tab[t]
           b == [c EXCEPT !.creates = RemoveAt(c.creates, k)]
           n == IF c.creates[k].awaited THEN Idle ELSE c.submit
           d == [b EXCEPT !.submit = n]
<1>1. c \in Client /\ Good(World, t, c) /\ Drifts(World, t, c) /\ Attended(c) /\ moves \in [Tabs -> Nat]
  BY TabHolds
<1>0. Still /\ Move(t) /\ Becomes(t, d)
  BY <1>1 DEF CreateFails, Still, Becomes, Client
<1> HIDE DEF c
<1>2. k \in DOMAIN c.creates
  BY DEF c
<1>3. /\ Good(World, t, b) /\ b \in Client
      /\ c.creates[k].awaited => \A j \in DOMAIN b.creates : ~ b.creates[j].awaited
  BY <1>1, <1>2, CreateOver DEF Good
<1>4. /\ b.page = c.page /\ b.draft = c.draft /\ b.submit = c.submit /\ b.saves = c.saves /\ b.dirty = c.dirty
      /\ b.frozen = c.frozen /\ b.due = c.due /\ b.failed = c.failed /\ b.ask = c.ask
  BY <1>1 DEF Client
<1> HIDE DEF b
<1>5. c.page \notin {"mounted", "read", "closed"} /\ CallsOK(World, t, c) /\ CallsOK(World, t, b)
      /\ CreateOK(World, c, c.creates[k]) /\ SubmitOK(World, t, b) /\ c.submit \in Submission
  BY <1>1, <1>2, <1>3 DEF Good, PageOK, CallsOK, Client
<1>6. Good(World, t, d)
  <2>1. CASE c.creates[k].awaited
    <3>1. n = Idle /\ c.submit.at = "creating"
      BY <1>5, <2>1 DEF CreateOK
    <3>2. \A j \in DOMAIN b.saves : ~ b.saves[j].awaited
      BY <1>4, <1>5, <3>1 DEF CallsOK, SaveOK
    <3>3. d.submit = Idle
      BY <1>3, <3>1 DEF Client
    <3> HIDE DEF d, n
    <3>4. SubmitOK(World, t, d)
      BY <3>3, IdleOK
    <3> QED BY <1>3, <1>4, <1>5, <2>1, <3>1, <3>2, <3>4, IdleIs, SubmitMoves DEF d
  <2>2. CASE ~ c.creates[k].awaited
    <3>1. d = b
      BY <1>3, <1>4, <2>2 DEF Client
    <3> QED BY <1>3, <3>1
  <2> QED BY <2>1, <2>2
<1>7. /\ d.page = c.page /\ d.draft = c.draft /\ d.saves = c.saves /\ d.dirty = c.dirty
      /\ d.frozen = c.frozen /\ d.due = c.due /\ d.failed = c.failed /\ d.ask = c.ask
  BY <1>3, <1>4 DEF Client
<1> HIDE DEF d
<1>8. Drifts(World, t, d) /\ Attended(d)
  BY <1>1, <1>7, Shown DEF Attended
<1> QED BY <1>0, <1>1, <1>6, <1>8, MoveIs, StillStep

\* The answer of a request for a draft brings a cookie and an id.
LEMMA CreatedStep ==
  ASSUME AutosaveInv, NEW t \in Tabs, NEW k \in DOMAIN tab[t].creates, Created(t, k)
  PROVE  AutosaveInv'
<1> DEFINE c == tab[t]
           new == c.creates[k]
           session == rows[new.id].session
           b == [c EXCEPT !.creates = RemoveAt(c.creates, k)]
           n == [c.submit EXCEPT !.at = IF new.awaited /\ c.submit.at = "creating" THEN "token" ELSE c.submit.at]
           e == [b EXCEPT !.submit = n]
           f == [c.draft EXCEPT !.id = new.id]
           g == [e EXCEPT !.draft = f, !.dirty = TRUE]
           d == Writing(g, session, FALSE)
<1>1. c \in Client /\ Good(World, t, c) /\ WorldOK(World) /\ c.draft \in Draft /\ c.submit \in Submission
      /\ moves \in [Tabs -> Nat] /\ loose \subseteq Edits /\ adrift \subseteq Letters /\ restored \subseteq Edits
      /\ now \in Nat /\ edits \in 0..MaxEdits /\ DraftOK(World, local)
  BY TabHolds, WorldIs DEF WorldOK, Client
<1>0. /\ new.id # 0 /\ cookie' = session
      /\ loose' = (IF c.draft.id # 0 THEN loose \cup c.draft.content ELSE loose)
      /\ UNCHANGED <<rows, local, adrift, now, edits, moves, restored, outrun>>
  BY DEF Created
<1>2. Becomes(t, d)
  <2>1. [c EXCEPT !.creates = RemoveAt(@, k), !.draft.id = new.id, !.dirty = TRUE,
                  !.submit.at = IF new.awaited /\ @ = "creating" THEN "token" ELSE @] = g
    BY <1>1 DEF Client, Draft, Submission
  <2> QED BY <2>1 DEF Created
<1>3. new.id \in DOMAIN rows
  BY <1>0, <1>1, WorldIs DEF Good, CallsOK, CreateOK
<1>4. session \in Known(World) /\ session \in Nat /\ session # 0
  <2>1. session \in Known(World)
    BY <1>1, <1>3, RowNumbers, WorldIs
  <2>2. DOMAIN rows = 1..Len(rows) /\ Len(rows) \in Nat
    BY <1>1, WorldIs, LenProperties DEF WorldOK
  <2> HIDE DEF session
  <2> QED BY <2>1, <2>2, WorldIs DEF Known
<1>5. loose \subseteq loose' /\ loose' \subseteq Edits
  BY <1>0, <1>1 DEF Draft
<1>6. Quiet
  <2> HIDE DEF session
  <2> QED BY <1>0, <1>1, <1>4, <1>5 DEF Quiet
<1>7. WorldOK(World')
  <2> HIDE DEF session
  <2> QED BY <1>0, <1>1, <1>4, <1>5, <1>6, QuietWorld
<1>8. Good(World', t, c) /\ Drifts(World', t, c)
  BY <1>0, <1>6, <1>7, Meanwhile
<1>9. World'.cookie = session /\ World'.rows = rows
  BY <1>0, WorldBecomes
<1> HIDE DEF c
<1>k. k \in DOMAIN c.creates
  BY DEF c
<1> HIDE DEF session
<1>a. /\ Good(World', t, b) /\ b \in Client
      /\ new.awaited => \A j \in DOMAIN b.creates : ~ b.creates[j].awaited
  BY <1>8, <1>k, CreateOver DEF Good
<1>b. /\ b.page = c.page /\ b.draft = c.draft /\ b.submit = c.submit /\ b.saves = c.saves
      /\ b.ask = c.ask /\ b.got = c.got
  BY <1>1 DEF Client
<1>c. /\ n \in Submission /\ n.payload = c.submit.payload /\ n.session = c.submit.session /\ n.row = c.submit.row
      /\ n.saved = c.submit.saved /\ n.at = (IF new.awaited /\ c.submit.at = "creating" THEN "token" ELSE c.submit.at)
  BY <1>1 DEF Submission, Submits
<1>d. c.page \notin {"mounted", "read", "closed"}
  BY <1>k, <1>8 DEF Good, PageOK
<1> HIDE DEF b, n
<1>e. Good(World', t, e) /\ e \in Client
  <2>1. \A j \in DOMAIN b.saves : b.saves[j].awaited => n.at = "flushing" /\ n.payload = b.submit.payload
    BY <1>a, <1>b, <1>c DEF Good, CallsOK, SaveOK
  <2>2. \A j \in DOMAIN b.creates : b.creates[j].awaited => n.at = "creating"
    BY <1>a, <1>b, <1>c DEF Good, CallsOK, CreateOK
  <2>3. e.submit = n /\ e.draft = b.draft
    BY <1>a DEF Client
  <2>4. SubmitOK(World', t, e)
    <3> HIDE DEF e
    <3> QED BY <1>4, <1>9, <1>a, <1>b, <1>c, <2>3 DEF Good, SubmitOK
  <2> QED BY <1>a, <1>b, <1>c, <1>d, <2>1, <2>2, <2>4, SubmitMoves DEF Good
<1>f. /\ e.page = c.page /\ e.draft = c.draft /\ e.saves = b.saves /\ e.ask = c.ask /\ e.got = c.got
      /\ e.submit = n /\ e.creates = b.creates
  BY <1>a, <1>b DEF Client
<1> HIDE DEF e
<1>g. f \in Draft /\ f.id = new.id /\ f.content = c.draft.content /\ f.stamp = c.draft.stamp
  <2>1. new.id \in Nat
    <3>1. c.creates \in Seq(Create)
      BY <1>1 DEF Client
    <3>2. new \in Create
      BY <1>k, <3>1
    <3> QED BY <3>2 DEF Create
  <2> HIDE DEF new
  <2> QED BY <1>1, <2>1 DEF Draft
<1>h. DraftOK(World', f)
  BY <1>0, <1>3, <1>4, <1>8, <1>9, <1>g DEF Good, FormsOK, DraftOK
<1> HIDE DEF f, new
<1>i. g \in Client
  BY <1>e, <1>g DEF Client
<1>j. /\ g.page = c.page /\ g.draft = f /\ g.saves = e.saves /\ g.ask = c.ask /\ g.got = c.got
      /\ g.submit = e.submit /\ g.creates = e.creates /\ g.dirty
  BY <1>e, <1>f DEF Client
<1> HIDE DEF g
<1>l. Good(World', t, g)
  BY <1>7, <1>d, <1>e, <1>f, <1>g, <1>h, <1>i, <1>j, Named
<1>m. Good(World', t, d)
  BY <1>4, <1>7, <1>9, <1>d, <1>j, <1>l, SaveSent
<1>n. d.draft.content = c.draft.content /\ Attended(d)
  BY <1>4, <1>g, <1>i, <1>j, WritingIs, WritingAttends
<1> HIDE DEF d
<1>o. Drifts(World', t, d)
  BY <1>8, <1>n, Shown
<1> QED BY <1>0, <1>1, <1>2, <1>6, <1>7, <1>m, <1>n, <1>o, TabStep

\* A save that was given up and may still arrive.
LEMMA AdriftIs ==
  ASSUME NEW w, NEW t \in Tabs, NEW c, Good(w, t, c), NEW k \in DOMAIN c.saves
  PROVE  /\ Adrift(t, c.saves[k]) \in Letters /\ Adrift(t, c.saves[k]).by = t
         /\ LetterOK(w, c, Adrift(t, c.saves[k]))
<1>1. c.saves \in Seq(Save) /\ SaveOK(w, t, c, c.saves[k])
  BY DEF Good, Client, CallsOK
<1>2. c.saves[k] \in Save /\ LetterOK(w, c, c.saves[k])
  BY <1>1 DEF SaveOK
<1> QED BY <1>2 DEF Adrift, Letters, Save, LetterOK, Harmless

LEMMA GiveUpStep ==
  ASSUME AutosaveInv, NEW t \in Tabs, NEW k \in DOMAIN tab[t].saves, GiveUp(t, k)
  PROVE  AutosaveInv'
<1> DEFINE c == tab[t]
           s == c.saves[k]
           p == Adrift(t, s)
           a == Without(c, k)
           b == [a EXCEPT !.failed = TRUE]
           d == Flushed(b, s, 0)
<1>0. /\ Move(t) /\ Becomes(t, d) /\ adrift' = (IF s.state = "sent" THEN adrift \cup {p} ELSE adrift)
      /\ UNCHANGED <<rows, cookie, local, now, edits, loose, restored, outrun>>
  BY DEF GiveUp
<1>1. c \in Client /\ Good(World, t, c) /\ Drifts(World, t, c) /\ WorldOK(World) /\ cookie \in Nat
      /\ moves \in [Tabs -> Nat] /\ loose \subseteq Edits /\ adrift \subseteq Letters /\ restored \subseteq Edits
  BY TabHolds, WorldIs DEF WorldOK
<1>2. p \in Letters /\ p.by = t
  <2>1. c.saves \in Seq(Save) /\ k \in DOMAIN c.saves
    BY <1>1 DEF Client
  <2>2. s \in Save
    BY <2>1
  <2> QED BY <2>2 DEF Adrift, Letters, Save
<1>3. Quiet /\ WorldOK(World')
  <2> HIDE DEF p
  <2> QED BY <1>0, <1>1, <1>2, LocalWorld
<1>4. Good(World', t, c)
  BY <1>3, Meanwhile
<1>5. Evolves(World, World', t, c)
  BY <1>3, QuietEvolves
<1>6. World'.cookie = cookie
  BY <1>0, WorldBecomes
<1> HIDE DEF c
<1>k. k \in DOMAIN c.saves
  BY DEF c
<1>7. \A q \in adrift' : q.by = t => LetterOK(World', c, q)
  <2>1. LetterOK(World', c, p)
    BY <1>4, <1>k, AdriftIs
  <2>2. \A q \in adrift : q.by = t => LetterOK(World', c, q)
    BY <1>1, <1>3, <1>5, LetterEvolves, WorldIs DEF Drifts
  <2> HIDE DEF p
  <2> QED BY <1>0, <2>1, <2>2
<1>8. /\ Good(World', t, a) /\ a \in Client
      /\ s.awaited => \A j \in DOMAIN a.saves : ~ a.saves[j].awaited
  BY <1>4, <1>k, SaveOver DEF Good
<1>9. c.page \notin {"mounted", "read", "closed"}
  BY <1>4, <1>k DEF Good, PageOK
<1>a. a.page = c.page /\ a.draft = c.draft
  BY <1>1 DEF Without, Client
<1> HIDE DEF a, s
<1>b. b \in Client
  BY <1>8 DEF Client
<1>c. /\ b.page = a.page /\ b.draft = a.draft /\ b.dirty = a.dirty /\ b.frozen = a.frozen /\ b.failed
      /\ b.ask = a.ask /\ b.got = a.got /\ b.saves = a.saves /\ b.creates = a.creates /\ b.submit = a.submit
  BY <1>8 DEF Client
<1> HIDE DEF b
<1>d. Good(World', t, b)
  BY <1>8, <1>b, <1>c, Flags
<1>e. Good(World', t, d)
  BY <1>1, <1>3, <1>6, <1>8, <1>9, <1>a, <1>c, <1>d, FlushSettled
<1>f. d.draft = c.draft /\ d.failed
  BY <1>a, <1>b, <1>c, FlushedIs
<1> HIDE DEF d
<1>g. Drifts(World', t, d)
  BY <1>7, <1>f, WorldBecomes DEF Drifts, LetterOK, Harmless
<1>h. Attended(d)
  BY <1>f DEF Attended
<1>i. \A q \in adrift' : q.by # t => q \in adrift
  <2> HIDE DEF p
  <2> QED BY <1>0, <1>2
<1> QED BY <1>0, <1>1, <1>3, <1>e, <1>g, <1>h, <1>i, MoveIs, TabStep

\* Save k of a client is s now.
Turned(c, d, k, s) ==
  /\ d \in Client /\ s \in Save
  /\ d.page = c.page /\ d.draft = c.draft /\ d.dirty = c.dirty /\ d.frozen = c.frozen /\ d.due = c.due
  /\ d.failed = c.failed /\ d.ask = c.ask /\ d.got = c.got /\ d.creates = c.creates /\ d.submit = c.submit
  /\ DOMAIN d.saves = DOMAIN c.saves /\ d.saves[k] = s
  /\ \A j \in DOMAIN c.saves : j # k => d.saves[j] = c.saves[j]

\* A save that is answered, or whose answer is lost.
LEMMA Answered ==
  ASSUME NEW w, NEW t, NEW c, Good(w, t, c), NEW k \in DOMAIN c.saves, NEW s, NEW d, Turned(c, d, k, s),
         s.body = c.saves[k].body, s.session = c.saves[k].session, s.awaited = c.saves[k].awaited,
         s.state = "stored" => /\ s.reply.id \in DOMAIN w.rows /\ s.reply.stamp <= w.now
                               /\ Kept(w, t, s.reply.id, s.body.content \cap c.draft.content),
         s.state = "refused" => s.reply.id # 0 /\ DraftOK(w, s.reply) /\ CopyOK(w, s.reply)
  PROVE  Good(w, t, d)
<1>0. c \in Client /\ c.saves \in Seq(Save) /\ CallsOK(w, t, c)
  BY DEF Good, Client
<1>1. SaveOK(w, t, c, s)
  <2>1. SaveOK(w, t, c, c.saves[k])
    BY <1>0 DEF CallsOK
  <2> QED BY <2>1 DEF SaveOK, LetterOK, Harmless
<1>2. ASSUME NEW j \in DOMAIN d.saves PROVE SaveOK(w, t, d, d.saves[j])
  <2>1. SaveOK(w, t, c, d.saves[j])
    BY <1>0, <1>1 DEF CallsOK, Turned
  <2>2. d.draft = c.draft /\ d.submit = c.submit
    BY DEF Turned
  <2> QED BY <2>1, <2>2 DEF SaveOK, LetterOK, Harmless
<1>3. Once(d.saves)
  BY <1>0 DEF CallsOK, Once, Turned
<1>4. CallsOK(w, t, d)
  <2>1. d.creates = c.creates /\ d.submit = c.submit
    BY DEF Turned
  <2> QED BY <1>0, <1>2, <1>3, <2>1 DEF CallsOK, CreateOK
<1>5. c.page \notin {"mounted", "read", "closed"}
  BY DEF Good, PageOK
<1>6. PageOK(w, d) /\ FormsOK(w, d) /\ SubmitOK(w, t, d) /\ Clean(w, t, d)
  <2>1. /\ d.page = c.page /\ d.draft = c.draft /\ d.dirty = c.dirty /\ d.frozen = c.frozen
        /\ d.ask = c.ask /\ d.got = c.got /\ d.submit = c.submit
    BY DEF Turned
  <2> QED BY <1>5, <2>1 DEF Good, PageOK, FormsOK, SubmitOK, Clean
<1> QED BY <1>4, <1>6 DEF Good, Turned

LEMMA TurnedAttended ==
  ASSUME NEW c, NEW d, NEW k \in DOMAIN c.saves, NEW s, Turned(c, d, k, s), Attended(c)
  PROVE  Attended(d)
<1>1. d.saves # <<>>
  BY DEF Turned
<1> QED BY <1>1 DEF Attended

LEMMA AnswerIs ==
  ASSUME tab \in [Tabs -> Client], NEW t \in Tabs, NEW k \in DOMAIN tab[t].saves,
         NEW state \in {"sent", "stored", "refused"}, NEW reply \in Draft, Answer(t, k, state, reply)
  PROVE  \E d, s : /\ Becomes(t, d) /\ Turned(tab[t], d, k, s)
                  /\ s.state = state /\ s.reply = reply
                  /\ s.body = tab[t].saves[k].body /\ s.session = tab[t].saves[k].session
                  /\ s.awaited = tab[t].saves[k].awaited
<1> DEFINE s == [tab[t].saves[k] EXCEPT !.state = state, !.reply = reply]
           r == [tab[t].saves EXCEPT ![k] = s]
           d == [tab[t] EXCEPT !.saves = r]
<1>1. tab[t] \in Client /\ tab[t].saves \in Seq(Save) /\ tab[t].saves[k] \in Save
  BY DEF Client
<1>2. s \in Save /\ s.state = state /\ s.reply = reply
      /\ s.body = tab[t].saves[k].body /\ s.session = tab[t].saves[k].session /\ s.awaited = tab[t].saves[k].awaited
  BY <1>1 DEF Save
<1>3. Becomes(t, d)
  <2> DEFINE c == tab[t]
             q == c.saves
             u == [q[k] EXCEPT !.state = state]
  <2>1. tab' = [[tab EXCEPT ![t].saves[k].state = state] EXCEPT ![t].saves[k].reply = reply]
    BY DEF Answer
  <2>2. [tab EXCEPT ![t].saves[k].state = state] = [tab EXCEPT ![t] = [c EXCEPT !.saves = [q EXCEPT ![k] = u]]]
    OBVIOUS
  <2> DEFINE b == [c EXCEPT !.saves = [q EXCEPT ![k] = u]]
             T == [tab EXCEPT ![t] = b]
  <2>3. T[t] = b /\ b.saves = [q EXCEPT ![k] = u] /\ b.saves[k] = u
    BY <1>1 DEF Client
  <2>4. tab' = [T EXCEPT ![t].saves[k].reply = reply]
    BY <2>1, <2>2
  <2>5. [u EXCEPT !.reply = reply] = s
    BY <1>1 DEF Save
  <2>6. tab' = [T EXCEPT ![t] = [b EXCEPT !.saves = [b.saves EXCEPT ![k] = s]]]
    <3> HIDE DEF T, b, u, s
    <3> QED BY <2>3, <2>4, <2>5
  <2> HIDE DEF s, u
  <2>7. [b.saves EXCEPT ![k] = s] = [q EXCEPT ![k] = s]
    BY <2>3
  <2>8. [b EXCEPT !.saves = [q EXCEPT ![k] = s]] = [c EXCEPT !.saves = [q EXCEPT ![k] = s]]
    OBVIOUS
  <2>9. tab' = [tab EXCEPT ![t] = [c EXCEPT !.saves = [q EXCEPT ![k] = s]]]
    BY <2>6, <2>7, <2>8
  <2> QED BY <2>9 DEF Becomes
<1> HIDE DEF s
<1>4. r \in Seq(Save) /\ DOMAIN r = DOMAIN tab[t].saves /\ r[k] = s /\ \A j \in DOMAIN r : j # k => r[j] = tab[t].saves[j]
  <2>1. r \in Seq(Save)
    BY <1>1, <1>2, ExceptSeq
  <2> QED BY <2>1
<1> HIDE DEF r
<1>5. d \in Client
  BY <1>1, <1>4 DEF Client
<1>6. /\ d.page = tab[t].page /\ d.draft = tab[t].draft /\ d.dirty = tab[t].dirty /\ d.frozen = tab[t].frozen
      /\ d.due = tab[t].due /\ d.failed = tab[t].failed /\ d.ask = tab[t].ask /\ d.got = tab[t].got
      /\ d.creates = tab[t].creates /\ d.submit = tab[t].submit /\ d.saves = r
  BY <1>1 DEF Client
<1> HIDE DEF d
<1>7. Turned(tab[t], d, k, s)
  BY <1>2, <1>4, <1>5, <1>6 DEF Turned
<1> QED BY <1>2, <1>3, <1>7

LEMMA RetryStep ==
  ASSUME AutosaveInv, NEW t \in Tabs, NEW k \in DOMAIN tab[t].saves, Retry(t, k)
  PROVE  AutosaveInv'
<1> DEFINE c == tab[t]
           s == c.saves[k]
<1>0. /\ Move(t) /\ UNCHANGED <<rows, cookie, local, now, edits, loose, restored, outrun>>
  BY DEF Retry
<1>1. c \in Client /\ Good(World, t, c) /\ Drifts(World, t, c) /\ Attended(c) /\ WorldOK(World)
      /\ moves \in [Tabs -> Nat] /\ loose \subseteq Edits /\ adrift \subseteq Letters /\ restored \subseteq Edits
      /\ tab \in [Tabs -> Client]
  BY TabHolds, WorldIs DEF WorldOK, AutosaveInv
<1>2. CASE s.state # "sent" /\ Answer(t, k, "sent", NoDraft) /\ UNCHANGED adrift
  <2>1. NoDraft \in Draft
    BY DEF NoDraft, Draft
  <2>2. PICK d, z : /\ Becomes(t, d) /\ Turned(c, d, k, z) /\ z.state = "sent"
                    /\ z.body = s.body /\ z.session = s.session /\ z.awaited = s.awaited
    BY <1>1, <1>2, <2>1, AnswerIs
  <2>3. Good(World, t, d)
    BY <1>1, <2>2, Answered
  <2>4. Drifts(World, t, d)
    <3>1. d.draft = c.draft
      BY <2>2 DEF Turned
    <3> QED BY <1>1, <3>1, Shown
  <2>5. Attended(d)
    BY <1>1, <2>2, TurnedAttended
  <2>6. Still
    BY <1>0, <1>2 DEF Still
  <2> QED BY <1>0, <1>1, <2>2, <2>3, <2>4, <2>5, <2>6, MoveIs, StillStep
<1>3. CASE adrift' = adrift \cup {Adrift(t, s)} /\ UNCHANGED tab
  <2> DEFINE p == Adrift(t, s)
  <2>1. p \in Letters /\ p.by = t
    BY <1>1, AdriftIs
  <2> HIDE DEF p
  <2>2. adrift' = adrift \cup {p}
    BY <1>3 DEF p
  <2>3. Quiet /\ WorldOK(World')
    BY <1>0, <1>1, <2>1, <2>2, LocalWorld
  <2>4. Good(World', t, c)
    BY <2>3, Meanwhile
  <2>5. Evolves(World, World', t, c)
    BY <2>3, QuietEvolves
  <2>6. LetterOK(World', c, p)
    BY <2>4, AdriftIs DEF p
  <2>7. \A q \in adrift : q.by = t => LetterOK(World', c, q)
    BY <1>1, <2>3, <2>5, LetterEvolves, WorldIs DEF Drifts
  <2>8. Drifts(World', t, c)
    BY <2>2, <2>6, <2>7, WorldBecomes DEF Drifts
  <2>9. Becomes(t, c)
    BY <1>1, <1>3 DEF Becomes
  <2>a. \A q \in adrift' : q.by # t => q \in adrift
    BY <2>1, <2>2
  <2> QED BY <1>0, <1>1, <2>3, <2>4, <2>8, <2>9, <2>a, MoveIs, TabStep
<1> QED BY <1>2, <1>3 DEF Retry

----------------------------------------------------------------------------
\* The api writes.

\* A row is written over.
LEMMA RowWritten ==
  ASSUME WorldOK(World), NEW i \in DOMAIN rows, NEW r \in Row, rows' = [rows EXCEPT ![i] = r], Tick,
         r.session = rows[i].session, r.updated = now + 1, r.content \subseteq 1..edits,
         rows[i].writers \subseteq r.writers,
         r.status = "submitted" => r.owed \subseteq r.content, adrift' \subseteq adrift,
         outrun \subseteq outrun', outrun' \subseteq Edits, UNCHANGED <<cookie, local, edits, loose, restored>>
  PROVE  /\ WorldOK(World')
         /\ \A t, c : (r.writers \subseteq {t} =>
                         (rows[i].content \cap c.draft.content) \ (restored \cup outrun') \subseteq r.content)
                      => Evolves(World, World', t, c)
<1>1. /\ rows \in Seq(Row) /\ now \in Nat /\ now' = now + 1 /\ edits \in 0..MaxEdits
      /\ rows' \in Seq(Row) /\ DOMAIN rows' = DOMAIN rows /\ rows'[i] = r
      /\ \A j \in DOMAIN rows : j # i => rows'[j] = rows[j]
  <2>1. rows \in Seq(Row) /\ now \in Nat /\ now' = now + 1 /\ edits \in 0..MaxEdits
    BY WorldIs DEF WorldOK, Tick
  <2>2. rows' \in Seq(Row)
    BY <2>1, ExceptSeq
  <2> QED BY <2>1, <2>2
<1>2. \A j \in DOMAIN rows : rows'[j].session = rows[j].session
  BY <1>1
<1>3. Known(World') = Known(World)
  BY <1>1, <1>2, WorldIs, WorldBecomes DEF Known
<1>4. ASSUME NEW j \in DOMAIN rows' PROVE RowOK(World', j)
  <2>1. RowOK(World, j) /\ j \in DOMAIN rows
    BY <1>1, WorldIs DEF WorldOK
  <2>2. CASE j = i
    BY <1>1, <1>3, <2>1, <2>2, WorldIs, WorldBecomes DEF RowOK
  <2>3. CASE j # i
    <3>1. rows'[j] = rows[j] /\ rows[j].updated \in Nat
      BY <1>1, <2>1, <2>3, RowNumbers, WorldIs
    <3> QED BY <1>1, <1>3, <2>1, <3>1, WorldIs, WorldBecomes DEF RowOK
  <2> QED BY <2>2, <2>3
<1>5. WorldOK(World')
  <2>1. DraftOK(World', local')
    BY <1>1, AheadIs, WorldIs, WorldBecomes DEF WorldOK, DraftOK, Draft
  <2> QED BY <1>1, <1>3, <1>4, <2>1, WorldIs, WorldBecomes DEF WorldOK
<1>6. ASSUME NEW t, NEW c,
             r.writers \subseteq {t} =>
               (rows[i].content \cap c.draft.content) \ (restored \cup outrun') \subseteq r.content
      PROVE  Evolves(World, World', t, c)
  <2>1. ASSUME NEW j \in DOMAIN rows, j # i
        PROVE  rows'[j].updated = rows[j].updated /\ rows'[j].content = rows[j].content /\ rows'[j].writers = rows[j].writers
    BY <1>1, <2>1
  <2>2. /\ rows'[i].updated = now' /\ now < now' /\ rows[i].writers \subseteq rows'[i].writers
        /\ rows'[i].writers \subseteq {t} =>
             (rows[i].content \cap c.draft.content) \ (restored' \cup outrun') \subseteq rows'[i].content
    BY <1>1, <1>6
  <2> QED BY <1>1, <1>2, <2>1, <2>2, WorldIs, WorldBecomes DEF Evolves
<1> QED BY <1>5, <1>6

\* A row is added.
LEMMA RowAdded ==
  ASSUME WorldOK(World), NEW session, session = 0 \/ session \in Known(World),
         rows' = Append(rows, Mint(session)), Tick,
         UNCHANGED <<adrift, cookie, local, edits, loose, restored, outrun>>
  PROVE  /\ WorldOK(World') /\ Len(rows) + 1 \in DOMAIN rows'
         /\ \A t, c : Evolves(World, World', t, c)
<1> DEFINE n == Len(rows) + 1
           r == Mint(session)
<1>1. /\ rows \in Seq(Row) /\ now \in Nat /\ now' = now + 1 /\ edits \in 0..MaxEdits
      /\ DOMAIN rows = 1..Len(rows) /\ Len(rows) \in Nat
  BY WorldIs, LenProperties DEF WorldOK, Tick
<1>2. session \in Nat
  BY <1>1, WorldIs DEF Known
<1>3. r \in Row /\ r.session = (IF session = 0 THEN n ELSE session) /\ r.updated = now + 1
      /\ r.content = {} /\ r.status = "open"
  BY <1>1, <1>2 DEF Mint, Row
<1> HIDE DEF r
<1>4. /\ rows' \in Seq(Row) /\ DOMAIN rows' = 1..n /\ rows'[n] = r
      /\ \A j \in DOMAIN rows : j \in DOMAIN rows' /\ rows'[j] = rows[j]
  <2>1. rows' = Append(rows, r)
    BY DEF r
  <2> QED BY <1>1, <1>3, <2>1, AppendProperties, LenProperties
<1>5. n \notin DOMAIN rows /\ n \in DOMAIN rows' /\ n # 0 /\ \A j \in DOMAIN rows' : j # n => j \in DOMAIN rows
  BY <1>1, <1>4
<1> HIDE DEF n
<1>6. Known(World) \subseteq Known(World') /\ r.session \in Known(World')
  <2>1. Known(World) \subseteq Known(World')
    BY <1>4, WorldIs, WorldBecomes DEF Known
  <2>2. CASE session = 0
    <3>1. r.session = n
      BY <1>3, <2>2
    <3>2. n \in DOMAIN World'.rows /\ World'.rows[n] = r
      BY <1>4, <1>5, WorldBecomes
    <3>3. n \in Known(World')
      BY <3>1, <3>2 DEF Known
    <3> QED BY <2>1, <3>1, <3>3
  <2>3. CASE session # 0
    BY <1>3, <2>1, <2>3
  <2> QED BY <2>1, <2>2, <2>3
<1>7. ASSUME NEW j \in DOMAIN rows' PROVE RowOK(World', j)
  <2>1. CASE j = n
    BY <1>1, <1>3, <1>4, <1>6, <2>1, WorldIs, WorldBecomes DEF RowOK
  <2>2. CASE j # n
    <3>1. j \in DOMAIN rows /\ rows'[j] = rows[j] /\ RowOK(World, j) /\ rows[j].updated \in Nat
      BY <1>4, <1>5, <2>2, RowNumbers, WorldIs DEF WorldOK
    <3> QED BY <1>1, <1>6, <3>1, WorldIs, WorldBecomes DEF RowOK
  <2> QED BY <2>1, <2>2
<1>8. WorldOK(World')
  <2>1. DraftOK(World', local')
    BY <1>1, <1>4, AheadIs, WorldIs, WorldBecomes DEF WorldOK, DraftOK, Draft
  <2>2. cookie' = 0 \/ cookie' \in Known(World')
    BY <1>6, WorldIs DEF WorldOK
  <2>3. adrift' \subseteq Letters /\ loose' \subseteq Edits /\ restored' \subseteq Edits /\ edits' \in 0..MaxEdits
        /\ now' \in Nat /\ outrun' \subseteq Edits
    BY <1>1, WorldIs DEF WorldOK
  <2> QED BY <1>4, <1>7, <2>1, <2>2, <2>3, WorldBecomes DEF WorldOK
<1>9. ASSUME NEW t, NEW c PROVE Evolves(World, World', t, c)
  <2>1. \A j \in DOMAIN rows' \ DOMAIN rows : rows'[j].updated = now' /\ now < now'
    <3>1. now + 1 = now' /\ now < now'
      BY <1>1
    <3> QED BY <1>3, <1>4, <1>5, <3>1
  <2>2. now <= now' /\ edits <= edits' /\ DOMAIN rows \subseteq DOMAIN rows'
    BY <1>1, <1>4
  <2>3. ASSUME NEW j \in DOMAIN rows
        PROVE  /\ rows'[j].session = rows[j].session /\ rows'[j].updated = rows[j].updated
               /\ rows'[j].content = rows[j].content /\ rows'[j].writers = rows[j].writers
    BY <1>4
  <2> QED BY <2>1, <2>2, <2>3, WorldIs, WorldBecomes DEF Evolves
<1> QED BY <1>5, <1>8, <1>9 DEF n

\* The other tabs go on.
LEMMA Onward ==
  ASSUME AutosaveInv, WorldOK(World'), NEW u \in Tabs, Evolves(World, World', u, tab[u]), adrift' \subseteq adrift
  PROVE  Good(World', u, tab[u]) /\ Drifts(World', u, tab[u]) /\ Attended(tab[u])
BY GoodEvolves, DriftsEvolve, WorldIs, WorldBecomes DEF AutosaveInv

LEMMA OnwardStep ==
  ASSUME AutosaveInv, WorldOK(World'), \A u \in Tabs : Evolves(World, World', u, tab[u]), adrift' \subseteq adrift,
         moves' = moves, NEW t \in Tabs, NEW c, Becomes(t, c),
         Good(World', t, c), Drifts(World', t, c), Attended(c)
  PROVE  AutosaveInv'
<1>1. tab \in [Tabs -> Client] /\ c \in Client /\ moves' \in [Tabs -> Nat]
  BY DEF AutosaveInv, Good
<1>2. tab' \in [Tabs -> Client] /\ tab'[t] = c /\ \A u \in Tabs : u # t => tab'[u] = tab[u]
  BY <1>1 DEF Becomes
<1>3. ASSUME NEW u \in Tabs
      PROVE  Good(World', u, tab'[u]) /\ Drifts(World', u, tab'[u]) /\ Attended(tab'[u])
  <2>1. CASE u = t
    BY <1>2, <2>1
  <2>2. CASE u # t
    <3>1. Good(World', u, tab[u]) /\ Drifts(World', u, tab[u]) /\ Attended(tab[u])
      BY <2>2, Onward
    <3> QED BY <1>2, <2>2, <3>1
  <2> QED BY <2>1, <2>2
<1> QED BY <1>1, <1>2, <1>3 DEF AutosaveInv

\* A save that the row admits: what the other tabs show is not its business, and what
\* its own shows it has.
LEMMA StoredIs ==
  ASSUME AutosaveInv, NEW u \in Tabs, NEW p, LetterOK(World, tab[u], p), NEW i, i = Current(p.session),
         Storable(i, p.body), rows' = Stored(i, u, p.body.content), Tick, adrift' \subseteq adrift,
         Overtakes(u, i, p.body), UNCHANGED <<cookie, local, edits, loose, restored>>
  PROVE  /\ WorldOK(World') /\ \A v \in Tabs : Evolves(World, World', v, tab[v])
         /\ i \in DOMAIN rows /\ DOMAIN rows' = DOMAIN rows
         /\ rows'[i].content = p.body.content /\ \A j \in DOMAIN rows : j # i => rows'[j] = rows[j]
         /\ (rows[i].content \ p.body.content) \cap tab[u].draft.content \subseteq restored \cup outrun'
<1> DEFINE r == [rows[i] EXCEPT !.content = p.body.content, !.updated = now + 1, !.writers = rows[i].writers \cup {u}]
<1>1. WorldOK(World) /\ rows \in Seq(Row) /\ now \in Nat
  BY WorldIs DEF AutosaveInv, WorldOK
<1>2. i \in DOMAIN rows /\ rows[i].session = p.session
  BY <1>1, CurrentIsOfSession DEF LetterOK
<1>3. rows[i] \in Row /\ rows[i].status = "open" /\ rows[i].updated <= p.body.stamp
  BY <1>1, <1>2 DEF Storable
<1>4. p.body.content \subseteq 1..edits /\ p.body.content \subseteq Edits
  BY <1>1, WorldIs DEF LetterOK, DraftOK, Draft
<1>5. /\ (rows[i].content \ p.body.content) \cap tab[u].draft.content \subseteq restored \cup outrun'
      /\ outrun \subseteq outrun' /\ outrun' \subseteq Edits
  <2>1. rows[i].content \subseteq Edits /\ outrun \subseteq Edits /\ rows[i].updated \in Nat
    BY <1>1, <1>3, WorldIs DEF Row, AutosaveInv, WorldOK
  <2>2. CASE Outruns(i, p.body)
    BY <2>1, <2>2 DEF Overtakes
  <2>3. CASE ~ Outruns(i, p.body)
    <3>1. outrun' = outrun
      BY <2>3 DEF Overtakes
    <3>2. rows[i].updated + Ahead <= p.body.stamp
      <4>1. p.body.stamp \in Int
        BY DEF LetterOK, DraftOK, Draft
      <4>2. ~ (rows[i].updated <= p.body.stamp /\ p.body.stamp <= rows[i].updated + Skew - 1)
        BY <2>1, <2>3, <4>1 DEF Outruns
      <4> QED BY <1>3, <2>1, <4>1, <4>2 DEF Ahead
    <3>3. (rows[i].content \ p.body.content) \cap tab[u].draft.content \subseteq restored
      BY <1>2, <3>2, WorldIs DEF LetterOK, Harmless
    <3> QED BY <2>1, <3>1, <3>3
  <2> QED BY <2>2, <2>3
<1>6. r \in Row /\ r.session = rows[i].session /\ r.content = p.body.content /\ r.updated = now + 1
      /\ r.writers = rows[i].writers \cup {u} /\ r.status = "open"
  <2> DEFINE o == rows[i]
             x == p.body.content
  <2>1. o \in Row /\ x \subseteq Edits /\ now + 1 \in Nat /\ o.status = "open"
    BY <1>1, <1>3, <1>4
  <2>3. r = [o EXCEPT !.content = x, !.updated = now + 1, !.writers = o.writers \cup {u}]
    OBVIOUS
  <2>4. o = rows[i] /\ x = p.body.content
    OBVIOUS
  <2> HIDE DEF o, x, r
  <2>2. o.writers \cup {u} \subseteq Tabs
    BY <2>1 DEF Row
  <2> QED BY <2>1, <2>2, <2>3, <2>4 DEF Row
<1>7. rows' = [rows EXCEPT ![i] = r]
  BY DEF Stored
<1> HIDE DEF r
<1>8. /\ WorldOK(World')
      /\ \A t, c : (r.writers \subseteq {t} =>
                      (rows[i].content \cap c.draft.content) \ (restored \cup outrun') \subseteq r.content)
                   => Evolves(World, World', t, c)
  BY <1>1, <1>2, <1>4, <1>5, <1>6, <1>7, RowWritten
<1>9. ASSUME NEW v \in Tabs PROVE Evolves(World, World', v, tab[v])
  <2>1. CASE v = u
    <3>1. (rows[i].content \cap tab[v].draft.content) \ (restored \cup outrun') \subseteq r.content
      BY <1>5, <1>6, <2>1
    <3> QED BY <1>8, <3>1
  <2>2. CASE v # u
    <3>1. ~ (r.writers \subseteq {v})
      BY <1>6, <2>2
    <3> QED BY <1>8, <3>1
  <2> QED BY <2>1, <2>2
<1>a. DOMAIN rows' = DOMAIN rows /\ rows'[i] = r /\ \A j \in DOMAIN rows : j # i => rows'[j] = rows[j]
  BY <1>2, <1>7
<1> QED BY <1>2, <1>5, <1>6, <1>8, <1>9, <1>a

LEMMA PutAdriftStep ==
  ASSUME AutosaveInv, NEW p \in adrift, PutAdrift(p)
  PROVE  AutosaveInv'
<1> DEFINE i == Current(p.session)
<1>0. /\ adrift' = adrift \ {p} /\ UNCHANGED <<cookie, local, tab, edits, moves, loose, restored>>
      /\ \/ /\ Storable(i, p.body) /\ rows' = Stored(i, p.by, p.body.content) /\ Tick
            /\ Overtakes(p.by, i, p.body)
         \/ UNCHANGED <<rows, now, outrun>>
  BY DEF PutAdrift
<1>1. /\ WorldOK(World) /\ p \in Letters /\ p.by \in Tabs /\ LetterOK(World, tab[p.by], p)
      /\ cookie = 0 \/ cookie \in Known(World)
  BY WorldIs DEF AutosaveInv, WorldOK, Drifts, Letters
<1>2. adrift' \subseteq adrift
  BY <1>0
<1>3. WorldOK(World') /\ \A v \in Tabs : Evolves(World, World', v, tab[v])
  <2>1. CASE Storable(i, p.body) /\ rows' = Stored(i, p.by, p.body.content) /\ Tick /\ Overtakes(p.by, i, p.body)
    BY <1>0, <1>1, <1>2, <2>1, StoredIs
  <2>2. CASE UNCHANGED <<rows, now, outrun>>
    <3>1. adrift \subseteq Letters /\ now \in Nat /\ edits \in 0..MaxEdits /\ loose \subseteq Edits
          /\ restored \subseteq Edits /\ outrun \subseteq Edits /\ DraftOK(World, local)
      BY <1>1, WorldIs DEF WorldOK
    <3>2. Quiet
      BY <1>0, <2>2, <3>1 DEF Quiet
    <3> QED BY <1>0, <1>1, <1>2, <2>2, <3>1, <3>2, QuietWorld, QuietEvolves
  <2> QED BY <1>0, <2>1, <2>2
<1>4. ASSUME NEW u \in Tabs
      PROVE  Good(World', u, tab[u]) /\ Drifts(World', u, tab[u]) /\ Attended(tab[u])
  BY <1>2, <1>3, Onward
<1> QED BY <1>0, <1>3, <1>4 DEF AutosaveInv

LEMMA PutStep ==
  ASSUME AutosaveInv, NEW t \in Tabs, NEW k \in DOMAIN tab[t].saves, Put(t, k)
  PROVE  AutosaveInv'
<1> DEFINE c == tab[t]
           s == c.saves[k]
           i == Current(s.session)
<1>0. s.state = "sent" /\ UNCHANGED <<cookie, local, adrift, edits, moves, loose, restored>>
  BY DEF Put
<1>1. c \in Client /\ Good(World, t, c) /\ Drifts(World, t, c) /\ Attended(c) /\ WorldOK(World)
      /\ tab \in [Tabs -> Client] /\ now \in Nat /\ adrift' \subseteq adrift
  BY <1>0, TabHolds, WorldIs DEF AutosaveInv, WorldOK
<1>2. LetterOK(World, c, s)
  BY <1>1 DEF Good, CallsOK, SaveOK
<1>3. i \in DOMAIN rows /\ i \in Nat /\ i # 0 /\ cookie # 0
  BY <1>1, <1>2, CurrentIsOfSession, WorldIs, LenProperties DEF WorldOK, LetterOK
<1>4. CASE /\ Storable(i, s.body) /\ rows' = Stored(i, t, s.body.content) /\ Tick /\ Overtakes(t, i, s.body)
           /\ Answer(t, k, "stored", [id |-> i, content |-> {}, stamp |-> now + 1])
  <2> DEFINE reply == [id |-> i, content |-> {}, stamp |-> now + 1]
  <2>1. /\ WorldOK(World') /\ \A v \in Tabs : Evolves(World, World', v, tab[v])
        /\ i \in DOMAIN rows' /\ rows'[i].content = s.body.content
    <3>1. LetterOK(World, tab[t], s) /\ Storable(i, s.body) /\ rows' = Stored(i, t, s.body.content) /\ Tick
          /\ i = Current(s.session) /\ Overtakes(t, i, s.body)
      BY <1>2, <1>4
    <3> HIDE DEF s, i
    <3>2. /\ WorldOK(World') /\ \A v \in Tabs : Evolves(World, World', v, tab[v])
          /\ i \in DOMAIN rows /\ DOMAIN rows' = DOMAIN rows /\ rows'[i].content = s.body.content
      BY <1>0, <1>1, <3>1, StoredIs
    <3> QED BY <3>2
  <2>2. reply \in Draft /\ reply.id = i /\ reply.stamp = now' /\ now' \in Nat
    <3> HIDE DEF i
    <3> QED BY <1>1, <1>3, <1>4 DEF Draft, Tick
  <2> HIDE DEF reply
  <2>a. Answer(t, k, "stored", reply)
    BY <1>4 DEF reply
  <2>3. PICK d, z : /\ Becomes(t, d) /\ Turned(c, d, k, z) /\ z.state = "stored" /\ z.reply = reply
                    /\ z.body = s.body /\ z.session = s.session /\ z.awaited = s.awaited
    BY <1>1, <2>2, <2>a, AnswerIs
  <2>4. Good(World', t, c) /\ Drifts(World', t, c)
    BY <1>1, <2>1, Onward
  <2>5. /\ z.reply.id \in DOMAIN World'.rows /\ z.reply.stamp <= World'.now
        /\ Kept(World', t, z.reply.id, z.body.content \cap c.draft.content)
    <3> HIDE DEF i
    <3>1. z.reply.id = i /\ World'.rows = rows' /\ World'.now = now' /\ z.reply.stamp = now'
      BY <2>2, <2>3, WorldBecomes
    <3>2. z.body.content = rows'[i].content
      BY <2>1, <2>3
    <3> QED BY <2>1, <2>2, <3>1, <3>2 DEF Kept
  <2>6. Good(World', t, d)
    BY <2>3, <2>4, <2>5, Answered
  <2>7. Drifts(World', t, d)
    <3>1. d.draft = c.draft
      BY <2>3 DEF Turned
    <3> QED BY <2>4, <3>1, Shown
  <2>8. Attended(d)
    BY <1>1, <2>3, TurnedAttended
  <2> QED BY <1>0, <1>1, <2>1, <2>3, <2>6, <2>7, <2>8, OnwardStep
<1>5. CASE Answer(t, k, "refused", View(i)) /\ UNCHANGED <<rows, now, outrun>>
  <2>1. View(i) \in Draft /\ DraftOK(World, View(i)) /\ CopyOK(World, View(i)) /\ View(i).id = i
    <3> HIDE DEF i
    <3> QED BY <1>1, <1>3, ViewOK DEF View
  <2>2. PICK d, z : /\ Becomes(t, d) /\ Turned(c, d, k, z) /\ z.state = "refused" /\ z.reply = View(i)
                    /\ z.body = s.body /\ z.session = s.session /\ z.awaited = s.awaited
    BY <1>1, <1>5, <2>1, AnswerIs
  <2>3. Good(World, t, d)
    <3> HIDE DEF i
    <3> QED BY <1>1, <1>3, <2>1, <2>2, Answered
  <2>4. Drifts(World, t, d)
    <3>1. d.draft = c.draft
      BY <2>2 DEF Turned
    <3> QED BY <1>1, <3>1, Shown
  <2>5. Attended(d)
    BY <1>1, <2>2, TurnedAttended
  <2>6. Still /\ moves' \in [Tabs -> Nat]
    BY <1>0, <1>5, TabHolds DEF Still
  <2> QED BY <2>2, <2>3, <2>4, <2>5, <2>6, StillStep
<1> QED BY <1>4, <1>5 DEF Put

\* A request for a draft is answered.
Filled(c, k, id) == [c EXCEPT !.creates = [c.creates EXCEPT ![k] = [c.creates[k] EXCEPT !.id = id]]]

LEMMA CreateAnswered ==
  ASSUME NEW w, NEW t, NEW c, Good(w, t, c), Attended(c), NEW k \in DOMAIN c.creates, NEW id \in Nat, id \in DOMAIN w.rows
  PROVE  Good(w, t, Filled(c, k, id)) /\ Attended(Filled(c, k, id)) /\ Filled(c, k, id).draft = c.draft
<1> DEFINE n == [c.creates[k] EXCEPT !.id = id]
           q == [c.creates EXCEPT ![k] = n]
           d == [c EXCEPT !.creates = q]
<1>0. c \in Client /\ c.creates \in Seq(Create) /\ CallsOK(w, t, c)
  BY DEF Good, Client
<1>1. c.creates[k] \in Create
  BY <1>0
<1>2. n \in Create /\ n.session = c.creates[k].session /\ n.id = id /\ n.awaited = c.creates[k].awaited
  BY <1>1 DEF Create
<1> HIDE DEF n
<1>3. q \in Seq(Create)
  BY <1>0, <1>2, ExceptSeq
<1>4. q[k] = n /\ DOMAIN q = DOMAIN c.creates /\ \A j \in DOMAIN q : j # k => q[j] = c.creates[j]
  OBVIOUS
<1> HIDE DEF q
<1>5. d \in Client
  BY <1>0, <1>3 DEF Client
<1>6. /\ d.page = c.page /\ d.draft = c.draft /\ d.dirty = c.dirty /\ d.frozen = c.frozen /\ d.due = c.due
      /\ d.failed = c.failed /\ d.ask = c.ask /\ d.got = c.got /\ d.saves = c.saves
      /\ d.creates = q /\ d.submit = c.submit
  BY <1>0 DEF Client
<1>f. d = Filled(c, k, id)
  BY DEF Filled, q, n
<1> HIDE DEF d
<1>7. ASSUME NEW j \in DOMAIN d.creates PROVE CreateOK(w, d, d.creates[j])
  <2>1. CreateOK(w, c, d.creates[j])
    <3>1. CreateOK(w, c, c.creates[j])
      BY <1>0, <1>4, <1>6 DEF CallsOK
    <3>2. CASE j = k
      BY <1>2, <1>4, <1>6, <3>1, <3>2 DEF CreateOK
    <3>3. CASE j # k
      BY <1>4, <1>6, <3>1, <3>3
    <3> QED BY <3>2, <3>3
  <2> QED BY <1>6, <2>1 DEF CreateOK
<1>8. Once(d.creates)
  BY <1>0, <1>2, <1>4, <1>6 DEF CallsOK, Once
<1>9. CallsOK(w, t, d)
  <2>1. ASSUME NEW j \in DOMAIN d.saves PROVE SaveOK(w, t, d, d.saves[j])
    <3>1. SaveOK(w, t, c, d.saves[j])
      BY <1>0, <1>6 DEF CallsOK
    <3> QED BY <1>6, <3>1 DEF SaveOK, LetterOK, Harmless
  <2>2. Once(d.saves)
    BY <1>0, <1>6 DEF CallsOK
  <2> QED BY <1>7, <1>8, <2>1, <2>2 DEF CallsOK
<1>a. c.page \notin {"mounted", "read", "closed"}
  BY DEF Good, PageOK
<1>b. PageOK(w, d) /\ FormsOK(w, d) /\ SubmitOK(w, t, d) /\ Clean(w, t, d)
  BY <1>6, <1>a DEF Good, PageOK, FormsOK, SubmitOK, Clean
<1>c. Attended(d)
  BY <1>6 DEF Attended
<1> QED BY <1>5, <1>6, <1>9, <1>b, <1>c, <1>f DEF Good

LEMMA CreateDraftStep ==
  ASSUME AutosaveInv, NEW t \in Tabs, NEW k \in DOMAIN tab[t].creates, CreateDraft(t, k)
  PROVE  AutosaveInv'
<1> DEFINE c == tab[t]
           session == c.creates[k].session
           reuse == session # 0 /\ rows[Current(session)].status = "open"
           id == IF reuse THEN Current(session) ELSE Len(rows) + 1
           d == Filled(c, k, id)
<1>0. /\ tab' = [tab EXCEPT ![t].creates[k].id = id]
      /\ IF reuse THEN UNCHANGED <<rows, now>> ELSE rows' = Append(rows, Mint(session)) /\ Tick
      /\ UNCHANGED <<cookie, local, adrift, edits, moves, loose, restored, outrun>>
  BY DEF CreateDraft
<1>1. c \in Client /\ Good(World, t, c) /\ Drifts(World, t, c) /\ Attended(c) /\ WorldOK(World)
      /\ tab \in [Tabs -> Client] /\ now \in Nat /\ edits \in 0..MaxEdits /\ moves \in [Tabs -> Nat]
      /\ rows \in Seq(Row)
  BY TabHolds, WorldIs DEF AutosaveInv, WorldOK
<1>2. Becomes(t, d)
  BY <1>0 DEF Becomes, Filled
<1>3. session = 0 \/ session \in Known(World)
  BY <1>1 DEF Good, CallsOK, CreateOK
<1>4. /\ WorldOK(World') /\ \A v \in Tabs : Evolves(World, World', v, tab[v])
      /\ id \in DOMAIN rows' /\ id \in Nat
  <2> HIDE DEF session
  <2>1. CASE reuse
    <3>1. id \in DOMAIN rows /\ id \in Nat
      BY <1>1, <1>3, <2>1, CurrentIsOfSession, LenProperties
    <3> HIDE DEF id
    <3>2. UNCHANGED <<rows, cookie, local, adrift, now, edits, loose, restored, outrun>>
      BY <1>0, <2>1
    <3>3. World' = World
      BY <3>2 DEF World
    <3>4. Quiet
      BY <1>1, <3>2 DEF Quiet
    <3> QED BY <1>1, <3>1, <3>2, <3>3, <3>4, QuietEvolves
  <2>2. CASE ~ reuse
    <3>1. rows' = Append(rows, Mint(session)) /\ Tick /\ id = Len(rows) + 1
      BY <1>0, <2>2
    <3>2. Len(rows) \in Nat
      BY <1>1, LenProperties
    <3> HIDE DEF id, reuse
    <3> QED BY <1>0, <1>1, <1>3, <3>1, <3>2, RowAdded
  <2> QED BY <2>1, <2>2
<1>5. Good(World', t, c) /\ Drifts(World', t, c)
  <2> HIDE DEF id
  <2> QED BY <1>0, <1>1, <1>4, Onward
<1> HIDE DEF id
<1>6. id \in DOMAIN World'.rows
  BY <1>4, WorldBecomes
<1>7. k \in DOMAIN c.creates
  OBVIOUS
<1> HIDE DEF c
<1>8. Good(World', t, d) /\ Attended(d) /\ d.draft = c.draft
  BY <1>1, <1>4, <1>5, <1>6, <1>7, CreateAnswered
<1> HIDE DEF d
<1>9. Drifts(World', t, d)
  BY <1>5, <1>8, Shown
<1> QED BY <1>0, <1>2, <1>4, <1>8, <1>9, OnwardStep

\* A submit that goes on while its row is written.
LEMMA SubmitOnward ==
  ASSUME AutosaveInv, WorldOK(World'), \A u \in Tabs : Evolves(World, World', u, tab[u]), adrift' \subseteq adrift,
         moves' = moves, NEW t \in Tabs,
         tab[t].submit.at \in {"token", "sent", "received", "screened", "accepted", "refused"},
         NEW at \in {"received", "screened", "accepted", "refused"},
         at = "screened" => tab[t].submit.at = "received", at # "received",
         Goes(t, at)
  PROVE  AutosaveInv'
<1> DEFINE c == tab[t]
           s == [c.submit EXCEPT !.at = at]
           d == [c EXCEPT !.submit = s]
<1>1. c \in Client /\ Good(World', t, c) /\ Drifts(World', t, c) /\ Attended(c) /\ c.submit \in Submission
  BY TabHolds, Onward DEF Client
<1>2. s \in Submission /\ s.at = at /\ s.saved = c.submit.saved /\ s.payload = c.submit.payload /\ s.row = c.submit.row
  BY <1>1 DEF Submission, Submits
<1>3. at = "screened" => s.row \in DOMAIN World'.rows
  BY <1>1, <1>2 DEF Good, SubmitOK
<1>4. Becomes(t, d)
  BY <1>1 DEF Goes, Client
<1> HIDE DEF s
<1>5. Good(World', t, d)
  BY <1>1, <1>2, <1>3, SubmitGoes
<1>6. /\ d.page = c.page /\ d.draft = c.draft /\ d.dirty = c.dirty /\ d.frozen = c.frozen /\ d.due = c.due
      /\ d.failed = c.failed /\ d.ask = c.ask /\ d.saves = c.saves
  BY <1>1 DEF Client
<1> HIDE DEF d, c
<1>7. Drifts(World', t, d) /\ Attended(d)
  BY <1>1, <1>6, Shown DEF Attended
<1> QED BY <1>4, <1>5, <1>7, OnwardStep

LEMMA WorldStill ==
  ASSUME AutosaveInv, Still
  PROVE  WorldOK(World') /\ \A u \in Tabs : Evolves(World, World', u, tab[u])
<1>1. World' = World /\ WorldOK(World) /\ now \in Nat /\ edits \in Nat
  BY WorldIs DEF World, Still, AutosaveInv, WorldOK
<1>2. Quiet
  BY <1>1 DEF Quiet, Still
<1> QED BY <1>1, <1>2, QuietEvolves

\* The status and the form of a row are written: its content stays.
LEMMA Marked ==
  ASSUME AutosaveInv, NEW i \in DOMAIN rows, NEW r \in Row, rows' = [rows EXCEPT ![i] = r], Tick,
         r.session = rows[i].session, r.updated = now + 1, r.content = rows[i].content, r.writers = rows[i].writers,
         r.status = "submitted" => r.owed \subseteq r.content,
         UNCHANGED <<adrift, cookie, local, edits, loose, restored, outrun>>
  PROVE  WorldOK(World') /\ \A u \in Tabs : Evolves(World, World', u, tab[u])
<1>1. WorldOK(World) /\ rows[i].content \subseteq 1..edits /\ outrun \subseteq Edits
  BY RowNumbers, WorldIs DEF AutosaveInv, WorldOK
<1> QED BY <1>1, RowWritten

LEMMA ScreenStep ==
  ASSUME AutosaveInv, NEW t \in Tabs, Screen(t)
  PROVE  AutosaveInv'
<1> DEFINE i == tab[t].submit.row
<1>0. tab[t].submit.at = "received" /\ UNCHANGED <<cookie, local, adrift, edits, moves, loose, restored, outrun>>
  BY DEF Screen
<1>1. Good(World, t, tab[t]) /\ WorldOK(World) /\ now \in Nat
  BY TabHolds, WorldIs DEF WorldOK
<1>2. i \in DOMAIN rows /\ rows[i] \in Row
  BY <1>0, <1>1, RowNumbers, WorldIs DEF Good, SubmitOK
<1>3. ASSUME NEW status \in {"open", "rejected"}, Judged(i, status)
      PROVE  WorldOK(World') /\ \A u \in Tabs : Evolves(World, World', u, tab[u])
  <2> HIDE DEF i
  <2>1. CASE UNCHANGED <<rows, now>>
    BY <1>0, <2>1, WorldStill DEF Still
  <2>2. CASE rows' = [rows EXCEPT ![i].status = status, ![i].updated = now + 1] /\ Tick
    <3> DEFINE o == rows[i]
               r == [o EXCEPT !.status = status, !.updated = now + 1]
    <3>1. rows' = [rows EXCEPT ![i] = r]
      BY <2>2
    <3>2. o \in Row
      BY <1>2
    <3> HIDE DEF o
    <3>4. now + 1 \in Nat /\ status \in {"open", "rejected", "submitted"} /\ status # "submitted"
      BY <1>1, <1>3
    <3>3. r \in Row /\ r.session = o.session /\ r.updated = now + 1 /\ r.content = o.content
          /\ r.writers = o.writers /\ r.status # "submitted"
      BY <3>2, <3>4 DEF Row
    <3> HIDE DEF r
    <3> QED BY <1>0, <1>2, <2>2, <3>1, <3>3, Marked DEF o
  <2> QED BY <1>3, <2>1, <2>2 DEF Judged
<1>4. \/ Goes(t, "screened") /\ Judged(i, "open")
      \/ Goes(t, "refused") /\ Judged(i, "rejected")
  BY DEF Screen
<1> HIDE DEF i
<1> QED BY <1>0, <1>3, <1>4, SubmitOnward

LEMMA SealStep ==
  ASSUME AutosaveInv, NEW t \in Tabs, Seal(t)
  PROVE  AutosaveInv'
<1> DEFINE c == tab[t]
           i == c.submit.row
<1>0. c.submit.at = "screened" /\ UNCHANGED <<cookie, local, adrift, edits, moves, loose, restored, outrun>>
  BY DEF Seal
<1>1. Good(World, t, c) /\ c \in Client /\ c.submit \in Submission /\ WorldOK(World) /\ now \in Nat
      /\ edits \in 0..MaxEdits
  BY TabHolds, WorldIs DEF WorldOK, Client
<1>2. i \in DOMAIN rows /\ rows[i] \in Row /\ i \in Nat /\ i # 0 /\ SubmitOK(World, t, c)
  BY <1>0, <1>1, RowNumbers, WorldIs, LenProperties DEF Good, SubmitOK, WorldOK
<1> HIDE DEF i
<1>3. CASE Goes(t, "refused") /\ UNCHANGED <<rows, now>>
  BY <1>0, <1>3, WorldStill, SubmitOnward DEF Still
<1>4. CASE Goes(t, Closed(i)) /\ UNCHANGED <<rows, now>>
  <2>1. Closed(i) \in {"accepted", "refused"}
    BY DEF Closed
  <2> QED BY <1>0, <1>4, <2>1, WorldStill, SubmitOnward DEF Still
<1>5. CASE /\ Goes(t, "accepted") /\ Tick
           /\ rows' = [rows EXCEPT ![i].status = "submitted", ![i].updated = now + 1,
                                   ![i].form = c.submit.payload, ![i].owed = Owed(t, i)]
  <2> DEFINE o == rows[i]
             x == Owed(t, i)
             form == c.submit.payload
             r == [o EXCEPT !.status = "submitted", !.updated = now + 1, !.form = form, !.owed = x]
  <2>1. rows' = [rows EXCEPT ![i] = r]
    BY <1>5
  <2>2. o \in Row /\ form \subseteq Edits
    BY <1>1, <1>2 DEF Submission
  <2>3. x \subseteq Edits /\ x \subseteq o.content
    <3>1. c.submit.saved = i => Kept(World, t, i, form \cap c.draft.content)
      BY <1>2 DEF SubmitOK
    <3> QED BY <2>2, <3>1, WorldIs DEF Owed, Kept, Excused
  <2> HIDE DEF o, x, form
  <2>a. now + 1 \in Nat
    BY <1>1
  <2>4. r \in Row /\ r.session = o.session /\ r.updated = now + 1 /\ r.content = o.content
        /\ r.writers = o.writers /\ r.owed = x
    BY <2>2, <2>3, <2>a DEF Row
  <2> HIDE DEF r
  <2>5. WorldOK(World') /\ \A u \in Tabs : Evolves(World, World', u, tab[u])
    BY <1>0, <1>2, <1>5, <2>1, <2>3, <2>4, Marked DEF o
  <2> QED BY <1>0, <1>5, <2>5, SubmitOnward
<1>6. \/ Goes(t, "refused") /\ UNCHANGED <<rows, now>>
      \/ Goes(t, Closed(i)) /\ UNCHANGED <<rows, now>>
      \/ /\ Goes(t, "accepted") /\ Tick
         /\ rows' = [rows EXCEPT ![i].status = "submitted", ![i].updated = now + 1,
                                 ![i].form = c.submit.payload, ![i].owed = Owed(t, i)]
  BY DEF Seal, i
<1> QED BY <1>3, <1>4, <1>5, <1>6

----------------------------------------------------------------------------
\* The invariant, and what it says.

LEMMA AutosaveBegins ==
  Init => AutosaveInv
<1> SUFFICES ASSUME Init PROVE AutosaveInv
  OBVIOUS
<1> DEFINE f == Fresh("closed", NoDraft)
<1>1. NoDraft \in Draft /\ NoDraft.content = {} /\ NoDraft.id = 0 /\ NoDraft.stamp = 0
  BY DEF NoDraft, Draft
<1>2. /\ f \in Client /\ f.page = "closed" /\ f.draft = NoDraft /\ ~ f.dirty /\ ~ f.frozen /\ f.ask = NoDraft
      /\ f.got = NoDraft /\ f.saves = <<>> /\ f.creates = <<>> /\ f.submit = Idle
  BY <1>1, FreshIs DEF Pages
<1>3. rows = <<>> /\ cookie = 0 /\ local = NoDraft /\ adrift = {} /\ now = 0 /\ edits = 0 /\ loose = {} /\ restored = {}
      /\ outrun = {}
  BY DEF Init
<1>4. WorldOK(World)
  <2>1. DraftOK(World, NoDraft)
    BY <1>1, <1>3, AheadIs, WorldIs DEF DraftOK, NoDraft
  <2>2. rows \in Seq(Row) /\ DOMAIN rows = {}
    BY <1>3
  <2> QED BY <1>3, <2>1, <2>2, WorldIs DEF WorldOK
<1>5. tab = [t \in Tabs |-> f] /\ moves \in [Tabs -> Nat]
  BY DEF Init
<1> HIDE DEF f
<1>6. tab \in [Tabs -> Client]
  BY <1>2, <1>5
<1>7. ASSUME NEW t \in Tabs PROVE Good(World, t, tab[t]) /\ Drifts(World, t, tab[t]) /\ Attended(tab[t])
  <2>1. tab[t] = f
    BY <1>5
  <2>2. Good(World, t, f) /\ Attended(f)
    BY <1>2, <1>4, Alone, IdleOK, NoDraftOK
  <2>3. Drifts(World, t, f)
    BY <1>3, WorldIs DEF Drifts
  <2> QED BY <2>1, <2>2, <2>3
<1> QED BY <1>4, <1>5, <1>6, <1>7 DEF AutosaveInv

LEMMA AutosaveGoesOn ==
  AutosaveInv /\ [Next]_vars => AutosaveInv'
<1> SUFFICES ASSUME AutosaveInv, [Next]_vars PROVE AutosaveInv'
  OBVIOUS
<1>1. CASE UNCHANGED vars
  <2>1. World' = World /\ tab' = tab /\ moves' = moves
    BY <1>1 DEF vars, World
  <2> QED BY <2>1 DEF AutosaveInv
<1>2. ASSUME NEW t \in Tabs, Visitor(t) PROVE AutosaveInv'
  BY <1>2, EditStep, AdvanceStep, LeaveStep, ResumeStep, RestartStep, OnlineStep, HideStep, CloseStep,
     MountStep, UseServerStep, UseLocalStep, UploadStep, SubmitStep DEF Visitor
<1>3. ASSUME NEW t \in Tabs, ServerTimer(t) PROVE AutosaveInv'
  BY <1>3, ServerTimerStep
<1>4. ASSUME NEW t \in Tabs, Api(t) PROVE AutosaveInv'
  BY <1>4, PutStep, CreateDraftStep, ReceiveStep, ScreenStep, SealStep DEF Api
<1>5. ASSUME NEW t \in Tabs, Hook(t) PROVE AutosaveInv'
  BY <1>5, LoadStep, HydrateStep, SendSubmitStep, SubmittedStep, ReturnStep, CreatedStep DEF Hook
<1>6. ASSUME NEW t \in Tabs, Network(t) PROVE AutosaveInv'
  BY <1>6, RetryStep, GiveUpStep, CreateFailsStep, SubmitFailsStep DEF Network
<1>7. ASSUME NEW p \in adrift, PutAdrift(p) PROVE AutosaveInv'
  BY <1>7, PutAdriftStep
<1> QED BY <1>1, <1>2, <1>3, <1>4, <1>5, <1>6, <1>7 DEF Next

LEMMA AutosaveInvariant ==
  Spec => []AutosaveInv
BY AutosaveBegins, AutosaveGoesOn, PTL DEF Spec

\* Types: the rows, the drafts, the calls on their way and the submit of every tab are
\* what the hook, the api and D1 hold (useDraft.ts, drafts.ts, cp/drafts.ts).
THEOREM AutosaveTypes ==
  Spec => []TypeOK
<1>1. AutosaveInv => TypeOK
  <2> SUFFICES ASSUME AutosaveInv PROVE TypeOK
    OBVIOUS
  <2>1. WorldOK(World) /\ tab \in [Tabs -> Client] /\ moves \in [Tabs -> Nat]
    BY DEF AutosaveInv
  <2>2. /\ rows \in Seq(Row) /\ local \in Draft /\ adrift \subseteq Letters /\ now \in Nat /\ edits \in 0..MaxEdits
        /\ loose \subseteq Edits /\ restored \subseteq Edits /\ outrun \subseteq Edits
    BY <2>1, WorldIs DEF WorldOK, DraftOK
  <2>3. cookie \in 0..Len(rows)
    <3>1. DOMAIN rows = 1..Len(rows) /\ Len(rows) \in Nat
      BY <2>2, LenProperties
    <3>2. cookie = 0 \/ cookie \in DOMAIN rows
      BY <2>1, WorldIs DEF WorldOK, Known
    <3> QED BY <3>1, <3>2
  <2> QED BY <2>1, <2>2, <2>3 DEF TypeOK, Client, Letters
<1> QED BY <1>1, AutosaveInvariant, PTL

\* A dirty draft is attended to: whatever makes it dirty (an edit, a conflict, an id, a
\* save that failed) leaves a timer running, a save on its way, a question on the screen
\* or the knowledge of a failure (useDraft.ts: scheduleServer, writeServer, the online
\* event).
THEOREM DirtyIsAttendedCorrect ==
  Spec => []DirtyIsAttended
<1>1. AutosaveInv => DirtyIsAttended
  BY DEF AutosaveInv, Attended, DirtyIsAttended
<1> QED BY <1>1, AutosaveInvariant, PTL

\* The guard on updated_at (updateDraftIntake(), cp/drafts.ts) orders the saves of a tab:
\* one that holds itself for saved shows nothing that its row lacks, as long as no other
\* tab wrote the row.  A clock that is ahead costs the edits an overtaken save took out
\* (outrun), and no others.
THEOREM CleanIsStoredCorrect ==
  Spec => []CleanIsStored
<1>1. AutosaveInv => CleanIsStored
  <2> SUFFICES ASSUME AutosaveInv, NEW t \in Tabs,
                      tab[t].page \in {"editing", "resume"}, ~ tab[t].dirty, tab[t].draft.id # 0, tab[t].ask.id = 0,
                      tab[t].draft.id = Current(cookie), rows[tab[t].draft.id].writers \subseteq {t}
               PROVE  tab[t].draft.content \ (loose \cup restored \cup outrun) \subseteq rows[tab[t].draft.id].content
    BY DEF CleanIsStored
  <2>1. Clean(World, t, tab[t])
    BY DEF AutosaveInv, Good
  <2> QED BY <2>1, WorldIs DEF Clean, Kept, Excused
<1> QED BY <1>1, AutosaveInvariant, PTL

\* What a submit took from the screen stays in the row it closed: the flush of the
\* submit, the screen, the batch and the saves still on their way (submit.ts,
\* setDraftPolicyScreen(), updateDraftIntake()) take nothing out of it, whatever the
\* clock of the browser says (what it let an older save take before is not owed).
THEOREM SubmittedIsKeptCorrect ==
  Spec => []SubmittedIsKept
<1>1. AutosaveInv => SubmittedIsKept
  BY WorldIs DEF AutosaveInv, WorldOK, RowOK, SubmittedIsKept
<1> QED BY <1>1, AutosaveInvariant, PTL

\* The steps that write the content of a row are the two that store a save.
LEMMA ContentStays ==
  ASSUME AutosaveInv, [Next]_vars,
         ~ \E t \in Tabs : \E k \in DOMAIN tab[t].saves : Put(t, k),
         ~ \E p \in adrift : PutAdrift(p), NEW i \in DOMAIN rows
  PROVE  rows'[i].content = rows[i].content
<1>1. rows \in Seq(Row)
  BY WorldIs DEF AutosaveInv, WorldOK
<1>2. CASE rows' = rows
  BY <1>2
<1>3. ASSUME NEW session, rows' = Append(rows, Mint(session)) PROVE rows'[i].content = rows[i].content
  <2>1. DOMAIN rows = 1..Len(rows) /\ Len(rows) \in Nat
    BY <1>1, LenProperties
  <2> QED BY <1>1, <1>3, <2>1
<1>4. ASSUME NEW j, NEW status, rows' = [rows EXCEPT ![j].status = status, ![j].updated = now + 1]
      PROVE  rows'[i].content = rows[i].content
  <2>1. rows[i] \in Row
    BY <1>1
  <2>2. CASE i = j
    BY <1>4, <2>1, <2>2 DEF Row
  <2>3. CASE i # j
    BY <1>4, <2>3
  <2> QED BY <2>2, <2>3
<1>5. ASSUME NEW j, NEW form, NEW owed,
             rows' = [rows EXCEPT ![j].status = "submitted", ![j].updated = now + 1, ![j].form = form, ![j].owed = owed]
      PROVE  rows'[i].content = rows[i].content
  <2>1. rows[i] \in Row
    BY <1>1
  <2>2. CASE i = j
    BY <1>5, <2>1, <2>2 DEF Row
  <2>3. CASE i # j
    BY <1>5, <2>3
  <2> QED BY <2>2, <2>3
<1>6. ASSUME NEW t \in Tabs, Visitor(t) \/ ServerTimer(t) \/ Hook(t) \/ Network(t) PROVE rows' = rows
  BY <1>6 DEF Visitor, ServerTimer, Hook, Network, Edit, Advance, Leave, Resume, Restart, Online, Hide, Close, Mount,
     UseServer, UseLocal, Upload, Submit, Load, Hydrate, SendSubmit, Submitted, Return, Created, Retry, GiveUp,
     CreateFails, SubmitFails
<1>7. ASSUME NEW t \in Tabs, NEW k, CreateDraft(t, k) PROVE rows'[i].content = rows[i].content
  BY <1>2, <1>3, <1>7 DEF CreateDraft
<1>8. ASSUME NEW t \in Tabs, Screen(t) PROVE rows'[i].content = rows[i].content
  BY <1>2, <1>4, <1>8 DEF Screen, Judged
<1>9. ASSUME NEW t \in Tabs, Seal(t) PROVE rows'[i].content = rows[i].content
  <2> DEFINE j == tab[t].submit.row
             form == tab[t].submit.payload
             owed == Owed(t, j)
  <2>1. \/ rows' = rows
        \/ rows' = [rows EXCEPT ![j].status = "submitted", ![j].updated = now + 1, ![j].form = form, ![j].owed = owed]
    BY <1>9 DEF Seal
  <2> HIDE DEF j, form, owed
  <2> QED BY <1>2, <1>5, <2>1
<1>a. ASSUME NEW t \in Tabs, Api(t) PROVE rows'[i].content = rows[i].content
  <2>1. CASE Receive(t)
    BY <1>2, <2>1 DEF Receive
  <2> QED BY <1>7, <1>8, <1>9, <1>a, <2>1 DEF Api
<1>b. CASE UNCHANGED vars
  BY <1>2, <1>b DEF vars
<1> QED BY <1>2, <1>6, <1>a, <1>b DEF Next

\* A save that lands takes nothing out of a row that its own tab still shows, however
\* the saves overtook one another, unless the row was written, by the clock of the api,
\* after the draft it carries: the guard on updated_at then lets it pass only because
\* the clock of the browser is ahead.
THEOREM NothingRollsBackCorrect ==
  Spec => NothingRollsBack
<1> DEFINE A == \A t \in Tabs : \A i \in DOMAIN rows :
                  rows'[i].content # rows[i].content /\ Lands(t) =>
                    (rows[i].content \ rows'[i].content) \cap tab[t].draft.content \subseteq restored \cup outrun'
<1>1. AutosaveInv /\ [Next]_vars => A
  <2> SUFFICES ASSUME AutosaveInv, [Next]_vars, NEW t \in Tabs, NEW i \in DOMAIN rows,
                      rows'[i].content # rows[i].content, Lands(t)
               PROVE  (rows[i].content \ rows'[i].content) \cap tab[t].draft.content \subseteq restored \cup outrun'
    OBVIOUS
  <2>1. CASE \E u \in Tabs : \E k \in DOMAIN tab[u].saves : Put(u, k)
    <3>0. PICK u \in Tabs : \E k \in DOMAIN tab[u].saves : Put(u, k)
      BY <2>1
    <3>1. PICK k \in DOMAIN tab[u].saves : Put(u, k)
      BY <3>0
    <3> DEFINE s == tab[u].saves[k]
               j == Current(s.session)
    <3>2. /\ Storable(j, s.body) /\ rows' = Stored(j, u, s.body.content) /\ Tick
          /\ Overtakes(u, j, s.body) /\ UNCHANGED <<cookie, local, adrift, edits, moves, loose, restored>>
      BY <3>1 DEF Put
    <3>3. tab \in [Tabs -> Client] /\ Good(World, u, tab[u])
      BY DEF AutosaveInv
    <3>4. LetterOK(World, tab[u], s)
      BY <3>3 DEF Good, CallsOK, SaveOK
    <3>5. t = u
      <4>1. \A v \in Tabs : v # u => tab'[v] = tab[v]
        BY <3>1, <3>3 DEF Put, Answer
      <4> QED BY <3>2, <4>1 DEF Lands
    <3>6. j = Current(s.session) /\ adrift' \subseteq adrift
      BY <3>2
    <3> HIDE DEF s, j
    <3>7. /\ j \in DOMAIN rows /\ rows'[j].content = s.body.content /\ \A l \in DOMAIN rows : l # j => rows'[l] = rows[l]
          /\ (rows[j].content \ s.body.content) \cap tab[u].draft.content \subseteq restored \cup outrun'
      BY <3>2, <3>4, <3>6, StoredIs
    <3>8. i = j
      BY <3>7
    <3> QED BY <3>5, <3>7, <3>8
  <2>2. CASE \E p \in adrift : PutAdrift(p)
    <3>1. PICK p \in adrift : PutAdrift(p)
      BY <2>2
    <3> DEFINE j == Current(p.session)
    <3>2. /\ Storable(j, p.body) /\ rows' = Stored(j, p.by, p.body.content) /\ Tick
          /\ Overtakes(p.by, j, p.body)
          /\ adrift' = adrift \ {p} /\ UNCHANGED <<cookie, local, tab, edits, moves, loose, restored>>
      BY <3>1 DEF PutAdrift
    <3>3. p.by \in Tabs /\ LetterOK(World, tab[p.by], p)
      BY WorldIs DEF AutosaveInv, WorldOK, Drifts, Letters
    <3>4. t = p.by
      BY <3>2 DEF Lands
    <3>5. j = Current(p.session) /\ adrift' \subseteq adrift
      BY <3>2
    <3> HIDE DEF j
    <3>6. /\ j \in DOMAIN rows /\ rows'[j].content = p.body.content /\ \A l \in DOMAIN rows : l # j => rows'[l] = rows[l]
          /\ (rows[j].content \ p.body.content) \cap tab[p.by].draft.content \subseteq restored \cup outrun'
      BY <3>2, <3>3, <3>5, StoredIs
    <3>7. i = j
      BY <3>6
    <3> QED BY <3>4, <3>6, <3>7
  <2> QED BY <2>1, <2>2, ContentStays
<1>2. AutosaveInv /\ [Next]_vars => [A]_vars
  BY <1>1
<1>3. Spec => [][A]_vars
  BY <1>2, AutosaveInvariant, PTL DEF Spec
<1> QED BY <1>3 DEF NothingRollsBack

----------------------------------------------------------------------------
\* Photos.

USE MediaAssumption DEF MediaAssumption

\* A tile has a media id from the row it inserted to the message it sent.  No
\* delivery is under way before that message, and until the row is committed the
\* upload it names is there.
TileHolds(t) ==
  LET m == tile[t].media IN
  /\ tile[t].at \in {"put", "commit", "send"} <=> m # Null
  /\ m # Null => row[m].status # "none"
  /\ tile[t].at = "put" => row[m].status = "pending"
  /\ tile[t].at = "commit" /\ row[m].status = "pending" => m \in quarantine
  /\ tile[t].at = "send" => row[m].status = "verifying" /\ m \in quarantine /\ msg[m].at = "none"

\* No two tiles have one.
Separate == \A t, u \in Tiles : tile[t].media = tile[u].media /\ tile[t].media # Null => t = u

\* What an invocation found out about a photo on the way to its row.
Verified(c) ==
  LET m == consumer[c].media IN
  /\ consumer[c].at # "rest" <=> m # Null
  /\ m # Null => msg[m].at # "none"
  /\ consumer[c].at \in {"write", "promote"} => row[m].photo \notin Refused
  /\ consumer[c].at = "promote" => row[m].photo \in bucket
  /\ consumer[c].at = "delete" => row[m].status = "ready"

\* A message follows the commit of its row; a row that was inserted has its photo.
Committed(m) ==
  /\ msg[m].at # "none" => row[m].status \notin {"none", "pending"}
  /\ row[m].status # "none" => row[m].photo \in Photos

MediaInv ==
  /\ MediaTypeOK /\ Separate
  /\ \A t \in Tiles : TileHolds(t)
  /\ \A c \in Consumers : Verified(c)
  /\ \A m \in Media : Committed(m)
  /\ OfferedIsVerified /\ UploadSurvives

LEMMA MediaInitInv == MediaInit => MediaInv
<1> SUFFICES ASSUME MediaInit PROVE MediaInv
  OBVIOUS
<1>1. MediaTypeOK
  BY DEF MediaInit, MediaTypeOK, Statuses, Steps, Working
<1> QED BY <1>1 DEF MediaInit, MediaInv, Separate, TileHolds, Verified, Committed, OfferedIsVerified, UploadSurvives

\* What may be stored of a refusal: nothing.
LEMMA RefusalIsLost == ~ StorableReason("missing") /\ ~ StorableReason("refused")
  BY DEF StorableReason

\* A tile at rest is disturbed by what happens to its own row, message and upload.
LEMMA TileStays ==
  ASSUME NEW t \in Tiles, TileHolds(t), tile'[t] = tile[t],
         tile[t].media # Null => row'[tile[t].media] = row[tile[t].media],
         tile[t].at = "send" => msg'[tile[t].media].at = msg[tile[t].media].at,
         tile[t].at \in {"commit", "send"} /\ tile[t].media \in quarantine => tile[t].media \in quarantine'
  PROVE  TileHolds(t)'
<1>1. CASE tile[t].media = Null
  BY <1>1 DEF TileHolds
<1>2. CASE tile[t].media # Null
  BY <1>2 DEF TileHolds
<1> QED BY <1>1, <1>2

\* The browser before its row is there.
LEMMA PumpSignInv ==
  ASSUME MediaInv, NEW t \in Tiles, Pump(t) \/ Sign(t)
  PROVE  MediaInv'
<1>1. /\ tile' \in [Tiles -> [at : Working \cup {"queued", "done"}, media : Media \cup {Null}]]
      /\ \A u \in Tiles \ {t} : tile'[u] = tile[u]
      /\ tile'[t].at \in {"sign", "insert", "done"} /\ tile'[t].media = Null
  BY DEF Pump, Sign, Step, Done, MediaInv, MediaTypeOK, TileHolds, Working
<1>2. UNCHANGED <<photo, row, quarantine, bucket, msg, consumer, faults, dups>>
  BY DEF Pump, Sign, storeVars
<1>3. MediaTypeOK'
  BY <1>1, <1>2 DEF MediaInv, MediaTypeOK
<1>4. \A u \in Tiles : TileHolds(u)'
  BY <1>1, <1>2 DEF MediaInv, TileHolds
<1>5. Separate'
  BY <1>1 DEF MediaInv, Separate
<1> QED BY <1>2, <1>3, <1>4, <1>5 DEF MediaInv, Verified, Committed, OfferedIsVerified, UploadSurvives

LEMMA InsertInv ==
  ASSUME MediaInv, NEW t \in Tiles, Insert(t)
  PROVE  MediaInv'
<1>1. PICK m \in Media \ Rows :
        /\ row' = [row EXCEPT ![m] = [status |-> "pending", photo |-> photo[t]]]
        /\ \/ /\ tile' = [tile EXCEPT ![t].at = "put", ![t].media = m]
              /\ UNCHANGED faults
           \/ Fault /\ Step(t, "sign")
  BY DEF Insert
<1>2. /\ row \in [Media -> [status : Statuses, photo : Photos \cup {Null}]] /\ photo[t] \in Photos
      /\ tile \in [Tiles -> [at : Working \cup {"queued", "done"}, media : Media \cup {Null}]]
      /\ tile[t].at = "insert" /\ tile[t].media = Null /\ row[m].status = "none"
      /\ UNCHANGED <<photo, quarantine, bucket, msg, consumer, dups>>
  BY DEF Insert, Rows, MediaInv, MediaTypeOK, TileHolds
<1>3. /\ row' \in [Media -> [status : Statuses, photo : Photos \cup {Null}]]
      /\ row'[m].status = "pending" /\ row'[m].photo = photo[t]
      /\ \A n \in Media \ {m} : row'[n] = row[n]
  BY <1>1, <1>2 DEF Statuses
<1>4. /\ tile' \in [Tiles -> [at : Working \cup {"queued", "done"}, media : Media \cup {Null}]]
      /\ \A u \in Tiles \ {t} : tile'[u] = tile[u]
      /\ \/ tile'[t].at = "put" /\ tile'[t].media = m
         \/ tile'[t].at = "sign" /\ tile'[t].media = Null
  BY <1>1, <1>2 DEF Step, Working
<1>5. faults' \in 0..MaxFaults
  BY <1>1 DEF Fault, MediaInv, MediaTypeOK
<1>6. MediaTypeOK'
  BY <1>2, <1>3, <1>4, <1>5 DEF MediaInv, MediaTypeOK
<1>7. \A u \in Tiles : tile[u].media # m
  BY <1>2 DEF MediaInv, TileHolds
<1>8. \A c \in Consumers : consumer[c].media # m
  BY <1>2 DEF MediaInv, Verified, Committed
<1>9. \A u \in Tiles : TileHolds(u)'
  <2> SUFFICES ASSUME NEW u \in Tiles PROVE TileHolds(u)'
    OBVIOUS
  <2>1. CASE u = t
    BY <2>1, <1>2, <1>3, <1>4 DEF TileHolds
  <2>2. CASE u # t
    <3>1. tile[u].media \in Media \cup {Null} /\ TileHolds(u)
      BY <1>2 DEF MediaInv
    <3>2. tile'[u] = tile[u] /\ tile[u].media # m /\ quarantine' = quarantine
      BY <2>2, <1>2, <1>4, <1>7
    <3>3. tile[u].media # Null => row'[tile[u].media] = row[tile[u].media]
      BY <3>1, <3>2, <1>3
    <3> QED BY <3>1, <3>2, <3>3, <1>2, TileStays
  <2> QED BY <2>1, <2>2
<1>10. Separate'
  BY <1>4, <1>7 DEF MediaInv, Separate
<1>11. \A c \in Consumers : Verified(c)'
  <2> SUFFICES ASSUME NEW c \in Consumers PROVE Verified(c)'
    OBVIOUS
  <2>1. consumer[c].media \in Media \cup {Null} /\ Verified(c)
    BY DEF MediaInv, MediaTypeOK
  <2> QED BY <2>1, <1>2, <1>3, <1>8 DEF Verified
<1>12. \A n \in Media : Committed(n)'
  BY <1>2, <1>3 DEF MediaInv, Committed
<1>13. OfferedIsVerified' /\ UploadSurvives'
  BY <1>2, <1>3 DEF MediaInv, OfferedIsVerified, UploadSurvives
<1> QED BY <1>6, <1>9, <1>10, <1>11, <1>12, <1>13 DEF MediaInv

\* The upload, its commit and its message.
LEMMA PutUploadInv ==
  ASSUME MediaInv, NEW t \in Tiles, PutUpload(t)
  PROVE  MediaInv'
<1> DEFINE m == tile[t].media
<1>1. /\ tile \in [Tiles -> [at : Working \cup {"queued", "done"}, media : Media \cup {Null}]]
      /\ tile[t].at = "put" /\ m \in Media /\ row[m].status = "pending" /\ msg[m].at = "none"
      /\ quarantine \subseteq Media
      /\ UNCHANGED <<photo, row, bucket, msg, consumer, dups>>
  BY DEF PutUpload, MediaInv, MediaTypeOK, TileHolds, Committed
<1>2. /\ tile' \in [Tiles -> [at : Working \cup {"queued", "done"}, media : Media \cup {Null}]]
      /\ \A u \in Tiles \ {t} : tile'[u] = tile[u]
      /\ \/ tile'[t].at = "commit" /\ tile'[t].media = m /\ quarantine' = quarantine \cup {m}
         \/ tile'[t].at = "done" /\ tile'[t].media = Null /\ quarantine' = quarantine
  BY <1>1 DEF PutUpload, Step, Done, Working
<1>3. faults' \in 0..MaxFaults
  BY DEF PutUpload, Fault, MediaInv, MediaTypeOK
<1>4. MediaTypeOK'
  BY <1>1, <1>2, <1>3 DEF MediaInv, MediaTypeOK
<1>5. \A u \in Tiles : TileHolds(u)'
  BY <1>1, <1>2 DEF MediaInv, TileHolds
<1>6. Separate'
  BY <1>2 DEF MediaInv, Separate
<1> QED BY <1>1, <1>2, <1>4, <1>5, <1>6 DEF MediaInv, Verified, Committed, OfferedIsVerified, UploadSurvives

LEMMA CommitInv ==
  ASSUME MediaInv, NEW t \in Tiles, Commit(t)
  PROVE  MediaInv'
<1> DEFINE m == tile[t].media
<1>1. /\ tile \in [Tiles -> [at : Working \cup {"queued", "done"}, media : Media \cup {Null}]]
      /\ row \in [Media -> [status : Statuses, photo : Photos \cup {Null}]]
      /\ tile[t].at = "commit" /\ m \in Media /\ row[m].status # "none"
      /\ UNCHANGED <<photo, quarantine, bucket, msg, consumer, faults, dups>>
  BY DEF Commit, MediaInv, MediaTypeOK, TileHolds
<1>2. CASE row[m].status = "pending"
  <2>1. /\ row' \in [Media -> [status : Statuses, photo : Photos \cup {Null}]]
        /\ row'[m].status = "verifying" /\ row'[m].photo = row[m].photo
        /\ \A n \in Media \ {m} : row'[n] = row[n]
        /\ tile' \in [Tiles -> [at : Working \cup {"queued", "done"}, media : Media \cup {Null}]]
        /\ \A u \in Tiles \ {t} : tile'[u] = tile[u]
        /\ tile'[t].at = "send" /\ tile'[t].media = m
    BY <1>1, <1>2 DEF Commit, Step, Working, Statuses
  <2>2. m \in quarantine /\ msg[m].at = "none" /\ \A c \in Consumers : consumer[c].media # m
    <3>1. TileHolds(t) /\ Committed(m) /\ \A c \in Consumers : Verified(c) /\ m # Null
      BY <1>1 DEF MediaInv
    <3>2. m \in quarantine
      BY <1>1, <1>2, <3>1 DEF TileHolds
    <3>3. msg[m].at = "none"
      BY <1>2, <3>1 DEF Committed
    <3> QED BY <3>1, <3>2, <3>3 DEF Verified
  <2>3. MediaTypeOK'
    BY <1>1, <2>1 DEF MediaInv, MediaTypeOK
  <2>4. \A u \in Tiles : TileHolds(u)'
    <3> SUFFICES ASSUME NEW u \in Tiles PROVE TileHolds(u)'
      OBVIOUS
    <3>1. CASE u = t
      BY <3>1, <1>1, <2>1, <2>2 DEF TileHolds
    <3>2. CASE u # t
      <4>1. tile[u].media \in Media \cup {Null} /\ TileHolds(u) /\ tile[u].media # m
        BY <3>2, <1>1 DEF MediaInv, Separate
      <4>2. tile'[u] = tile[u] /\ quarantine' = quarantine /\ msg' = msg
        BY <3>2, <1>1, <2>1
      <4>3. tile[u].media # Null => row'[tile[u].media] = row[tile[u].media]
        BY <4>1, <2>1
      <4> QED BY <4>1, <4>2, <4>3, TileStays
    <3> QED BY <3>1, <3>2
  <2>5. Separate'
    BY <2>1 DEF MediaInv, Separate
  <2>6. \A c \in Consumers : Verified(c)'
    <3> SUFFICES ASSUME NEW c \in Consumers PROVE Verified(c)'
      OBVIOUS
    <3>1. consumer[c].media \in Media \cup {Null} /\ Verified(c)
      BY DEF MediaInv, MediaTypeOK
    <3> QED BY <3>1, <1>1, <2>1, <2>2 DEF Verified
  <2>7. \A n \in Media : Committed(n)'
    BY <1>1, <2>1, <2>2 DEF MediaInv, Committed
  <2>8. OfferedIsVerified' /\ UploadSurvives'
    BY <1>1, <2>1, <2>2 DEF MediaInv, OfferedIsVerified, UploadSurvives
  <2> QED BY <2>3, <2>4, <2>5, <2>6, <2>7, <2>8 DEF MediaInv
<1>3. CASE row[m].status # "pending"
  <2>1. /\ UNCHANGED row
        /\ tile' \in [Tiles -> [at : Working \cup {"queued", "done"}, media : Media \cup {Null}]]
        /\ \A u \in Tiles \ {t} : tile'[u] = tile[u]
        /\ tile'[t].at = "done" /\ tile'[t].media = Null
    BY <1>1, <1>3 DEF Commit, Done, Working
  <2>2. MediaTypeOK'
    BY <1>1, <2>1 DEF MediaInv, MediaTypeOK
  <2>3. \A u \in Tiles : TileHolds(u)'
    BY <1>1, <2>1 DEF MediaInv, TileHolds
  <2>4. Separate'
    BY <2>1 DEF MediaInv, Separate
  <2> QED BY <1>1, <2>1, <2>2, <2>3, <2>4 DEF MediaInv, Verified, Committed, OfferedIsVerified, UploadSurvives
<1> QED BY <1>2, <1>3

LEMMA SendInv ==
  ASSUME MediaInv, NEW t \in Tiles, Send(t)
  PROVE  MediaInv'
<1> DEFINE m == tile[t].media
<1>1. /\ tile \in [Tiles -> [at : Working \cup {"queued", "done"}, media : Media \cup {Null}]]
      /\ msg \in [Media -> [at : {"none", "queued", "acked", "dead"}, failed : 0..(MaxRetries + 1)]]
      /\ tile[t].at = "send" /\ m \in Media /\ row[m].status = "verifying" /\ m \in quarantine
      /\ UNCHANGED <<photo, row, quarantine, bucket, consumer, dups>>
  BY DEF Send, storeVars, MediaInv, MediaTypeOK, TileHolds
<1>2. /\ msg' \in [Media -> [at : {"none", "queued", "acked", "dead"}, failed : 0..(MaxRetries + 1)]]
      /\ msg'[m].at = "queued" \/ msg' = msg
      /\ \A n \in Media \ {m} : msg'[n] = msg[n]
      /\ tile' \in [Tiles -> [at : Working \cup {"queued", "done"}, media : Media \cup {Null}]]
      /\ \A u \in Tiles \ {t} : tile'[u] = tile[u]
      /\ \/ tile'[t].at = "done" /\ tile'[t].media = Null
         \/ tile'[t].at = "commit" /\ tile'[t].media = m
  <2>1. /\ Done(t) \/ Step(t, "commit")
        /\ msg' = [msg EXCEPT ![m].at = "queued"] \/ msg' = msg
    BY DEF Send
  <2>2. /\ tile' \in [Tiles -> [at : Working \cup {"queued", "done"}, media : Media \cup {Null}]]
        /\ \A u \in Tiles \ {t} : tile'[u] = tile[u]
        /\ \/ tile'[t].at = "done" /\ tile'[t].media = Null
           \/ tile'[t].at = "commit" /\ tile'[t].media = m
    <3>0. tile[t].media = m
      OBVIOUS
    <3> HIDE DEF m
    <3>1. CASE Done(t)
      BY <1>1, <3>1 DEF Done, Working
    <3>2. CASE Step(t, "commit")
      BY <1>1, <3>0, <3>2 DEF Step, Working
    <3> QED BY <2>1, <3>1, <3>2
  <2> HIDE DEF m
  <2>3. /\ msg' \in [Media -> [at : {"none", "queued", "acked", "dead"}, failed : 0..(MaxRetries + 1)]]
        /\ msg'[m].at = "queued" \/ msg' = msg
        /\ \A n \in Media \ {m} : msg'[n] = msg[n]
    BY <1>1, <2>1
  <2> QED BY <2>2, <2>3
<1>3. faults' \in 0..MaxFaults
  <2>1. UNCHANGED faults \/ Fault
    BY DEF Send
  <2> QED BY <2>1 DEF Fault, MediaInv, MediaTypeOK
<1>4. MediaTypeOK'
  BY <1>1, <1>2, <1>3 DEF MediaInv, MediaTypeOK
<1>5. \A u \in Tiles : TileHolds(u)'
  <2> SUFFICES ASSUME NEW u \in Tiles PROVE TileHolds(u)'
    OBVIOUS
  <2>1. CASE u = t
    BY <2>1, <1>1, <1>2 DEF TileHolds
  <2>2. CASE u # t
    <3>1. /\ tile[u].media \in Media \cup {Null} /\ TileHolds(u) /\ tile'[u] = tile[u]
          /\ tile[u].media # m
      BY <2>2, <1>1, <1>2 DEF MediaInv, Separate
    <3>2. tile[u].at = "send" => msg'[tile[u].media].at = msg[tile[u].media].at
      BY <3>1, <1>2 DEF TileHolds
    <3> QED BY <3>1, <3>2, <1>1, TileStays
  <2> QED BY <2>1, <2>2
<1>6. Separate'
  BY <1>2 DEF MediaInv, Separate
<1>7. \A c \in Consumers : Verified(c)'
  <2> SUFFICES ASSUME NEW c \in Consumers PROVE Verified(c)'
    OBVIOUS
  <2>1. consumer[c].media \in Media \cup {Null} /\ Verified(c)
    BY DEF MediaInv, MediaTypeOK
  <2> QED BY <2>1, <1>1, <1>2 DEF Verified
<1>8. \A n \in Media : Committed(n)'
  BY <1>1, <1>2 DEF MediaInv, Committed
<1>9. OfferedIsVerified' /\ UploadSurvives'
  BY <1>1, <1>2 DEF MediaInv, OfferedIsVerified, UploadSurvives
<1> QED BY <1>4, <1>5, <1>6, <1>7, <1>8, <1>9 DEF MediaInv
\* The queue delivers; an invocation fails, and its message goes back.
LEMMA DeliverInv ==
  ASSUME MediaInv, NEW c \in Consumers, NEW m \in Media, Deliver(c, m)
  PROVE  MediaInv'
<1>1. /\ msg \in [Media -> [at : {"none", "queued", "acked", "dead"}, failed : 0..(MaxRetries + 1)]]
      /\ consumer \in [Consumers -> [at : Steps, media : Media \cup {Null}]]
      /\ msg[m].at \in {"queued", "acked"}
      /\ UNCHANGED <<photo, tile, row, quarantine, bucket, faults>>
  BY DEF Deliver, browserVars, storeVars, MediaInv, MediaTypeOK
<1>2. dups' \in 0..MaxDuplicates
  <2>1. UNCHANGED dups \/ (dups < MaxDuplicates /\ dups' = dups + 1)
    BY DEF Deliver
  <2> QED BY <2>1 DEF MediaInv, MediaTypeOK
<1>3. CASE row[m].status = "ready"
  <2>1. /\ UNCHANGED consumer
        /\ msg' \in [Media -> [at : {"none", "queued", "acked", "dead"}, failed : 0..(MaxRetries + 1)]]
        /\ msg'[m].at = "acked" /\ \A n \in Media \ {m} : msg'[n] = msg[n]
    BY <1>1, <1>3 DEF Deliver
  <2>2. MediaTypeOK'
    BY <1>1, <1>2, <2>1 DEF MediaInv, MediaTypeOK
  <2>3. \A t \in Tiles : TileHolds(t)'
    <3> SUFFICES ASSUME NEW t \in Tiles PROVE TileHolds(t)'
      OBVIOUS
    <3>1. TileHolds(t) /\ tile[t].media \in Media \cup {Null}
      BY DEF MediaInv, MediaTypeOK
    <3>2. tile[t].at = "send" => msg'[tile[t].media].at = msg[tile[t].media].at
      BY <1>1, <2>1, <3>1 DEF TileHolds
    <3> QED BY <3>1, <3>2, <1>1, TileStays
  <2>4. \A d \in Consumers : Verified(d)'
    <3> SUFFICES ASSUME NEW d \in Consumers PROVE Verified(d)'
      OBVIOUS
    <3>1. consumer[d].media \in Media \cup {Null} /\ Verified(d)
      BY <1>1 DEF MediaInv
    <3> QED BY <3>1, <1>1, <2>1 DEF Verified
  <2>5. \A n \in Media : Committed(n)'
    BY <1>1, <1>3, <2>1 DEF MediaInv, Committed
  <2>6. OfferedIsVerified' /\ UploadSurvives' /\ Separate'
    BY <1>1, <2>1 DEF MediaInv, OfferedIsVerified, UploadSurvives, Separate
  <2> QED BY <2>2, <2>3, <2>4, <2>5, <2>6 DEF MediaInv
<1>4. CASE row[m].status # "ready"
  <2>1. /\ UNCHANGED msg
        /\ consumer' \in [Consumers -> [at : Steps, media : Media \cup {Null}]]
        /\ consumer'[c].at = "fetch" /\ consumer'[c].media = m
        /\ \A d \in Consumers \ {c} : consumer'[d] = consumer[d]
    BY <1>1, <1>4 DEF Deliver, Steps
  <2>2. MediaTypeOK'
    BY <1>1, <1>2, <2>1 DEF MediaInv, MediaTypeOK
  <2>3. \A t \in Tiles : TileHolds(t)'
    BY <1>1, <2>1, TileStays DEF MediaInv
  <2>4. \A d \in Consumers : Verified(d)'
    BY <1>1, <2>1 DEF MediaInv, Verified
  <2> QED BY <1>1, <2>1, <2>2, <2>3, <2>4
    DEF MediaInv, Committed, OfferedIsVerified, UploadSurvives, Separate
<1> QED BY <1>3, <1>4

\* What an invocation writes before it rests, its own message acknowledged or to
\* come again: nothing but its message changes, and the upload of a row that is
\* ready may go.
LEMMA RestInv ==
  ASSUME MediaInv, NEW c \in Consumers, consumer[c].at # "rest",
         Ack(c) \/ Redeliver(c),
         UNCHANGED <<photo, tile, row, bucket, dups>>, faults' \in 0..MaxFaults,
         quarantine' \subseteq quarantine,
         \A n \in quarantine \ quarantine' : row[n].status = "ready"
  PROVE  MediaInv'
<1> DEFINE m == consumer[c].media
<1>1. /\ msg \in [Media -> [at : {"none", "queued", "acked", "dead"}, failed : 0..(MaxRetries + 1)]]
      /\ consumer \in [Consumers -> [at : Steps, media : Media \cup {Null}]]
      /\ m \in Media /\ msg[m].at # "none"
  BY DEF MediaInv, MediaTypeOK, Verified
<1>2. /\ consumer' \in [Consumers -> [at : Steps, media : Media \cup {Null}]]
      /\ consumer'[c].at = "rest" /\ consumer'[c].media = Null
      /\ \A d \in Consumers \ {c} : consumer'[d] = consumer[d]
  <2>1. consumer' = [consumer EXCEPT ![c] = [at |-> "rest", media |-> Null]]
    BY DEF Ack, Redeliver, Rest
  <2> QED BY <1>1, <2>1 DEF Steps
<1>3. /\ msg' \in [Media -> [at : {"none", "queued", "acked", "dead"}, failed : 0..(MaxRetries + 1)]]
      /\ msg'[m].at # "none" /\ (msg'[m].at = "queued" => msg[m].at = "queued")
      /\ \A n \in Media \ {m} : msg'[n] = msg[n]
  <2>1. CASE Ack(c)
    BY <1>1, <2>1 DEF Ack
  <2>2. CASE Redeliver(c)
    <3>1. msg' = [msg EXCEPT ![m] = Failed(msg[m])]
      BY <2>2 DEF Redeliver
    <3>2. /\ Failed(msg[m]) \in [at : {"none", "queued", "acked", "dead"}, failed : 0..(MaxRetries + 1)]
          /\ Failed(msg[m]).at \in {msg[m].at, "dead"}
      <4> DEFINE q == msg[m]
      <4>1. q.at \in {"none", "queued", "acked", "dead"} /\ q.failed \in 0..(MaxRetries + 1)
        BY <1>1
      <4> HIDE DEF q
      <4> QED BY <4>1 DEF Failed, q
    <3> QED BY <1>1, <3>1, <3>2
  <2> QED BY <2>1, <2>2
<1>4. MediaTypeOK'
  BY <1>2, <1>3 DEF MediaInv, MediaTypeOK
<1>5. \A t \in Tiles : TileHolds(t)'
  <2> SUFFICES ASSUME NEW t \in Tiles PROVE TileHolds(t)'
    OBVIOUS
  <2>1. TileHolds(t) /\ tile[t].media \in Media \cup {Null}
    BY DEF MediaInv, MediaTypeOK
  <2>2. tile[t].at = "send" => /\ msg'[tile[t].media].at = "none"
                               /\ tile[t].media \in quarantine'
    BY <1>1, <1>3, <2>1 DEF TileHolds
  <2>3. tile[t].at = "commit" /\ row[tile[t].media].status = "pending" => tile[t].media \in quarantine'
    BY <2>1 DEF TileHolds
  <2>4. CASE tile[t].media = Null
    BY <2>1, <2>4 DEF TileHolds
  <2>5. CASE tile[t].media # Null
    BY <2>1, <2>2, <2>3, <2>5 DEF TileHolds
  <2> QED BY <2>4, <2>5
<1>6. \A d \in Consumers : Verified(d)'
  <2> SUFFICES ASSUME NEW d \in Consumers PROVE Verified(d)'
    OBVIOUS
  <2>1. consumer[d].media \in Media \cup {Null} /\ Verified(d)
    BY <1>1 DEF MediaInv
  <2>2. CASE d = c
    BY <2>2, <1>2 DEF Verified
  <2>3. CASE d # c
    <3>1. consumer'[d] = consumer[d]
      BY <2>3, <1>2
    <3>2. consumer[d].media # Null => msg'[consumer[d].media].at # "none"
      BY <2>1, <1>1, <1>3 DEF Verified
    <3> QED BY <2>1, <3>1, <3>2 DEF Verified
  <2> QED BY <2>2, <2>3
<1>7. \A n \in Media : Committed(n)'
  BY <1>1, <1>3 DEF MediaInv, Committed
<1>8. OfferedIsVerified' /\ UploadSurvives' /\ Separate'
  BY <1>3 DEF MediaInv, OfferedIsVerified, UploadSurvives, Separate
<1> QED BY <1>4, <1>5, <1>6, <1>7, <1>8 DEF MediaInv

LEMMA FailsInv ==
  ASSUME MediaInv, NEW c \in Consumers, Fails(c)
  PROVE  MediaInv'
<1>1. faults' \in 0..MaxFaults
  BY DEF Fails, Fault, MediaInv, MediaTypeOK
<1> QED BY <1>1, RestInv DEF Fails, browserVars, storeVars

\* The steps that look at the upload, write what it became and store its row.
LEMMA InspectInv ==
  ASSUME MediaInv, NEW c \in Consumers, Inspect(c)
  PROVE  MediaInv'
<1> DEFINE m == consumer[c].media
<1>1. /\ consumer \in [Consumers -> [at : Steps, media : Media \cup {Null}]]
      /\ consumer[c].at = "fetch" /\ consumer' = [consumer EXCEPT ![c].at = Verdict(m)]
      /\ UNCHANGED <<photo, tile, row, quarantine, bucket, msg, faults, dups>>
  BY DEF Inspect, Go, browserVars, storeVars, MediaInv, MediaTypeOK
<1>2. /\ Verdict(m) \in {"missing", "refused", "write"}
      /\ Verdict(m) = "write" => row[m].photo \notin Refused
  BY DEF Verdict
<1>3. /\ consumer' \in [Consumers -> [at : Steps, media : Media \cup {Null}]]
      /\ consumer'[c].at = Verdict(m) /\ consumer'[c].media = m
      /\ \A d \in Consumers \ {c} : consumer'[d] = consumer[d]
  BY <1>1, <1>2 DEF Steps
<1> HIDE DEF m
<1>4. MediaTypeOK'
  BY <1>1, <1>3 DEF MediaInv, MediaTypeOK
<1>5. \A t \in Tiles : TileHolds(t)'
  BY <1>1 DEF MediaInv, TileHolds
<1>6. \A d \in Consumers : Verified(d)'
  <2> SUFFICES ASSUME NEW d \in Consumers PROVE Verified(d)'
    OBVIOUS
  <2>1. CASE d = c
    <3>1. Verified(c)
      BY DEF MediaInv
    <3> QED BY <2>1, <3>1, <1>1, <1>2, <1>3 DEF Verified, m
  <2>2. CASE d # c
    BY <2>2, <1>1, <1>3 DEF MediaInv, Verified
  <2> QED BY <2>1, <2>2
<1> QED BY <1>1, <1>4, <1>5, <1>6 DEF MediaInv, Committed, OfferedIsVerified, UploadSurvives, Separate

LEMMA WriteInv ==
  ASSUME MediaInv, NEW c \in Consumers, Write(c)
  PROVE  MediaInv'
<1> DEFINE m == consumer[c].media
<1>1. /\ consumer \in [Consumers -> [at : Steps, media : Media \cup {Null}]]
      /\ consumer[c].at = "write" /\ m \in Media /\ row[m].photo \in Photos
      /\ bucket' = bucket \cup {row[m].photo}
      /\ consumer' = [consumer EXCEPT ![c].at = "promote"]
      /\ UNCHANGED <<photo, tile, row, quarantine, msg, faults, dups>>
  BY DEF Write, AfterWrite, Go, browserVars, MediaInv, MediaTypeOK, Verified, Committed
<1>2. /\ consumer' \in [Consumers -> [at : Steps, media : Media \cup {Null}]]
      /\ consumer'[c].at = "promote" /\ consumer'[c].media = m
      /\ \A d \in Consumers \ {c} : consumer'[d] = consumer[d]
  BY <1>1 DEF Steps
<1>3. bucket \subseteq bucket' /\ row[m].photo \in bucket' /\ bucket' \subseteq Photos
  BY <1>1 DEF MediaInv, MediaTypeOK
<1> HIDE DEF m
<1>4. MediaTypeOK'
  BY <1>1, <1>2, <1>3 DEF MediaInv, MediaTypeOK
<1>5. \A t \in Tiles : TileHolds(t)'
  BY <1>1 DEF MediaInv, TileHolds
<1>6. \A d \in Consumers : Verified(d)'
  <2> SUFFICES ASSUME NEW d \in Consumers PROVE Verified(d)'
    OBVIOUS
  <2>1. CASE d = c
    <3>1. Verified(c)
      BY DEF MediaInv
    <3> QED BY <2>1, <3>1, <1>1, <1>2, <1>3 DEF Verified, m
  <2>2. CASE d # c
    BY <2>2, <1>1, <1>2, <1>3 DEF MediaInv, Verified
  <2> QED BY <2>1, <2>2
<1>7. OfferedIsVerified'
  BY <1>1, <1>3 DEF MediaInv, OfferedIsVerified
<1> QED BY <1>1, <1>4, <1>5, <1>6, <1>7 DEF MediaInv, Committed, UploadSurvives, Separate

LEMMA PromoteInv ==
  ASSUME MediaInv, NEW c \in Consumers, Promote(c)
  PROVE  MediaInv'
<1> DEFINE m == consumer[c].media
<1>1. /\ consumer \in [Consumers -> [at : Steps, media : Media \cup {Null}]]
      /\ row \in [Media -> [status : Statuses, photo : Photos \cup {Null}]]
      /\ consumer[c].at = "promote" /\ m \in Media /\ row[m].photo \in bucket \ Refused
      /\ UNCHANGED <<photo, tile, quarantine, bucket, faults, dups>>
  BY DEF Promote, browserVars, MediaInv, MediaTypeOK, Verified
<1>2. \/ /\ row[m].status = "verifying" /\ UNCHANGED msg
         /\ row' = [row EXCEPT ![m].status = "ready"]
         /\ consumer' = [consumer EXCEPT ![c].at = "delete"]
      \/ (Ack(c) \/ Redeliver(c)) /\ UNCHANGED row
  BY DEF Promote, Go
<1>3. CASE (Ack(c) \/ Redeliver(c)) /\ UNCHANGED row
  <2>1. faults' \in 0..MaxFaults
    BY <1>1 DEF MediaInv, MediaTypeOK
  <2> QED BY <1>1, <1>3, <2>1, RestInv
<1>4. CASE /\ row[m].status = "verifying" /\ UNCHANGED msg
           /\ row' = [row EXCEPT ![m].status = "ready"]
           /\ consumer' = [consumer EXCEPT ![c].at = "delete"]
  <2>1. /\ row' \in [Media -> [status : Statuses, photo : Photos \cup {Null}]]
        /\ row'[m].status = "ready" /\ row'[m].photo = row[m].photo
        /\ \A n \in Media \ {m} : row'[n] = row[n]
    BY <1>1, <1>4 DEF Statuses
  <2>2. /\ consumer' \in [Consumers -> [at : Steps, media : Media \cup {Null}]]
        /\ consumer'[c].at = "delete" /\ consumer'[c].media = m
        /\ \A d \in Consumers \ {c} : consumer'[d] = consumer[d]
    BY <1>1, <1>4 DEF Steps
  <2> HIDE DEF m
  <2>3. MediaTypeOK'
    BY <1>1, <1>4, <2>1, <2>2 DEF MediaInv, MediaTypeOK
  <2>4. \A t \in Tiles : TileHolds(t)'
    <3> SUFFICES ASSUME NEW t \in Tiles PROVE TileHolds(t)'
      OBVIOUS
    <3>1. tile[t].media \in Media \cup {Null} /\ TileHolds(t) /\ msg[m].at # "none"
      BY <1>1 DEF MediaInv, MediaTypeOK, Verified, m
    <3>3. CASE tile[t].media # m
      <4>1. tile[t].media # Null => row'[tile[t].media] = row[tile[t].media]
        BY <3>1, <3>3, <2>1
      <4> QED BY <1>1, <1>4, <3>1, <4>1, TileStays
    <3>4. CASE tile[t].media = m
      <4>1. tile[t].at = "commit"
        <5>1. tile[t].at \in {"put", "commit", "send"} /\ m # Null
          BY <1>1, <3>1, <3>4 DEF TileHolds
        <5>2. tile[t].at # "put"
          BY <1>4, <3>1, <3>4 DEF TileHolds, m
        <5>3. tile[t].at # "send"
          BY <3>1, <3>4 DEF TileHolds
        <5> QED BY <5>1, <5>2, <5>3
      <4> QED BY <1>1, <3>1, <3>4, <4>1, <2>1 DEF TileHolds
    <3> QED BY <3>3, <3>4
  <2>5. \A d \in Consumers : Verified(d)'
    <3> SUFFICES ASSUME NEW d \in Consumers PROVE Verified(d)'
      OBVIOUS
    <3>1. CASE d = c
      <4>1. Verified(c)
        BY DEF MediaInv
      <4> QED BY <3>1, <4>1, <1>1, <1>4, <2>1, <2>2 DEF Verified, m
    <3>2. CASE d # c
      <4>1. /\ consumer'[d] = consumer[d] /\ Verified(d)
            /\ consumer[d].media \in Media \cup {Null}
        BY <3>2, <1>1, <2>2 DEF MediaInv
      <4>2. CASE consumer[d].media = Null
        BY <1>1, <1>4, <4>1, <4>2 DEF Verified
      <4>3. CASE consumer[d].media \in Media
        <5>1. /\ row'[consumer[d].media].photo = row[consumer[d].media].photo
              /\ row[consumer[d].media].status = "ready" => row'[consumer[d].media].status = "ready"
          BY <4>3, <2>1, <1>4
        <5> QED BY <1>1, <1>4, <4>1, <5>1 DEF Verified
      <4> QED BY <4>1, <4>2, <4>3
    <3> QED BY <3>1, <3>2
  <2>6. \A n \in Media : Committed(n)'
    BY <1>1, <1>4, <2>1 DEF MediaInv, MediaTypeOK, Committed
  <2>7. OfferedIsVerified' /\ UploadSurvives' /\ Separate'
    BY <1>1, <1>4, <2>1 DEF MediaInv, OfferedIsVerified, UploadSurvives, Separate
  <2> QED BY <2>3, <2>4, <2>5, <2>6, <2>7 DEF MediaInv
<1> QED BY <1>2, <1>3, <1>4

LEMMA DeleteUploadInv ==
  ASSUME MediaInv, NEW c \in Consumers, DeleteUpload(c)
  PROVE  MediaInv'
<1> DEFINE m == consumer[c].media
<1>1. /\ consumer[c].at = "delete" /\ row[m].status = "ready" /\ Ack(c)
      /\ quarantine' = quarantine \ {m}
      /\ UNCHANGED <<photo, tile, row, bucket, faults, dups>>
  BY DEF DeleteUpload, browserVars, MediaInv, MediaTypeOK, Verified
<1>2. faults' \in 0..MaxFaults
  BY <1>1 DEF MediaInv, MediaTypeOK
<1>3. quarantine' \subseteq quarantine /\ \A n \in quarantine \ quarantine' : row[n].status = "ready"
  BY <1>1
<1> QED BY <1>1, <1>2, <1>3, RestInv

LEMMA RefuseInv ==
  ASSUME MediaInv, NEW c \in Consumers, Refuse(c)
  PROVE  MediaInv'
<1>1. /\ consumer[c].at \in {"missing", "refused"} /\ Ack(c) /\ UNCHANGED <<row, quarantine>>
      /\ UNCHANGED <<photo, tile, bucket, faults, dups>>
  BY RefusalIsLost DEF Refuse, browserVars
<1>2. faults' \in 0..MaxFaults
  BY <1>1 DEF MediaInv, MediaTypeOK
<1> QED BY <1>1, <1>2, RestInv

LEMMA ExpireInv ==
  ASSUME MediaInv, NEW m \in Media, Expire(m)
  PROVE  MediaInv'
<1>1. /\ quarantine' = quarantine \ {m} /\ msg[m].at # "queued"
      /\ \A t \in Tiles : tile[t].media = m => tile[t].at \notin {"commit", "send"}
      /\ UNCHANGED <<photo, tile, row, bucket, msg, consumer, faults, dups>>
  BY DEF Expire, browserVars
<1>2. MediaTypeOK'
  BY <1>1 DEF MediaInv, MediaTypeOK
<1>3. \A t \in Tiles : TileHolds(t)'
  BY <1>1 DEF MediaInv, TileHolds
<1>4. OfferedIsVerified' /\ UploadSurvives' /\ Separate'
  BY <1>1 DEF MediaInv, OfferedIsVerified, UploadSurvives, Separate
<1> QED BY <1>1, <1>2, <1>3, <1>4 DEF MediaInv, Verified, Committed

LEMMA MediaNextInv == MediaInv /\ [MediaNext]_mediaVars => MediaInv'
<1> SUFFICES ASSUME MediaInv, [MediaNext]_mediaVars PROVE MediaInv'
  OBVIOUS
<1>1. ASSUME NEW t \in Tiles, Browser(t) PROVE MediaInv'
  BY <1>1, PumpSignInv, InsertInv, PutUploadInv, CommitInv, SendInv DEF Browser
<1>2. ASSUME NEW c \in Consumers, Consume(c) PROVE MediaInv'
  BY <1>2, InspectInv, WriteInv, PromoteInv, DeleteUploadInv, RefuseInv DEF Consume
<1>3. ASSUME NEW c \in Consumers, Fails(c) PROVE MediaInv'
  BY <1>3, FailsInv
<1>4. ASSUME NEW c \in Consumers, NEW m \in Media, Deliver(c, m) PROVE MediaInv'
  BY <1>4, DeliverInv
<1>5. ASSUME NEW m \in Media, Expire(m) PROVE MediaInv'
  BY <1>5, ExpireInv
<1>6. CASE UNCHANGED mediaVars
  BY <1>6 DEF mediaVars, browserVars, storeVars, MediaInv, MediaTypeOK, Separate, TileHolds, Verified,
              Committed, OfferedIsVerified, UploadSurvives
<1> QED BY <1>1, <1>2, <1>3, <1>4, <1>5, <1>6 DEF MediaNext

LEMMA MediaInvHolds == MediaSpec => []MediaInv
<1> QED BY MediaInitInv, MediaNextInv, PTL DEF MediaSpec

\* Tiles, rows, messages and invocations stay well formed.
THEOREM MediaTypes == MediaSpec => []MediaTypeOK
<1>1. MediaInv => MediaTypeOK
  BY DEF MediaInv
<1> QED BY <1>1, MediaInvHolds, PTL

\* Whatever is delivered twice, fails or is lost, a photo that a run may use passed
\* the gates and is in the bucket (media-consumer.ts, verifyUpload()).
THEOREM OfferedIsVerifiedCorrect == MediaSpec => []OfferedIsVerified
<1>1. MediaInv => OfferedIsVerified
  BY DEF MediaInv
<1> QED BY <1>1, MediaInvHolds, PTL

\* A delivery that is still to come finds the upload it is about: what deletes it
\* has stored its row as ready first (media-consumer.ts).
THEOREM UploadSurvivesCorrect == MediaSpec => []UploadSurvives
<1>1. MediaInv => UploadSurvives
  BY DEF MediaInv
<1> QED BY <1>1, MediaInvHolds, PTL

\* No step takes a photo that is ready back, a late delivery's refusal included:
\* what it would store the CHECK on scan_result rejects.
THEOREM ReadyIsFinalCorrect == MediaSpec => ReadyIsFinal
<1>1. ASSUME MediaInv, [MediaNext]_mediaVars, NEW m \in Media, row[m].status = "ready"
      PROVE  row'[m].status = "ready"
  <2>1. row \in [Media -> [status : Statuses, photo : Photos \cup {Null}]]
    BY <1>1 DEF MediaInv, MediaTypeOK
  <2>2. ASSUME NEW t \in Tiles, Browser(t) PROVE row'[m].status = "ready"
    BY <1>1, <2>1, <2>2 DEF Browser, Pump, Sign, Insert, Rows, PutUpload, Commit, Send, storeVars
  <2>3. ASSUME NEW c \in Consumers, Consume(c) PROVE row'[m].status = "ready"
    <3>1. CASE Refuse(c)
      BY <1>1, <3>1, RefusalIsLost DEF Refuse
    <3>2. CASE Promote(c)
      BY <1>1, <2>1, <3>2 DEF Promote
    <3>3. CASE Inspect(c) \/ Write(c) \/ DeleteUpload(c)
      BY <1>1, <3>3 DEF Inspect, Write, DeleteUpload, storeVars
    <3> QED BY <2>3, <3>1, <3>2, <3>3 DEF Consume
  <2>4. ASSUME NEW c \in Consumers, Fails(c) \/ \E n \in Media : Deliver(c, n)
        PROVE  row'[m].status = "ready"
    BY <1>1, <2>4 DEF Fails, Deliver, storeVars
  <2>5. ASSUME NEW n \in Media, Expire(n) PROVE row'[m].status = "ready"
    BY <1>1, <2>5 DEF Expire
  <2>6. CASE UNCHANGED mediaVars
    BY <1>1, <2>6 DEF mediaVars, storeVars
  <2> QED BY <1>1, <2>2, <2>3, <2>4, <2>5, <2>6 DEF MediaNext
<1>2. MediaInv /\ [MediaNext]_mediaVars
        => [\A m \in Media : row[m].status = "ready" => row'[m].status = "ready"]_mediaVars
  BY <1>1
<1> QED BY <1>2, MediaInvHolds, PTL DEF MediaSpec, ReadyIsFinal

=============================================================================
