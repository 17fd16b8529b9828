--------------------------- MODULE DocumentsProofs ---------------------------
(***************************************************************************)
(* Sync cycles on the text of profiles.db, for any layouts, channels and   *)
(* number of syncs: the text is the layout FreeTube left with the          *)
(* subscriptions filled in, and the names in it survive.                   *)
(***************************************************************************)
EXTENDS Documents, ClientSyncProofs, SequenceTheorems

(* A text: at least one line, of any tokens. *)
IsText(t) == t # <<>> /\ \E X : t \in Seq(Seq(X))

(* Where the subscriptions of t stand, without the parsing. *)
FieldAt(t) ==
  UNION {{n} \X rawFieldSpan(t[n], "subscriptions") :
           n \in {m \in DOMAIN t : IsAllChannelsProfile(t[m])}}

(* Text t with its subscriptions replaced. *)
Splice(t, s) ==
  [n \in DOMAIN t |-> [i \in DOMAIN t[n] |->
     IF <<n, i>> \in FieldAt(t) THEN Subscriptions(s) ELSE t[n][i]]]

-----------------------------------------------------------------------------
(* nedb.go:199-221: the documents are the lines of the text, less an empty *)
(* one at its end.                                                         *)
LEMMA ParsedDocs ==
  ASSUME NEW X, NEW t \in Seq(Seq(X)), t # <<>>
  PROVE  LET p == Parse(t)
             n == Len(t)
         IN  /\ n \in Nat \ {0} /\ DOMAIN t = 1..n
             /\ p.docs \in Seq(Seq(X)) /\ p.trailing = (t[n] = <<>>)
             /\ \/ p.docs = t /\ ~ p.trailing
                \/ /\ p.trailing /\ Len(p.docs) = n - 1
                   /\ \A m \in 1..(n - 1) : p.docs[m] = t[m]
                \/ p.docs = <<>> /\ \A m \in DOMAIN t : t[m] = <<>>
<1> DEFINE n == Len(t)
           front == SubSeq(t, 1, n - 1)
           trailing == t[n] = <<>>
           trimmed == IF trailing THEN front ELSE t
<1>1. n \in Nat \ {0} /\ DOMAIN t = 1..n
  BY EmptySeq, LenProperties
<1>2. front \in Seq(Seq(X)) /\ Len(front) = n - 1 /\ \A m \in 1..(n - 1) : front[m] = t[m]
  BY <1>1, SubSeqProperties
<1>3. Parse(t) = [docs |-> IF trimmed = << <<>> >> THEN <<>> ELSE trimmed,
                  trailing |-> trailing]
  BY DEF Parse, S!Last, S!Front
<1> HIDE DEF n, front
<1>4. CASE trimmed = << <<>> >>
  <2>1. Parse(t).docs = <<>> /\ Parse(t).trailing = trailing
    BY <1>3, <1>4
  <2>2. \A m \in DOMAIN t : t[m] = <<>>
    BY <1>1, <1>2, <1>4
  <2> QED BY <1>1, <2>1, <2>2, EmptySeq DEF n
<1>5. CASE trimmed # << <<>> >>
  <2>1. Parse(t).docs = trimmed /\ Parse(t).trailing = trailing
    BY <1>3, <1>5
  <2>2. CASE trailing
    BY <1>1, <1>2, <2>1, <2>2 DEF n
  <2>3. CASE ~ trailing
    BY <1>1, <2>1, <2>3 DEF n
  <2> QED BY <2>2, <2>3
<1> QED BY <1>4, <1>5

(* nedb.go:140-160: parsing does not move the subscriptions. *)
LEMMA ParsedField ==
  ASSUME NEW t, IsText(t)
  PROVE  /\ Field(Parse(t)) = FieldAt(t)
         /\ \A x \in FieldAt(t) : /\ x[1] \in DOMAIN t /\ x[2] \in DOMAIN t[x[1]]
                                  /\ x = <<x[1], x[2]>>
                                  /\ x[1] \in DOMAIN Parse(t).docs
                                  /\ Parse(t).docs[x[1]] = t[x[1]]
<1> DEFINE p == Parse(t)
           I(d) == {m \in DOMAIN d : IsAllChannelsProfile(d[m])}
<1>1. PICK X : t \in Seq(Seq(X))
  BY DEF IsText
<1>2. /\ Len(t) \in Nat \ {0} /\ DOMAIN t = 1..Len(t)
      /\ p.docs \in Seq(Seq(X)) /\ p.trailing = (t[Len(t)] = <<>>)
      /\ \/ p.docs = t /\ ~ p.trailing
         \/ /\ p.trailing /\ Len(p.docs) = Len(t) - 1
            /\ \A m \in 1..(Len(t) - 1) : p.docs[m] = t[m]
         \/ p.docs = <<>> /\ \A m \in DOMAIN t : t[m] = <<>>
  BY <1>1, ParsedDocs DEF IsText
<1>3. DOMAIN p.docs = 1..Len(p.docs) /\ Len(p.docs) \in Nat
  BY <1>2, LenProperties
<1> HIDE DEF p
<1>4. /\ \A m \in DOMAIN p.docs : m \in DOMAIN t /\ p.docs[m] = t[m]
      /\ \A m \in DOMAIN t \ DOMAIN p.docs : t[m] = <<>>
  <2>1. CASE p.docs = t
    BY <2>1
  <2>2. CASE /\ p.trailing /\ Len(p.docs) = Len(t) - 1
             /\ \A m \in 1..(Len(t) - 1) : p.docs[m] = t[m]
    <3>1. DOMAIN p.docs = 1..(Len(t) - 1)
      BY <1>3, <2>2
    <3>2. t[Len(t)] = <<>> /\ DOMAIN t = 1..Len(t) /\ Len(t) \in Nat \ {0}
      BY <1>2, <2>2
    <3>3. DOMAIN p.docs \subseteq DOMAIN t /\ DOMAIN t \ DOMAIN p.docs = {Len(t)}
      BY <3>1, <3>2
    <3> QED BY <2>2, <3>1, <3>2, <3>3
  <2>3. CASE p.docs = <<>> /\ \A m \in DOMAIN t : t[m] = <<>>
    <3>1. DOMAIN p.docs = {}
      BY <2>3
    <3> QED BY <2>3, <3>1
  <2> QED BY <1>2, <2>1, <2>2, <2>3
<1>5. ~ IsAllChannelsProfile(<<>>)
  BY DEF IsAllChannelsProfile, rawFieldSpan
<1>6. I(p.docs) = I(t) /\ \A m \in I(t) : m \in DOMAIN p.docs /\ p.docs[m] = t[m]
  BY <1>4, <1>5
<1>7. Field(p) = UNION {{m} \X rawFieldSpan(t[m], "subscriptions") : m \in I(t)}
  BY <1>6 DEF Field, allChannelsIndex
<1>8. \A x \in FieldAt(t) : /\ x[1] \in I(t) /\ x = <<x[1], x[2]>>
                            /\ x[2] \in rawFieldSpan(t[x[1]], "subscriptions")
  BY DEF FieldAt
<1>9. \A m, key : rawFieldSpan(t[m], key) \subseteq DOMAIN t[m]
  BY DEF rawFieldSpan
<1> QED BY <1>6, <1>7, <1>8, <1>9 DEF FieldAt, p

(* nedb.go:162-221: what is written is the text with its subscriptions     *)
(* replaced: taking it apart and putting it together adds, drops and moves *)
(* no line.                                                                *)
LEMMA Spliced ==
  ASSUME NEW t, IsText(t), FieldAt(t) # {}, NEW s
  PROVE  Bytes(SetSubscriptions(Parse(t), s)) = Splice(t, s)
<1> DEFINE p == Parse(t)
           new(n) == [i \in DOMAIN t[n] |->
                        IF <<n, i>> \in FieldAt(t) THEN Subscriptions(s) ELSE t[n][i]]
           q == SetSubscriptions(p, s)
<1>1. PICK X : t \in Seq(Seq(X))
  BY DEF IsText
<1>2. /\ Len(t) \in Nat \ {0} /\ DOMAIN t = 1..Len(t)
      /\ p.docs \in Seq(Seq(X)) /\ p.trailing = (t[Len(t)] = <<>>)
      /\ \/ p.docs = t /\ ~ p.trailing
         \/ /\ p.trailing /\ Len(p.docs) = Len(t) - 1
            /\ \A m \in 1..(Len(t) - 1) : p.docs[m] = t[m]
         \/ p.docs = <<>> /\ \A m \in DOMAIN t : t[m] = <<>>
  BY <1>1, ParsedDocs DEF IsText
<1>3. DOMAIN p.docs = 1..Len(p.docs) /\ Len(p.docs) \in Nat
  BY <1>2, LenProperties
<1>4. p.docs # <<>>
  BY ParsedField
<1>5. Field(p) = FieldAt(t)
  BY ParsedField
<1>6. p = [docs |-> p.docs, trailing |-> p.trailing]
  BY DEF Parse
<1> HIDE DEF p
<1>7. \A m \in DOMAIN p.docs : p.docs[m] = t[m]
  BY <1>2, <1>3, <1>4
<1>8. q = [docs |-> [n \in DOMAIN p.docs |-> new(n)], trailing |-> p.trailing]
  <2> DEFINE old(n) == [i \in DOMAIN p.docs[n] |->
                          IF <<n, i>> \in Field(p) THEN Subscriptions(s)
                          ELSE p.docs[n][i]]
             docs1 == [n \in DOMAIN p.docs |-> old(n)]
  <2>1. q = [p EXCEPT !.docs = docs1]
    BY DEF SetSubscriptions
  <2>2. q = [docs |-> docs1, trailing |-> p.trailing]
    <3> HIDE DEF docs1, q
    <3> QED BY <1>6, <2>1
  <2>3. \A n \in DOMAIN p.docs : old(n) = new(n)
    BY <1>5, <1>7
  <2>4. docs1 = [n \in DOMAIN p.docs |-> new(n)]
    <3> HIDE DEF old, new
    <3> QED BY <2>3
  <2> QED BY <2>2, <2>4
<1>9. \A n \in DOMAIN t : new(n) \in Seq(X \cup {Subscriptions(s)})
  <2> SUFFICES ASSUME NEW n \in DOMAIN t PROVE new(n) \in Seq(X \cup {Subscriptions(s)})
    OBVIOUS
  <2>1. t[n] \in Seq(X)
    BY <1>1, <1>2, ElementOfSeq
  <2>2. Len(t[n]) \in Nat /\ t[n] \in [1..Len(t[n]) -> X]
    BY <2>1, LenProperties
  <2>3. new(n) \in [1..Len(t[n]) -> X \cup {Subscriptions(s)}]
    BY <2>2
  <2> QED BY <2>2, <2>3
<1>10. Splice(t, s) = [n \in DOMAIN t |-> new(n)]
  BY DEF Splice
<1> DEFINE docs2 == [n \in DOMAIN p.docs |-> new(n)]
<1>11. Bytes(q) = IF docs2 = <<>> THEN << <<>> >>
                  ELSE IF p.trailing THEN Append(docs2, <<>>) ELSE docs2
  BY <1>8 DEF Bytes
<1>12. docs2 # <<>>
  <2>1. Len(p.docs) # 0
    BY <1>2, <1>4, EmptySeq
  <2>2. 1 \in DOMAIN docs2
    <3>1. 1 \in DOMAIN p.docs
      BY <1>3, <2>1
    <3> HIDE DEF new
    <3> QED BY <3>1
  <2> QED BY <2>2
<1>13. CASE ~ p.trailing
  <2>1. p.docs = t
    BY <1>2, <1>4, <1>13
  <2> QED BY <1>10, <1>11, <1>12, <1>13, <2>1 DEF p
<1>14. CASE p.trailing
  <2> DEFINE Y == Seq(X \cup {Subscriptions(s)})
             N == Len(t)
  <2>1. N \in Nat \ {0} /\ DOMAIN p.docs = 1..(N - 1) /\ t[N] = <<>>
    BY <1>2, <1>3, <1>4, <1>14
  <2>2. \A n \in 1..N : new(n) \in Y
    BY <1>2, <1>9
  <2>3. new(N) = <<>>
    BY <2>1
  <2> HIDE DEF new, Y, N
  <2>4. docs2 \in Seq(Y) /\ Len(docs2) = N - 1 /\ \A n \in 1..(N - 1) : docs2[n] = new(n)
    BY <2>1, <2>2
  <2>5. <<>> \in Y
    BY <2>1, <2>2, <2>3
  <2> HIDE DEF docs2
  <2>6. /\ Append(docs2, <<>>) \in Seq(Y) /\ Len(Append(docs2, <<>>)) = N
        /\ \A n \in 1..(N - 1) : Append(docs2, <<>>)[n] = new(n)
        /\ Append(docs2, <<>>)[N] = new(N)
    BY <2>1, <2>3, <2>4, <2>5, AppendProperties
  <2>7. DOMAIN t = 1..N
    BY <1>2 DEF N
  <2>8. Append(docs2, <<>>) = [n \in 1..N |-> new(n)]
    <3>1. Append(docs2, <<>>) \in [1..N -> Y]
      BY <2>6, LenProperties
    <3>2. \A n \in 1..N : Append(docs2, <<>>)[n] = new(n)
      BY <2>1, <2>6
    <3> QED BY <3>1, <3>2
  <2> QED BY <1>10, <1>11, <1>12, <1>14, <2>7, <2>8 DEF p
<1> QED BY <1>13, <1>14

(* nedb.go:96-110: a key that is read stands where it is found. *)
LEMMA FieldKeys ==
  ASSUME NEW t, NEW n, NEW i, <<n, i>> \in FieldAt(t)
  PROVE  /\ n \in DOMAIN t /\ i \in DOMAIN t[n] /\ t[n][i].key = "subscriptions"
         /\ IsAllChannelsProfile(t[n]) /\ i \in rawFieldSpan(t[n], "subscriptions")
BY DEF FieldAt, rawFieldSpan

(* nedb.go:162-197: replacing the subscriptions keeps lines, keys and ids, *)
(* so that the same field is found again.                                  *)
LEMMA SpliceKeeps ==
  ASSUME NEW t, IsText(t), NEW s
  PROVE  /\ IsText(Splice(t, s)) /\ FieldAt(Splice(t, s)) = FieldAt(t)
         /\ \A r : Splice(Splice(t, s), r) = Splice(t, r)
<1> DEFINE u == Splice(t, s)
<1>1. PICK X : t \in Seq(Seq(X))
  BY DEF IsText
<1>2. Len(t) \in Nat \ {0} /\ t \in [1..Len(t) -> Seq(X)]
  BY <1>1, EmptySeq, LenProperties DEF IsText
<1>3. /\ DOMAIN u = DOMAIN t
      /\ \A n \in DOMAIN t :
           /\ DOMAIN u[n] = DOMAIN t[n]
           /\ \A i \in DOMAIN t[n] :
                u[n][i] = IF <<n, i>> \in FieldAt(t) THEN Subscriptions(s) ELSE t[n][i]
  BY DEF Splice
<1>4. IsText(u)
  <2> DEFINE Y == Seq(X \cup {Subscriptions(s)})
  <2>1. ASSUME NEW n \in DOMAIN t
        PROVE  [i \in DOMAIN t[n] |->
                  IF <<n, i>> \in FieldAt(t) THEN Subscriptions(s) ELSE t[n][i]] \in Y
    <3>1. Len(t[n]) \in Nat /\ t[n] \in [1..Len(t[n]) -> X]
      BY <1>2, <2>1, LenProperties
    <3>2. [i \in DOMAIN t[n] |->
             IF <<n, i>> \in FieldAt(t) THEN Subscriptions(s) ELSE t[n][i]]
            \in [1..Len(t[n]) -> X \cup {Subscriptions(s)}]
      BY <3>1
    <3> QED BY <3>1, <3>2
  <2>2. u \in [1..Len(t) -> Y]
    BY <1>2, <2>1 DEF Splice
  <2> HIDE DEF Y, u
  <2>3. u \in Seq(Y) /\ u # <<>>
    BY <1>2, <2>2
  <2> QED BY <2>3 DEF IsText, Y
<1> HIDE DEF u
<1>5. \A n \in DOMAIN t : \A i \in DOMAIN t[n] :
        u[n][i].key = t[n][i].key /\ (t[n][i].key # "subscriptions" => u[n][i] = t[n][i])
  <2> SUFFICES ASSUME NEW n \in DOMAIN t, NEW i \in DOMAIN t[n]
               PROVE  /\ u[n][i].key = t[n][i].key
                      /\ t[n][i].key # "subscriptions" => u[n][i] = t[n][i]
    OBVIOUS
  <2>1. CASE <<n, i>> \in FieldAt(t)
    <3>1. u[n][i] = Subscriptions(s)
      BY <1>3, <2>1
    <3>2. u[n][i].key = "subscriptions"
      BY <3>1 DEF Subscriptions
    <3> QED BY <2>1, <3>2, FieldKeys
  <2>2. CASE <<n, i>> \notin FieldAt(t)
    BY <1>3, <2>2
  <2> QED BY <2>1, <2>2
<1>6. \A n \in DOMAIN t : \A key : rawFieldSpan(u[n], key) = rawFieldSpan(t[n], key)
  <2> SUFFICES ASSUME NEW n \in DOMAIN t, NEW key
               PROVE  rawFieldSpan(u[n], key) = rawFieldSpan(t[n], key)
    OBVIOUS
  <2>1. PICK m \in Nat : DOMAIN t[n] = 1..m
    BY <1>2, LenProperties
  <2>2. \A j \in DOMAIN t[n] : 1..(j - 1) \subseteq DOMAIN t[n]
    BY <2>1
  <2> QED BY <1>3, <1>5, <2>2 DEF rawFieldSpan
<1>7. \A n \in DOMAIN t : IsAllChannelsProfile(u[n]) <=> IsAllChannelsProfile(t[n])
  <2> SUFFICES ASSUME NEW n \in DOMAIN t
               PROVE  IsAllChannelsProfile(u[n]) <=> IsAllChannelsProfile(t[n])
    OBVIOUS
  <2>1. \A i \in rawFieldSpan(t[n], "_id") : i \in DOMAIN t[n] /\ u[n][i] = t[n][i]
    BY <1>5 DEF rawFieldSpan
  <2> QED BY <1>6, <2>1 DEF IsAllChannelsProfile
<1>8. FieldAt(u) = FieldAt(t)
  <2>1. {m \in DOMAIN u : IsAllChannelsProfile(u[m])}
          = {m \in DOMAIN t : IsAllChannelsProfile(t[m])}
    BY <1>3, <1>7
  <2>2. \A m \in DOMAIN t : {m} \X rawFieldSpan(u[m], "subscriptions")
                            = {m} \X rawFieldSpan(t[m], "subscriptions")
    BY <1>6
  <2> QED BY <2>1, <2>2 DEF FieldAt
<1>9. ASSUME NEW r PROVE Splice(u, r) = Splice(t, r)
  <2> DEFINE line(v, n) == [i \in DOMAIN v[n] |->
               IF <<n, i>> \in FieldAt(t) THEN Subscriptions(r) ELSE v[n][i]]
  <2>1. \A n \in DOMAIN t : line(u, n) = line(t, n)
    BY <1>3
  <2>2. /\ Splice(u, r) = [n \in DOMAIN t |-> line(u, n)]
        /\ Splice(t, r) = [n \in DOMAIN t |-> line(t, n)]
    BY <1>3, <1>8 DEF Splice
  <2> HIDE DEF line
  <2> QED BY <2>1, <2>2
<1> QED BY <1>4, <1>8, <1>9 DEF u

(* nedb.go:147-160: what is read is what was written. *)
LEMMA SpliceReadsBack ==
  ASSUME NEW t, IsText(t), NEW s, FieldAt(t) # {}
  PROVE  GetSubscriptions(Parse(Splice(t, s))) = s
<1> DEFINE u == Splice(t, s)
           p == Parse(u)
           at == CHOOSE x \in Field(p) : TRUE
<1>1. Field(p) = FieldAt(t) /\ FieldAt(u) = FieldAt(t) /\ IsText(u)
  BY SpliceKeeps, ParsedField
<1>2. at \in FieldAt(t)
  BY <1>1
<1>3. p.docs[at[1]] = u[at[1]] /\ at = <<at[1], at[2]>>
  BY <1>1, <1>2, ParsedField
<1> HIDE DEF at
<1>4. at[1] \in DOMAIN t /\ at[2] \in DOMAIN t[at[1]]
  BY <1>2, ParsedField
<1>5. u[at[1]][at[2]] = Subscriptions(s)
  BY <1>2, <1>3, <1>4 DEF Splice
<1>6. GetSubscriptions(p) = p.docs[at[1]][at[2]].subs
  BY <1>1 DEF GetSubscriptions, at
<1> HIDE DEF p, u
<1>7. p.docs[at[1]][at[2]] = Subscriptions(s)
  BY <1>3, <1>5
<1>8. Subscriptions(s).subs = s
  BY DEF Subscriptions
<1> QED BY <1>6, <1>7, <1>8 DEF p, u

(* Filling in a layout replaces the subscriptions of the synced profile. *)
LEMMA FillIsSplice ==
  ASSUME NEW l \in Layout
  PROVE  IsText(l) /\ \A s : Fill(l, s) = Splice(l, s)
<1>1. l # <<>> /\ l \in Seq(Seq(Tokens(l)))
  BY DocumentsAssumption
<1>2. ASSUME NEW n \in DOMAIN l, NEW i \in DOMAIN l[n]
      PROVE  l[n][i] = Subscriptions(Slot) <=> <<n, i>> \in FieldAt(l)
  BY <1>2, DocumentsAssumption DEF FieldAt, IsAllChannelsProfile
<1> QED BY <1>1, <1>2 DEF IsText, Fill, Splice

-----------------------------------------------------------------------------
(***************************************************************************)
(* The inductive invariant: besides that of the cycles, every text is its  *)
(* layout filled in, and what a cycle has parsed is still in the file.     *)
(***************************************************************************)
ShapeInv ==
  /\ DOMAIN file = Device /\ DOMAIN local = Device
  /\ \A d \in Device :
       /\ DOMAIN file[d] = Install /\ DOMAIN local[d] = Proc
       /\ \A p \in Proc :
            local[d][p] = [db |-> local[d][p].db, names |-> local[d][p].names]

TextsInv ==
  layout \in [Device -> [Install -> Layout]] /\ OnlySubscriptionsChange

LocalInv ==
  \A d \in Device, p \in Proc :
    sync[d][p].pc \in {"load", "post", "wait", "write"} =>
      local[d][p].db = Parse(file[d][sync[d][p].k])

NamesInv ==
  /\ known \in [Device -> SUBSET Channel]
  /\ \A d \in Device : /\ known[d] \subseteq shadow[d]
                        /\ \A p \in Proc : local[d][p].names \subseteq Channel

DocInv == CycleInv /\ ShapeInv /\ TextsInv /\ LocalInv /\ NamesInv

(* A step of a cycle that neither reads nor writes a file. *)
Carries(d, p) ==
  /\ UNCHANGED <<docs, db, shadow>>
  /\ \E r : /\ SetsLocals(d, p, r)
            /\ r.pc \notin {"load", "post"}
            /\ r.pc \in {"wait", "write"} =>
                 sync[d][p].pc \in {"post", "wait"} /\ r.k = sync[d][p].k

(* The steps of DocNext by what they do to texts and names. *)
DocStep ==
  \E d \in Device :
    \/ \E c \in Channel : FreeTubeWrites(d, c)
    \/ UNCHANGED <<docs, db, shadow, sync>>
    \/ \E p \in Proc : \/ ReadsDB(d, p) \/ LoadsShadow(d, p)
                       \/ WritesDB(d, p) \/ SavesShadow(d, p) \/ Carries(d, p)

(* clientsync.go:60-135: the steps of a cycle on a text are those on its   *)
(* subscriptions, and those that fail for a reason in the text end it.     *)
LEMMA DocNextIsClientStep == DocNext => ClientStep
<1>1. ASSUME NEW d \in Device, NEW p \in Proc,
             \/ ReadsDB(d, p) \/ ReadFails(d, p) \/ LoadsShadow(d, p)
             \/ DryRun(d, p) \/ Post(d, p) \/ NetworkFailed(d, p)
             \/ \E R \in SUBSET Channel : Receive(d, p, R)
             \/ WritesDB(d, p) \/ SetFails(d, p) \/ SavesShadow(d, p) \/ Abort(d, p)
      PROVE  GoesOn(d, p) \/ EndsCycle(d, p)
  <2>1. ReadFails(d, p) \/ SetFails(d, p) \/ DryRun(d, p) \/ NetworkFailed(d, p)
          => GivesUp(d, p)
    BY DEF ReadFails, SetFails, Gives, DryRun, NetworkFailed, GivesUp
  <2> QED BY <1>1, <2>1 DEF ReadsDB, LoadsShadow, WritesDB, SavesShadow, GoesOn, EndsCycle
<1>2. ASSUME NEW d \in Device, NEW c \in Channel, FreeTubeWrites(d, c)
      PROVE  FreeTubeStep(d)
  BY <1>2 DEF FreeTubeWrites, FreeTubeStep
<1> QED BY <1>1, <1>2 DEF DocNext, ClientStep, FreeTubeStep

(* The same steps, by what they do to texts and names. *)
LEMMA DocNextIsDocStep == TypeOK /\ DocNext => DocStep
<1> SUFFICES ASSUME TypeOK, DocNext PROVE DocStep
  OBVIOUS
<1>1. ASSUME NEW d \in Device, NEW p \in Proc, NEW k \in Install,
             Guard(d, p, k), UNCHANGED docs
      PROVE  Carries(d, p)
  <2> DEFINE r == [sync[d][p] EXCEPT !.pc = "read", !.k = k]
  <2>1. SetsLocals(d, p, r) /\ UNCHANGED <<db, shadow>>
    BY <1>1, GuardLocals DEF Guard, files
  <2>2. r.pc = "read"
    BY DEF TypeOK, SyncLocals
  <2> QED BY <1>1, <2>1, <2>2 DEF Carries
<1>2. ASSUME NEW d \in Device, NEW p \in Proc, Post(d, p), UNCHANGED docs
      PROVE  Carries(d, p)
  <2> DEFINE r == [sync[d][p] EXCEPT !.pc = "wait"]
  <2>1. SetsLocals(d, p, r) /\ UNCHANGED <<db, shadow>> /\ sync[d][p].pc = "post"
    BY <1>2, WriteLocals DEF Post, files
  <2>2. r.pc = "wait" /\ r.k = sync[d][p].k
    BY DEF TypeOK, SyncLocals
  <2> QED BY <1>2, <2>1, <2>2 DEF Carries
<1>3. ASSUME NEW d \in Device, NEW p \in Proc, NEW R \in SUBSET Channel,
             Receive(d, p, R), UNCHANGED docs
      PROVE  Carries(d, p)
  <2> DEFINE r == [sync[d][p] EXCEPT !.pc = "write", !.resp = R]
  <2>1. SetsLocals(d, p, r) /\ UNCHANGED <<db, shadow>> /\ sync[d][p].pc = "wait"
    BY <1>3, WriteLocals DEF Receive, files
  <2>2. r.pc = "write" /\ r.k = sync[d][p].k
    BY DEF TypeOK, SyncLocals
  <2> QED BY <1>3, <2>1, <2>2 DEF Carries
<1>4. ASSUME NEW d \in Device, NEW p \in Proc, UNCHANGED docs,
             \/ DryRun(d, p) \/ NetworkFailed(d, p) \/ Abort(d, p)
             \/ ReadFails(d, p) \/ SetFails(d, p)
      PROVE  Carries(d, p)
  <2>1. SetsLocals(d, p, IdleSync) /\ UNCHANGED <<db, shadow>>
    BY <1>4, IdleSyncType
       DEF DryRun, NetworkFailed, Abort, ReadFails, SetFails, Gives, SetsLocals, files
  <2> QED BY <1>4, <2>1, IdleSyncType DEF Carries
<1>5. \A d \in Device, p \in Proc : ReadFails(d, p) \/ SetFails(d, p) => UNCHANGED docs
  BY DEF ReadFails, SetFails, Gives
<1>6. ASSUME NEW d \in Device, UNCHANGED docs,
             Close(d) \/ Die(d) \/ \E k \in Install : Open(d, k)
      PROVE  UNCHANGED <<docs, db, shadow, sync>>
  BY <1>6 DEF Close, Die, Gone, Open, Starts, files
<1> QED BY <1>1, <1>2, <1>3, <1>4, <1>5, <1>6 DEF DocNext, DocStep

(* clientsync.go:81-97: what a cycle has parsed and the names it loaded. *)
LEMMA LocalSet ==
  ASSUME ShapeInv, NEW d \in Device, NEW p \in Proc, NEW l,
         \/ /\ local' = [local EXCEPT ![d][p].db = l.db]
            /\ l = [db |-> l.db, names |-> local[d][p].names]
         \/ /\ local' = [local EXCEPT ![d][p].names = l.names]
            /\ l = [db |-> local[d][p].db, names |-> l.names]
  PROVE  /\ DOMAIN local' = Device /\ \A e \in Device : DOMAIN local'[e] = Proc
         /\ local'[d][p] = l
         /\ \A e \in Device, q \in Proc :
              e # d \/ q # p => local'[e][q] = local[e][q]
<1>1. /\ DOMAIN local = Device /\ DOMAIN local[d] = Proc
      /\ local[d][p] = [db |-> local[d][p].db, names |-> local[d][p].names]
  BY DEF ShapeInv
<1>2. local' = [local EXCEPT ![d][p] = l]
  <2>1. CASE /\ local' = [local EXCEPT ![d][p].db = l.db]
             /\ l = [db |-> l.db, names |-> local[d][p].names]
    <3>1. [local[d][p] EXCEPT !.db = l.db] = l
      BY <1>1, <2>1
    <3>2. local' = [local EXCEPT ![d][p] = [local[d][p] EXCEPT !.db = l.db]]
      BY <1>1, <2>1
    <3> QED BY <3>1, <3>2
  <2>2. CASE /\ local' = [local EXCEPT ![d][p].names = l.names]
             /\ l = [db |-> local[d][p].db, names |-> l.names]
    <3>1. [local[d][p] EXCEPT !.names = l.names] = l
      BY <1>1, <2>2
    <3>2. local' = [local EXCEPT ![d][p] = [local[d][p] EXCEPT !.names = l.names]]
      BY <1>1, <2>2
    <3> QED BY <3>1, <3>2
  <2> QED BY <2>1, <2>2
<1> QED BY <1>1, <1>2 DEF ShapeInv

(* The two steps that set them. *)
LEMMA ReadsLocal ==
  ASSUME ShapeInv, NEW d \in Device, NEW p \in Proc, ReadsDB(d, p) \/ LoadsShadow(d, p)
  PROVE  /\ DOMAIN local' = Device /\ \A e \in Device : DOMAIN local'[e] = Proc
         /\ local'[d][p] = [db |-> local'[d][p].db, names |-> local'[d][p].names]
         /\ ReadsDB(d, p) => /\ local'[d][p].db = Read(d, p)
                             /\ local'[d][p].names = local[d][p].names
         /\ LoadsShadow(d, p) => /\ local'[d][p].names = known[d]
                                 /\ local'[d][p].db = local[d][p].db
         /\ \A e \in Device, q \in Proc :
              e # d \/ q # p => local'[e][q] = local[e][q]
<1>1. CASE ReadsDB(d, p)
  <2> DEFINE l == [db |-> Read(d, p), names |-> local[d][p].names]
  <2>1. local' = [local EXCEPT ![d][p].db = l.db] /\ sync[d][p].pc = "read"
    BY <1>1 DEF ReadsDB, ReadDB
  <2>2. l = [db |-> l.db, names |-> local[d][p].names]
    OBVIOUS
  <2> HIDE DEF l
  <2>3. /\ DOMAIN local' = Device /\ \A e \in Device : DOMAIN local'[e] = Proc
        /\ local'[d][p] = l
        /\ \A e \in Device, q \in Proc :
             e # d \/ q # p => local'[e][q] = local[e][q]
    BY <2>1, <2>2, LocalSet
  <2> QED BY <2>1, <2>3 DEF l, LoadsShadow, LoadShadow
<1>2. CASE LoadsShadow(d, p)
  <2> DEFINE l == [db |-> local[d][p].db, names |-> known[d]]
  <2>1. local' = [local EXCEPT ![d][p].names = l.names] /\ sync[d][p].pc = "load"
    BY <1>2 DEF LoadsShadow, LoadShadow
  <2>2. l = [db |-> local[d][p].db, names |-> l.names]
    OBVIOUS
  <2> HIDE DEF l
  <2>3. /\ DOMAIN local' = Device /\ \A e \in Device : DOMAIN local'[e] = Proc
        /\ local'[d][p] = l
        /\ \A e \in Device, q \in Proc :
             e # d \/ q # p => local'[e][q] = local[e][q]
    BY <2>1, <2>2, LocalSet
  <2> QED BY <2>1, <2>3 DEF l, ReadsDB, ReadDB
<1> QED BY <1>1, <1>2

(* nedb.go:199-221: texts and locals stay functions of devices. *)
LEMMA ShapeNext == ShapeInv /\ DocStep => ShapeInv'
<1> SUFFICES ASSUME ShapeInv, DocStep PROVE ShapeInv'
  OBVIOUS
<1>1. ASSUME NEW d \in Device, NEW c \in Channel, FreeTubeWrites(d, c) PROVE ShapeInv'
  BY <1>1 DEF FreeTubeWrites, ShapeInv
<1>2. ASSUME NEW d \in Device, NEW p \in Proc, ReadsDB(d, p) \/ LoadsShadow(d, p)
      PROVE  ShapeInv'
  <2>1. /\ DOMAIN local' = Device /\ \A e \in Device : DOMAIN local'[e] = Proc
        /\ local'[d][p] = [db |-> local'[d][p].db, names |-> local'[d][p].names]
        /\ \A e \in Device, q \in Proc :
             e # d \/ q # p => local'[e][q] = local[e][q]
    BY <1>2, ReadsLocal
  <2>2. \A e \in Device, q \in Proc :
          local'[e][q] = [db |-> local'[e][q].db, names |-> local'[e][q].names]
    BY <2>1 DEF ShapeInv
  <2>3. file' = file
    BY <1>2 DEF ReadsDB, LoadsShadow
  <2> QED BY <2>1, <2>2, <2>3 DEF ShapeInv
<1>3. ASSUME NEW d \in Device, NEW p \in Proc, WritesDB(d, p) PROVE ShapeInv'
  BY <1>3 DEF WritesDB, ShapeInv
<1>4. ASSUME NEW d \in Device, NEW p \in Proc, SavesShadow(d, p) PROVE ShapeInv'
  BY <1>4 DEF SavesShadow, ShapeInv
<1>5. ASSUME UNCHANGED docs PROVE ShapeInv'
  BY <1>5 DEF docs, ShapeInv
<1> QED BY <1>1, <1>2, <1>3, <1>4, <1>5 DEF DocStep, Carries

(* A layout with a field for the subscriptions, filled in, reads back. *)
LEMMA FilledText ==
  ASSUME NEW l \in Layout, NEW s
  PROVE  /\ IsText(Fill(l, s)) /\ FieldAt(Fill(l, s)) = FieldAt(l)
         /\ Field(Parse(l)) = FieldAt(l) /\ Field(Parse(Fill(l, s))) = FieldAt(l)
         /\ FieldAt(l) # {} => GetSubscriptions(Parse(Fill(l, s))) = s
         /\ FieldAt(l) = {} => /\ GetSubscriptions(Parse(Fill(l, s))) = Subs({}, {})
                               /\ \A r : Fill(l, r) = Fill(l, s)
<1>1. IsText(l) /\ \A r : Fill(l, r) = Splice(l, r)
  BY FillIsSplice
<1>2. IsText(Splice(l, s)) /\ FieldAt(Splice(l, s)) = FieldAt(l)
  BY <1>1, SpliceKeeps
<1>3. Field(Parse(l)) = FieldAt(l) /\ Field(Parse(Splice(l, s))) = FieldAt(l)
  BY <1>1, <1>2, ParsedField
<1>4. FieldAt(l) # {} => GetSubscriptions(Parse(Splice(l, s))) = s
  BY <1>1, SpliceReadsBack
<1>5. ASSUME FieldAt(l) = {} PROVE \A r : Splice(l, r) = Splice(l, s)
  BY <1>5 DEF Splice
<1>6. FieldAt(l) = {} => GetSubscriptions(Parse(Splice(l, s))) = Subs({}, {})
  BY <1>3 DEF GetSubscriptions
<1> QED BY <1>1, <1>2, <1>3, <1>4, <1>5, <1>6

(* What a cycle writes back into what it has parsed. *)
LEMMA RefilledText ==
  ASSUME NEW l \in Layout, NEW s, NEW r, Field(Parse(Fill(l, s))) # {}
  PROVE  Bytes(SetSubscriptions(Parse(Fill(l, s)), r)) = Fill(l, r)
<1>1. IsText(l) /\ \A x : Fill(l, x) = Splice(l, x)
  BY FillIsSplice
<1>2. /\ IsText(Splice(l, s)) /\ FieldAt(Splice(l, s)) # {}
      /\ Splice(Splice(l, s), r) = Splice(l, r)
  BY <1>1, SpliceKeeps, ParsedField
<1>3. Bytes(SetSubscriptions(Parse(Splice(l, s)), r)) = Splice(Splice(l, s), r)
  BY <1>2, Spliced
<1> QED BY <1>1, <1>2, <1>3

(* What a file with a field holds is what it is filled in with. *)
FilledIn(d, k) ==
  LET s == GetSubscriptions(Parse(file[d][k])) IN
  s.on = db[d][k] /\ file[d][k] = Fill(layout[d][k], s)

(* FreeTube's own writes, of any layout with a field for subscriptions. *)
LEMMA FreeTubeText ==
  ASSUME TypeOK, ShapeInv, TextsInv, NEW d \in Device, NEW c \in Channel,
         FreeTubeWrites(d, c)
  PROVE  /\ TextsInv'
         /\ ft[d] \in Install
         /\ GetSubscriptions(Parse(file'[d][ft[d]])).named = db'[d][ft[d]]
         /\ \A e \in Device, k \in Install :
              e # d \/ k # ft[d] => db'[e][k] = db[e][k] /\ file'[e][k] = file[e][k]
<1> DEFINE s == Subs(mem'[d], Channel)
<1>1. PICK k \in Install : k = ft[d] /\ mem'[d] \in SUBSET Channel
  BY DEF FreeTubeWrites, Toggle, TypeOK, SymDiff
<1>2. PICK l \in Layout :
        /\ Field(Parse(l)) # {}
        /\ layout' = [layout EXCEPT ![d][k] = l]
        /\ file' = [file EXCEPT ![d][k] = Fill(l, s)]
  BY <1>1 DEF FreeTubeWrites
<1>3. db'[d][k] = mem'[d] /\ file'[d][k] = Fill(l, s) /\ layout'[d][k] = l
  BY <1>1, <1>2 DEF FreeTubeWrites, Toggle, TypeOK, ShapeInv, TextsInv
<1>4. \A e \in Device, j \in Install :
        e # d \/ j # k => /\ db'[e][j] = db[e][j] /\ file'[e][j] = file[e][j]
                          /\ layout'[e][j] = layout[e][j]
  BY <1>1, <1>2 DEF FreeTubeWrites, Toggle, TypeOK, ShapeInv, TextsInv
<1>5. layout' \in [Device -> [Install -> Layout]]
  BY <1>1, <1>2 DEF TextsInv
<1>6. GetSubscriptions(Parse(Fill(l, s))) = s
  BY <1>2, FilledText
<1>7. s.on = mem'[d] /\ s.named = mem'[d]
  BY <1>1 DEF Subs
<1> HIDE DEF s
<1>8. FilledIn(d, k)'
  BY <1>3, <1>6, <1>7 DEF FilledIn
<1>9. \A e \in Device, j \in Install : e # d \/ j # k => FilledIn(e, j)'
  BY <1>4 DEF FilledIn, TextsInv, OnlySubscriptionsChange
<1> QED BY <1>1, <1>3, <1>4, <1>5, <1>6, <1>7, <1>8, <1>9
        DEF TextsInv, OnlySubscriptionsChange, FilledIn

(* clientsync.go:122-129: a cycle's write, of the text it has parsed. *)
LEMMA CycleText ==
  ASSUME TypeOK, ShapeInv, TextsInv, LocalInv, NEW d \in Device, NEW p \in Proc,
         WritesDB(d, p)
  PROVE  LET k == sync[d][p].k IN
         /\ TextsInv'
         /\ k \in Install
         /\ GetSubscriptions(Parse(file'[d][k])) = reconcile(d, p)
         /\ \A e \in Device, j \in Install :
              e # d \/ j # k => db'[e][j] = db[e][j] /\ file'[e][j] = file[e][j]
<1>1. PICK k \in Install : /\ k = sync[d][p].k /\ sync[d][p].pc = "write"
                           /\ layout[d][k] \in Layout
  BY DEF WritesDB, WriteDB, TypeOK, TextsInv
<1> DEFINE l == layout[d][k]
           s == GetSubscriptions(Parse(file[d][k]))
           r == reconcile(d, p)
<1>2. local[d][p].db = Parse(file[d][k]) /\ file[d][k] = Fill(l, s)
  BY <1>1 DEF LocalInv, TextsInv, OnlySubscriptionsChange
<1>3. /\ Field(Parse(file[d][k])) # {}
      /\ file' = [file EXCEPT ![d][k] =
                     Bytes(SetSubscriptions(Parse(file[d][k]), r))]
      /\ db' = [db EXCEPT ![d][k] = sync[d][p].resp] /\ layout' = layout
  BY <1>1, <1>2 DEF WritesDB, WriteDB
<1>4. r.on = sync[d][p].resp
  BY DEF reconcile, Subs
<1> HIDE DEF s, r
<1>5. Bytes(SetSubscriptions(Parse(file[d][k]), r)) = Fill(l, r) /\ FieldAt(l) # {}
  <2>1. Field(Parse(Fill(l, s))) # {}
    BY <1>2, <1>3
  <2>2. FieldAt(l) # {}
    BY <1>1, <2>1, FilledText
  <2> QED BY <1>1, <1>2, <2>1, <2>2, RefilledText
<1>6. file'[d][k] = Fill(l, r) /\ db'[d][k] = sync[d][p].resp /\ layout'[d][k] = l
  BY <1>1, <1>3, <1>5 DEF ShapeInv, TypeOK
<1>7. \A e \in Device, j \in Install :
        e # d \/ j # k => db'[e][j] = db[e][j] /\ file'[e][j] = file[e][j]
  BY <1>1, <1>3 DEF ShapeInv, TypeOK
<1>8. GetSubscriptions(Parse(Fill(l, r))) = r
  BY <1>1, <1>5, FilledText
<1>9. FilledIn(d, k)'
  BY <1>4, <1>6, <1>8 DEF FilledIn
<1>10. \A e \in Device, j \in Install : e # d \/ j # k => FilledIn(e, j)'
  BY <1>3, <1>7 DEF FilledIn, TextsInv, OnlySubscriptionsChange
<1>11. TextsInv'
  BY <1>3, <1>9, <1>10 DEF TextsInv, OnlySubscriptionsChange, FilledIn
<1> QED BY <1>1, <1>6, <1>7, <1>8, <1>11 DEF r

(* nedb.go:4-13: every step leaves each text as its layout, filled in.     *)
LEMMA TextsNext ==
  ASSUME TypeOK, ShapeInv, TextsInv, LocalInv, DocStep
  PROVE  TextsInv'
<1>1. CASE UNCHANGED <<docs, db>>
  BY <1>1 DEF docs, TextsInv, OnlySubscriptionsChange
<1>2. ASSUME NEW d \in Device, NEW p \in Proc,
             ReadsDB(d, p) \/ LoadsShadow(d, p) \/ SavesShadow(d, p)
      PROVE  TextsInv'
  <2>1. UNCHANGED <<file, layout, db>>
    BY <1>2 DEF ReadsDB, ReadDB, LoadsShadow, LoadShadow, SavesShadow, SaveShadow, files
  <2> QED BY <2>1 DEF TextsInv, OnlySubscriptionsChange
<1> QED BY <1>1, <1>2, FreeTubeText, CycleText DEF DocStep, Carries

(* clientsync.go:81-129: nothing writes what a cycle has parsed, if there  *)
(* is no second one, before it does so itself.                             *)
LEMMA LocalNext ==
  ASSUME OneProcess, TypeOK, ExclusiveInv, ShapeInv, TextsInv, LocalInv, DocStep
  PROVE  LocalInv'
<1>1. ASSUME NEW d \in Device, NEW c \in Channel, FreeTubeWrites(d, c) PROVE LocalInv'
  <2>1. /\ sync' = sync /\ local' = local /\ ft[d] # Off
        /\ \A e \in Device \ {d}, k \in Install : file'[e][k] = file[e][k]
    BY <1>1, FreeTubeText DEF FreeTubeWrites, Toggle
  <2>2. \A q \in Proc : sync[d][q].pc = "idle"
    BY <2>1 DEF ExclusiveInv
  <2>3. \A e \in Device, q \in Proc : sync[e][q].pc # "idle" => sync[e][q].k \in Install
    BY DEF TypeOK
  <2> QED BY <2>1, <2>2, <2>3 DEF LocalInv
<1>2. CASE UNCHANGED <<docs, db, shadow, sync>>
  BY <1>2 DEF docs, LocalInv
<1>3. ASSUME NEW d \in Device, NEW p \in Proc,
             \A e \in Device \ {d}, q \in Proc :
               sync'[e][q] = sync[e][q] /\ local'[e][q] = local[e][q],
             \A e \in Device \ {d}, k \in Install : file'[e][k] = file[e][k],
             sync'[d][p].pc \in {"load", "post", "wait", "write"} =>
               local'[d][p].db = Parse(file'[d][sync'[d][p].k])
      PROVE  LocalInv'
  <2>1. \A e \in Device, q \in Proc : sync[e][q].pc # "idle" => sync[e][q].k \in Install
    BY DEF TypeOK
  <2> QED BY <1>3, <2>1 DEF LocalInv, OneProcess
<1>4. ASSUME NEW d \in Device, NEW p \in Proc, Carries(d, p) PROVE LocalInv'
  <2>1. UNCHANGED docs
    BY <1>4 DEF Carries
  <2>2. PICK r : /\ SetsLocals(d, p, r) /\ r.pc \notin {"load", "post"}
                 /\ r.pc \in {"wait", "write"} =>
                      sync[d][p].pc \in {"post", "wait"} /\ r.k = sync[d][p].k
    BY <1>4 DEF Carries
  <2>3. sync'[d][p] = r /\ \A e \in Device \ {d}, q \in Proc : sync'[e][q] = sync[e][q]
    BY <2>2, SyncSet
  <2> QED BY <1>3, <2>1, <2>2, <2>3 DEF docs, LocalInv
<1>5. ASSUME NEW d \in Device, NEW p \in Proc, ReadsDB(d, p) PROVE LocalInv'
  <2> DEFINE s == sync[d][p]
             r == [s EXCEPT !.pc = "load", !.cur = db[d][s.k]]
  <2>1. SetsLocals(d, p, r) /\ file' = file
    BY <1>5, ReadLocals DEF ReadsDB
  <2>2. s \in SyncLocals
    BY DEF TypeOK
  <2>3. r.k = s.k
    BY <2>2 DEF SyncLocals
  <2> HIDE DEF r
  <2>4. sync'[d][p] = r /\ \A e \in Device \ {d}, q \in Proc : sync'[e][q] = sync[e][q]
    BY <2>1, SyncSet
  <2>5. local'[d][p].db = Parse(file[d][s.k])
    BY <1>5, ReadsLocal DEF Read
  <2>6. \A e \in Device, q \in Proc : e # d \/ q # p => local'[e][q] = local[e][q]
    BY <1>5, ReadsLocal
  <2>7. local'[d][p].db = Parse(file'[d][sync'[d][p].k])
    BY <2>1, <2>3, <2>4, <2>5
  <2> QED BY <1>3, <2>1, <2>4, <2>6, <2>7
<1>6. ASSUME NEW d \in Device, NEW p \in Proc, LoadsShadow(d, p) PROVE LocalInv'
  <2> DEFINE s == sync[d][p]
             r == [s EXCEPT !.pc = "post", !.snap = shadow[d]]
  <2>1. SetsLocals(d, p, r) /\ file' = file /\ s.pc = "load"
    BY <1>6, ReadLocals DEF LoadsShadow, LoadShadow
  <2>2. s \in SyncLocals
    BY DEF TypeOK
  <2>3. r.k = s.k
    BY <2>2 DEF SyncLocals
  <2> HIDE DEF r
  <2>4. sync'[d][p] = r /\ \A e \in Device \ {d}, q \in Proc : sync'[e][q] = sync[e][q]
    BY <2>1, SyncSet
  <2>5. local'[d][p].db = Parse(file[d][s.k])
    <3>1. local'[d][p].db = local[d][p].db
      BY <1>6, ReadsLocal
    <3>2. local[d][p].db = Parse(file[d][s.k])
      BY <2>1 DEF LocalInv
    <3> QED BY <3>1, <3>2
  <2>6. \A e \in Device, q \in Proc : e # d \/ q # p => local'[e][q] = local[e][q]
    BY <1>6, ReadsLocal
  <2>7. local'[d][p].db = Parse(file'[d][sync'[d][p].k])
    BY <2>1, <2>3, <2>4, <2>5
  <2> QED BY <1>3, <2>1, <2>4, <2>6, <2>7
<1>7. ASSUME NEW d \in Device, NEW p \in Proc, WritesDB(d, p) PROVE LocalInv'
  <2> DEFINE s == sync[d][p]
             r == [s EXCEPT !.pc = "save"]
  <2>1. SetsLocals(d, p, r) /\ local' = local
    BY <1>7, WriteLocals DEF WritesDB
  <2>2. s \in SyncLocals
    BY DEF TypeOK
  <2>3. r.pc = "save"
    BY <2>2 DEF SyncLocals
  <2> HIDE DEF r
  <2>4. sync'[d][p] = r /\ \A e \in Device \ {d}, q \in Proc : sync'[e][q] = sync[e][q]
    BY <2>1, SyncSet
  <2>5. \A e \in Device \ {d}, k \in Install : file'[e][k] = file[e][k]
    BY <1>7, CycleText
  <2> QED BY <1>3, <2>1, <2>3, <2>4, <2>5
<1>8. ASSUME NEW d \in Device, NEW p \in Proc, SavesShadow(d, p) PROVE LocalInv'
  <2>1. SetsLocals(d, p, IdleSync) /\ UNCHANGED <<file, local>>
    BY <1>8, IdleSyncType DEF SavesShadow, SaveShadow, SetsLocals
  <2>2. /\ sync'[d][p].pc = "idle"
        /\ \A e \in Device \ {d}, q \in Proc : sync'[e][q] = sync[e][q]
    BY <2>1, SyncSet, IdleSyncType
  <2> QED BY <1>3, <2>1, <2>2
<1> QED BY <1>1, <1>2, <1>4, <1>5, <1>6, <1>7, <1>8 DEF DocStep

(* shadow.go:23-30: the shadow has names of its own channels only. *)
LEMMA NamesNext ==
  ASSUME TypeOK, TypeOK', ShapeInv, NamesInv, DocStep
  PROVE  NamesInv'
<1>1. ASSUME NEW d \in Device, NEW c \in Channel, FreeTubeWrites(d, c) PROVE NamesInv'
  BY <1>1 DEF FreeTubeWrites, Toggle, NamesInv
<1>2. CASE UNCHANGED <<docs, shadow>>
  BY <1>2 DEF docs, NamesInv
<1>3. ASSUME NEW d \in Device, NEW p \in Proc, ReadsDB(d, p) \/ LoadsShadow(d, p)
      PROVE  NamesInv'
  <2>1. UNCHANGED <<known, shadow>>
    BY <1>3 DEF ReadsDB, ReadDB, LoadsShadow, LoadShadow, files
  <2>2. \A e \in Device, q \in Proc : local'[e][q].names \subseteq Channel
    <3>1. local'[d][p].names = local[d][p].names \/ local'[d][p].names = known[d]
      BY <1>3, ReadsLocal
    <3>2. \A e \in Device, q \in Proc :
            e # d \/ q # p => local'[e][q] = local[e][q]
      BY <1>3, ReadsLocal
    <3> QED BY <3>1, <3>2 DEF NamesInv
  <2> QED BY <2>1, <2>2 DEF NamesInv
<1>4. ASSUME NEW d \in Device, NEW p \in Proc, WritesDB(d, p) PROVE NamesInv'
  BY <1>4 DEF WritesDB, WriteDB, NamesInv
<1>5. ASSUME NEW d \in Device, NEW p \in Proc, SavesShadow(d, p) PROVE NamesInv'
  <2>1. /\ shadow' = [shadow EXCEPT ![d] = sync[d][p].resp] /\ local' = local
        /\ known' = [known EXCEPT ![d] = reconcile(d, p).named]
    BY <1>5 DEF SavesShadow, SaveShadow
  <2>2. reconcile(d, p).named \subseteq sync[d][p].resp /\ sync[d][p].resp \subseteq Channel
    BY DEF reconcile, Subs, TypeOK, SyncLocals
  <2> QED BY <2>1, <2>2 DEF NamesInv, TypeOK
<1> QED BY <1>1, <1>2, <1>3, <1>4, <1>5 DEF DocStep, Carries

(* profiles.db at the start: any layout, with all names, and no shadow.    *)
LEMMA InitDocInv == DocInit => DocInv
<1> SUFFICES ASSUME DocInit PROVE DocInv
  OBVIOUS
<1>1. Init /\ CycleInv
  BY InitEventsInv DEF DocInit, EventsInv
<1>2. ShapeInv
  <2>1. \A d \in Device : DOMAIN file[d] = Install /\ DOMAIN local[d] = Proc
    BY DEF DocInit
  <2>2. \A d \in Device, p \in Proc :
          local[d][p] = [db |-> Parse(<< <<>> >>), names |-> {}]
    BY DEF DocInit
  <2> QED BY <2>1, <2>2 DEF DocInit, ShapeInv
<1>3. TextsInv
  <2> SUFFICES ASSUME NEW d \in Device, NEW k \in Install
               PROVE  LET s == GetSubscriptions(Parse(file[d][k])) IN
                      s.on = db[d][k] /\ file[d][k] = Fill(layout[d][k], s)
    BY DEF DocInit, TextsInv, OnlySubscriptionsChange
  <2> DEFINE l == layout[d][k]
             s == Subs(db[d][k], Channel)
  <2>1. l \in Layout
    BY DEF DocInit
  <2>2. /\ file[d][k] = Fill(l, s)
        /\ db[d][k] = GetSubscriptions(Parse(file[d][k])).on
    BY DEF DocInit
  <2>3. \/ GetSubscriptions(Parse(Fill(l, s))) = s
        \/ \A r : Fill(l, r) = Fill(l, s)
    BY <2>1, FilledText
  <2> HIDE DEF l, s
  <2>4. file[d][k] = Fill(l, GetSubscriptions(Parse(file[d][k])))
    BY <2>2, <2>3
  <2> QED BY <2>2, <2>4 DEF l
<1>4. LocalInv
  BY <1>1, IdleSyncType DEF Init, LocalInv
<1>5. NamesInv
  BY <1>1 DEF DocInit, Init, NamesInv
<1> QED BY <1>1, <1>2, <1>3, <1>4, <1>5 DEF DocInv

(* nedb.go, clientsync.go: every step keeps texts, names and cycles. *)
LEMMA NextDocInv ==
  ASSUME ~ FreeTubeMayRace, OneProcess
  PROVE  DocInv /\ [DocNext]_docvars => DocInv'
<1> SUFFICES ASSUME DocInv, [DocNext]_docvars PROVE DocInv'
  OBVIOUS
<1>1. CASE DocNext
  <2>1. CycleInv'
    BY <1>1, DocNextIsClientStep, CycleNext DEF DocInv
  <2>2. DocStep
    BY <1>1, DocNextIsDocStep DEF DocInv, CycleInv
  <2> QED BY <2>1, <2>2, ShapeNext, TextsNext, LocalNext, NamesNext DEF DocInv, CycleInv
<1>2. CASE UNCHANGED docvars
  <2>1. UNCHANGED vars /\ UNCHANGED docs
    BY <1>2 DEF docvars
  <2>2. UNCHANGED <<db, shadow, sync>>
    BY <2>1 DEF vars
  <2>3. CycleInv'
    BY <2>1, CycleNext DEF DocInv
  <2> QED BY <2>1, <2>2, <2>3 DEF DocInv, ShapeInv, TextsInv, OnlySubscriptionsChange,
                                  LocalInv, NamesInv, docs
<1> QED BY <1>1, <1>2

-----------------------------------------------------------------------------
(***************************************************************************)
(* nedb.go, clientsync.go: where FreeTube is not opened during a cycle and *)
(* no second process runs, texts, parsed documents and names agree.        *)
(***************************************************************************)
THEOREM DocInvariant == ASSUME ~ FreeTubeMayRace, OneProcess PROVE DocSpec => []DocInv
BY InitDocInv, NextDocInv, PTL DEF DocSpec

(* The types of texts and names; a cycle writes into what it has diffed. *)
THEOREM DocTypeCorrect == ASSUME ~ FreeTubeMayRace, OneProcess PROVE DocSpec => []DocTypeOK
<1>1. DocInv => DocTypeOK
  <2> SUFFICES ASSUME DocInv PROVE DocTypeOK
    OBVIOUS
  <2>1. ASSUME NEW d \in Device, NEW p \in Proc, sync[d][p].pc = "write"
        PROVE  GetSubscriptions(local[d][p].db).on = sync[d][p].cur
    <3>1. sync[d][p].k \in Install /\ sync[d][p].cur = db[d][sync[d][p].k]
      BY <2>1 DEF DocInv, CycleInv, TypeOK, LocalsInv, Current
    <3>2. local[d][p].db = Parse(file[d][sync[d][p].k])
      BY <2>1 DEF DocInv, LocalInv
    <3> QED BY <3>1, <3>2 DEF DocInv, TextsInv, OnlySubscriptionsChange
  <2> QED BY <2>1 DEF DocInv, CycleInv, TextsInv, NamesInv, DocTypeOK
<1> QED BY <1>1, DocInvariant, PTL

(* nedb.go:4-13: whatever the layout and however many syncs, a text is the *)
(* one FreeTube last wrote but for the subscriptions of the profile.       *)
THEOREM TextKept ==
  ASSUME ~ FreeTubeMayRace, OneProcess PROVE DocSpec => []OnlySubscriptionsChange
<1>1. DocInv => OnlySubscriptionsChange
  BY DEF DocInv, TextsInv
<1> QED BY <1>1, DocInvariant, PTL

(* clientsync.go:142-147: a name FreeTube has looked up survives a sync.   *)
THEOREM NamesSurvive == ASSUME ~ FreeTubeMayRace, OneProcess PROVE DocSpec => NamesKept
<1> DEFINE named(f, d, k) == GetSubscriptions(Parse(f[d][k])).named
<1>1. ASSUME DocInv, DocNext, NEW e \in Device, NEW j \in Install
      PROVE  named(file, e, j) \cap db'[e][j] \subseteq named(file', e, j)
  <2>1. DocStep /\ TypeOK
    BY <1>1, DocNextIsDocStep DEF DocInv, CycleInv
  <2>2. CASE file'[e][j] = file[e][j]
    BY <2>2
  <2>3. ASSUME NEW d \in Device, NEW c \in Channel, FreeTubeWrites(d, c)
        PROVE  file'[e][j] = file[e][j] \/ named(file', e, j) = db'[e][j]
    BY <1>1, <2>3, FreeTubeText DEF DocInv, CycleInv
  <2>4. ASSUME NEW d \in Device, NEW p \in Proc, WritesDB(d, p)
        PROVE  \/ file'[e][j] = file[e][j]
               \/ named(file, e, j) \cap db'[e][j] \subseteq named(file', e, j)
    <3>1. CASE e # d \/ j # sync[d][p].k
      BY <1>1, <2>4, <3>1, CycleText DEF DocInv, CycleInv
    <3>2. CASE e = d /\ j = sync[d][p].k
      <4>1. /\ GetSubscriptions(Parse(file'[e][j])) = reconcile(d, p)
            /\ local[d][p].db = Parse(file[e][j])
        BY <1>1, <2>4, <3>2, CycleText DEF DocInv, CycleInv, LocalInv, WritesDB, WriteDB
      <4>2. db'[e][j] = sync[d][p].resp
        BY <2>1, <2>4, <3>2 DEF WritesDB, WriteDB, TypeOK
      <4>3. named(file, e, j) \subseteq metadata(d, p)
        BY <4>1 DEF metadata
      <4> QED BY <4>1, <4>2, <4>3 DEF reconcile, Subs
    <3> QED BY <3>1, <3>2
  <2>5. \/ file'[e][j] = file[e][j]
        \/ \E d \in Device, c \in Channel : FreeTubeWrites(d, c)
        \/ \E d \in Device, p \in Proc : WritesDB(d, p)
    BY <2>1 DEF DocStep, Carries, docs, ReadsDB, LoadsShadow, SavesShadow
  <2> QED BY <2>2, <2>3, <2>4, <2>5
<1>2. DocInv /\ [DocNext]_docvars
        => [\A d \in Device, k \in Install :
              GetSubscriptions(Parse(file[d][k])).named \cap db'[d][k]
                \subseteq GetSubscriptions(Parse(file'[d][k])).named]_docvars
  BY <1>1
<1> QED BY <1>2, DocInvariant, PTL DEF DocSpec, NamesKept

(* shadow.go:1-5: with one install, the events of a cycle are the user's   *)
(* changes or repeat an unsaved reply, whatever errors a text causes.      *)
THEOREM DocSendsWhatChanged ==
  ASSUME ~ FreeTubeMayRace, OneProcess, OneInstall PROVE DocSpec => []EventsExplained
<1>1. DocInit => EventsInv
  BY InitEventsInv DEF DocInit
<1>2. EventsInv /\ [DocNext]_docvars => EventsInv'
  <2>1. [DocNext]_docvars => ClientStep \/ UNCHANGED vars
    BY DocNextIsClientStep DEF docvars
  <2> QED BY <2>1, CycleNext, DiffNext DEF EventsInv, CycleInv
<1> QED BY <1>1, <1>2, EventsFromDiff, PTL DEF DocSpec
=============================================================================
