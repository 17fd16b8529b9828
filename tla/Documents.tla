----------------------------- MODULE Documents -----------------------------
(***************************************************************************)
(* The sync cycles of ClientSync on the text of profiles.db (nedb.go): the *)
(* lines it is split into, the one field of one of them that is replaced,  *)
(* and the names of channels that a cycle carries along.                   *)
(*                                                                         *)
(* A text is the sequence of what stands between its newlines, a line the  *)
(* sequence of its fields; Torn stands for bytes that are not JSON.  db    *)
(* stays the set of subscriptions, and ReadsBack says that it is the one   *)
(* the text holds.                                                         *)
(***************************************************************************)
EXTENDS ClientSync, Sequences

CONSTANTS
  AllChannels,   \* the _id of the profile that is synced; also the title of some
  Layout,        \* texts as FreeTube may leave them, with Slot for the subscriptions
  Slot

VARIABLES
  file,     \* file[d][k]: the text of profiles.db
  known,    \* known[d]: the channels whose names the shadow holds
  local,    \* local[d][p]: the text a process has parsed, the names it has loaded
  layout    \* history, layout[d][k]: the text FreeTube last wrote, less its Slot

S == INSTANCE SequencesExt

docs    == <<file, known, local, layout>>
docvars == <<vars, docs>>

-----------------------------------------------------------------------------
(* Texts, lines and fields. *)

ID(x)            == [key |-> "_id", id |-> x]
Name(x)          == [key |-> "name", name |-> x]
Subscriptions(s) == [key |-> "subscriptions", subs |-> s]
Torn             == [key |-> "torn"]

\* The channels subscribed to, and those of them that have a name.
Subs(on, named) == [on |-> on, named |-> on \cap named]

\* Where the first value of key stands; decoding stops at what is torn.
rawFieldSpan(line, key) ==
  {i \in DOMAIN line : /\ line[i].key = key
                       /\ \A j \in 1..(i - 1) : line[j].key \notin {key, "torn"}}

\* What stands in the lines of a text.
Tokens(text) == UNION {S!ToSet(text[n]) : n \in DOMAIN text}

(***************************************************************************)
(* Slot is where the subscriptions of every profile with the _id are, the  *)
(* first ones of its line if FreeTube left several, and nowhere else.      *)
(***************************************************************************)
ASSUME DocumentsAssumption ==
  \A l \in Layout :
    /\ l # <<>> /\ l \in Seq(Seq(Tokens(l)))
    /\ \A n \in DOMAIN l : \A i \in DOMAIN l[n] :
         l[n][i] = Subscriptions(Slot)
           <=> /\ i \in rawFieldSpan(l[n], "subscriptions")
               /\ \E j \in rawFieldSpan(l[n], "_id") : l[n][j].id = AllChannels

\* Mistake: the profile is recognised by its title.
MistakeMatchesName(line) ==
  \E i \in rawFieldSpan(line, "name") : line[i].name = AllChannels

IsAllChannelsProfile(line) ==
  \E i \in rawFieldSpan(line, "_id") : line[i].id = AllChannels

Parse(text) ==
  LET trailing == S!Last(text) = <<>>
      trimmed  == IF trailing THEN S!Front(text) ELSE text
  IN  [docs |-> IF trimmed = << <<>> >> THEN <<>> ELSE trimmed, trailing |-> trailing]

\* Mistake: every text ends in a newline.
MistakeEndsLine(p) == IF p.docs = <<>> THEN << <<>> >> ELSE Append(p.docs, <<>>)

Bytes(p) ==
  IF p.docs = <<>> THEN << <<>> >>
  ELSE IF p.trailing THEN Append(p.docs, <<>>) ELSE p.docs

allChannelsIndex(p) == {n \in DOMAIN p.docs : IsAllChannelsProfile(p.docs[n])}

\* Where the subscriptions stand, as pairs <<line, field>>: none if they are missing.
Field(p) ==
  UNION {{n} \X rawFieldSpan(p.docs[n], "subscriptions") : n \in allChannelsIndex(p)}

\* A missing field reads as no subscriptions, one behind torn bytes as an error.
Readable(p) ==
  \E n \in DOMAIN p.docs :
    /\ allChannelsIndex(p) = {n}
    /\ Field(p) # {} \/ Torn \notin S!ToSet(p.docs[n])

GetSubscriptions(p) ==
  IF Field(p) = {} THEN Subs({}, {})
  ELSE LET at == CHOOSE x \in Field(p) : TRUE IN p.docs[at[1]][at[2]].subs

SetSubscriptions(p, s) ==
  [p EXCEPT !.docs = [n \in DOMAIN @ |-> [i \in DOMAIN @[n] |->
     IF <<n, i>> \in Field(p) THEN Subscriptions(s) ELSE @[n][i]]]]

\* A layout with its subscriptions filled in.
Fill(l, s) ==
  [n \in DOMAIN l |-> [i \in DOMAIN l[n] |->
     IF l[n][i] = Subscriptions(Slot) THEN Subscriptions(s) ELSE l[n][i]]]

-----------------------------------------------------------------------------
DocInit ==
  /\ Init
  /\ layout \in [Device -> [Install -> Layout]]
  /\ file = [d \in Device |-> [k \in Install |->
               Fill(layout[d][k], Subs(db[d][k], Channel))]]
  /\ \A d \in Device, k \in Install : db[d][k] = GetSubscriptions(Parse(file[d][k])).on
  /\ known = [d \in Device |-> {}]
  /\ local = [d \in Device |-> [p \in Proc |-> [db |-> Parse(<< <<>> >>), names |-> {}]]]

(***************************************************************************)
(* FreeTube writes its documents anew, in some layout that is whole, and   *)
(* has by then looked up the names of all channels.                        *)
(***************************************************************************)
FreeTubeWrites(d, c) ==
  /\ Toggle(d, c)
  /\ \E l \in Layout :
       /\ Readable(Parse(l)) /\ Field(Parse(l)) # {}
       /\ layout' = [layout EXCEPT ![d][ft[d]] = l]
       /\ file' = [file EXCEPT ![d][ft[d]] = Fill(l, Subs(mem'[d], Channel))]
  /\ UNCHANGED <<known, local>>

Read(d, p) == Parse(file[d][sync[d][p].k])

ReadsDB(d, p) ==
  /\ ReadDB(d, p)
  /\ Readable(Read(d, p))
  /\ local' = [local EXCEPT ![d][p].db = Read(d, p)]
  /\ UNCHANGED <<file, known, layout>>

Gives(d, p) ==
  /\ sync' = [sync EXCEPT ![d][p] = IdleSync]
  /\ UNCHANGED <<files, freetube, budget, history, docs>>

\* No profile, more than one, or one that cannot be decoded.
ReadFails(d, p) ==
  /\ sync[d][p].pc = "read" /\ ~ Readable(Read(d, p))
  /\ Gives(d, p)

LoadsShadow(d, p) ==
  /\ LoadShadow(d, p)
  /\ local' = [local EXCEPT ![d][p].names = known[d]]
  /\ UNCHANGED <<file, known, layout>>

\* Mistake: the names of the shadow go before those of the database.
MistakeOldNames(d, p) ==
  local[d][p].names
    \cup (GetSubscriptions(local[d][p].db).named \ sync[d][p].snap)

\* The names diff collects: the database's, and the shadow's for other channels.
metadata(d, p) ==
  GetSubscriptions(local[d][p].db).named \cup (local[d][p].names \ sync[d][p].cur)

reconcile(d, p) == Subs(sync[d][p].resp, metadata(d, p))

WritesDB(d, p) ==
  /\ WriteDB(d, p)
  /\ Field(local[d][p].db) # {}
  /\ file' = [file EXCEPT ![d][sync[d][p].k] =
                Bytes(SetSubscriptions(local[d][p].db, reconcile(d, p)))]
  /\ UNCHANGED <<known, local, layout>>

\* The exchange has taken place, and there is no field for its result.
SetFails(d, p) ==
  /\ sync[d][p].pc = "write" /\ Field(local[d][p].db) = {}
  /\ Gives(d, p)

SavesShadow(d, p) ==
  /\ SaveShadow(d, p)
  /\ known' = [known EXCEPT ![d] = reconcile(d, p).named]
  /\ UNCHANGED <<file, local, layout>>

DocNext ==
  \E d \in Device :
    \/ \E k \in Install : Open(d, k) /\ UNCHANGED docs
    \/ (Close(d) \/ Die(d)) /\ UNCHANGED docs
    \/ \E c \in Channel : FreeTubeWrites(d, c)
    \/ \E p \in Proc :
         \/ \E k \in Install : Guard(d, p, k) /\ UNCHANGED docs
         \/ ReadsDB(d, p) \/ ReadFails(d, p) \/ LoadsShadow(d, p)
         \/ (DryRun(d, p) \/ Post(d, p) \/ NetworkFailed(d, p)) /\ UNCHANGED docs
         \/ \E subscribed \in SUBSET Channel :
              Receive(d, p, subscribed) /\ UNCHANGED docs
         \/ WritesDB(d, p) \/ SetFails(d, p) \/ SavesShadow(d, p)
         \/ Abort(d, p) /\ UNCHANGED docs

DocSpec == DocInit /\ [][DocNext]_docvars

-----------------------------------------------------------------------------
(* Texts and names keep their types, and so does all of ClientSync. *)
DocTypeOK ==
  /\ TypeOK
  /\ layout \in [Device -> [Install -> Layout]]
  /\ known \in [Device -> SUBSET Channel] /\ \A d \in Device : known[d] \subseteq shadow[d]
  /\ \A d \in Device, p \in Proc :
       /\ local[d][p].names \subseteq Channel
       /\ sync[d][p].pc = "write" => GetSubscriptions(local[d][p].db).on = sync[d][p].cur

(***************************************************************************)
(* nedb.go:4-13, CLAUDE.md's invariant #4: every line and field that is    *)
(* not the subscriptions of the "All Channels" profile is, byte for byte,  *)
(* as FreeTube last wrote it, through any number of syncs; and what is in  *)
(* that field is what the next sync, or FreeTube, reads from it.           *)
(***************************************************************************)
OnlySubscriptionsChange ==
  \A d \in Device, k \in Install :
    LET s == GetSubscriptions(Parse(file[d][k])) IN
    /\ s.on = db[d][k]
    /\ file[d][k] = Fill(layout[d][k], s)

(***************************************************************************)
(* clientsync.go:142-147: a sync keeps the name FreeTube has looked up for *)
(* a channel that stays subscribed, also when the shadow is of a time when *)
(* it had none.                                                            *)
(***************************************************************************)
NamesKept ==
  [][\A d \in Device, k \in Install :
       GetSubscriptions(Parse(file[d][k])).named \cap db'[d][k]
         \subseteq GetSubscriptions(Parse(file'[d][k])).named]_docvars
=============================================================================
