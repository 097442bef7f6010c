-------------------------- MODULE PropagationProofs --------------------------
(***************************************************************************)
(* What holds of the copies of configuration and providers for every set   *)
(* of processes, rows and administrators and however many changes and      *)
(* faults: a stale copy is awaited, and an edit with a precondition        *)
(* replaced what its author had seen.                                      *)
(***************************************************************************)
EXTENDS Propagation, SequenceTheorems, FiniteSetTheorems, TLAPS

-----------------------------------------------------------------------------
(* Types *)

Msg == [origin : Process, domain : Domains, entry : Row \cup {Everything}]

BusOK ==
    /\ publishing \subseteq Process
    /\ listening \subseteq everSubscribed /\ everSubscribed \subseteq Process
    /\ unannounced \in [Process -> SUBSET Domains]
    /\ inbox \in [Process -> Seq(Msg)]

Reading == [row : Row, value : Nat, overtaken : BOOLEAN]

EditOK(e) ==
    /\ \/ e = Idle
       \/ /\ e.op \in {"editing", "asserted", "writing", "committed"}
          /\ e.at \in Process /\ e.row \in Row
    /\ e.op \in {"editing", "asserted", "writing"} =>
          e.what \in {"set", "unset"} /\ e.expected \in Nat \cup {Unchecked}
    /\ e.op \in {"asserted", "writing"} => e.locked \in BOOLEAN
    /\ e.op = "writing" => e.previous \in Nat

Made == [row : Row, what : {"set", "unset"}, old : Nat, expected : Nat \cup {Unchecked}, replaced : Nat]

ConfigOK ==
    /\ stored \in [Row -> Nat]
    /\ history \in Seq(Made)
    /\ cache \in [Process -> [Row -> Int]]
    /\ reading \in [Process -> {NoRead} \cup Reading]
    /\ DOMAIN edit = Admin
    /\ \A a \in Admin : EditOK(edit[a])

\* Whoever waits for a reload waits for one, at its own process.
RegistryOK ==
    /\ table \in Nat
    /\ snapshot \in [Process -> Int]
    /\ reloads \in [Process -> Seq(Manager \cup {Nobody})]
    /\ queried \in [Process -> Int]
    /\ change \in [Manager -> {Resting} \cup [op : {"reloading", "telling"}, at : Process]]
    /\ \A p \in Process : queried[p] # NoResult => reloads[p] # <<>>
    /\ \A p \in Process : \A i \in DOMAIN reloads[p] :
          reloads[p][i] # Nobody => change[reloads[p][i]] = [op |-> "reloading", at |-> p]
    /\ \A p \in Process : \A i, j \in DOMAIN reloads[p] :
          reloads[p][i] # Nobody /\ reloads[p][i] = reloads[p][j] => i = j

\* A transaction that has the row's lock has seen the row as it is, and nobody
\* else has it.
LocksOK ==
    /\ \A a \in Admin : edit[a].op \in {"asserted", "writing"} /\ edit[a].expected \notin {Unchecked, 0} =>
          /\ edit[a].locked /\ stored[edit[a].row] = edit[a].expected
          /\ edit[a].op = "writing" => edit[a].previous = edit[a].expected
    /\ \A a, b \in Admin :
          /\ edit[a].op \in {"asserted", "writing"} /\ edit[a].locked
          /\ edit[b].op \in {"asserted", "writing"} /\ edit[b].locked
          /\ edit[a].row = edit[b].row
          => a = b

-----------------------------------------------------------------------------
(* Sets in some order *)

\* SetToSeq yields every element (announceMissed sends one message to a domain).
LEMMA SetToSeqHasAll ==
    ASSUME NEW S, IsFiniteSet(S)
    PROVE  /\ Cardinality(S) \in Nat
           /\ SetToSeq(S) \in [1..Cardinality(S) -> S]
           /\ \A x \in S : \E i \in 1..Cardinality(S) : SetToSeq(S)[i] = x
<1>1. Cardinality(S) \in Nat /\ ExistsBijection(1..Cardinality(S), S)
  BY FS_CardinalityType
<1>2. PICK n \in Nat : n = Cardinality(S)
  BY <1>1
<1>3. \E f \in [1..n -> S] : IsInjective(f)
  BY <1>1, <1>2 DEF ExistsBijection, Bijection, Injection, IsInjective
<1>4. PICK f \in [1..n -> S] : f = SetToSeq(S) /\ IsInjective(f)
  BY <1>2, <1>3 DEF SetToSeq
<1>5. f \in Injection(1..n, S)
  BY <1>4 DEF Injection
<1>6. Cardinality(1..n) = n
  BY FS_Interval
<1>7. f \in Surjection(1..n, S)
  BY <1>2, <1>5, <1>6, FS_Injection
<1>8. \A x \in S : \E i \in 1..n : f[i] = x
  BY <1>7 DEF Surjection
<1> QED
  BY <1>2, <1>4, <1>8

-----------------------------------------------------------------------------
(* The channel *)

\* What somebody is told stays on its way.
WordKept(p) == \A d, e : WillHear(p, d, e) => WillHear(p, d, e)'

LEMMA AppendedComes ==
    ASSUME BusOK, NEW ms \in Seq(Msg), NEW p \in Process, inbox' = Delivered(ms)
    PROVE  /\ inbox'[p] \in Seq(Msg)
           /\ \A d, e : Coming(p, d, e) => Coming(p, d, e)'
           /\ p \in listening => \A j \in DOMAIN ms : \E i \in DOMAIN inbox'[p] : inbox'[p][i] = ms[j]
<1>1. PICK box \in Seq(Msg) : box = inbox[p]
  BY DEF BusOK
<1>2. PICK after \in Seq(Msg) : /\ after = inbox'[p]
                                /\ after = IF p \in listening THEN box \o ms ELSE box
  <2>1. inbox'[p] = IF p \in listening THEN box \o ms ELSE box
    BY <1>1 DEF Delivered
  <2>2. box \o ms \in Seq(Msg)
    BY ConcatProperties
  <2> QED
    BY <2>1, <2>2
<1>3. \A i \in DOMAIN box : i \in DOMAIN after /\ after[i] = box[i]
  BY <1>2, ConcatProperties
<1>4. p \in listening => \A j \in DOMAIN ms : Len(box) + j \in DOMAIN after /\ after[Len(box) + j] = ms[j]
  BY <1>2, ConcatProperties
<1>5. \A d, e : Coming(p, d, e) => Coming(p, d, e)'
  BY <1>1, <1>2, <1>3 DEF Coming
<1> QED
  BY <1>2, <1>4, <1>5

\* publish, whichever way it goes: everybody else is told or will be, unless not
\* subscribed yet.
LEMMA Published ==
    ASSUME BusOK, NEW q \in Process, NEW domain \in Domains, NEW entry \in Row \cup {Everything},
           Sent(q, domain, entry) \/ Unsent(q, domain) \/ SentUnanswered(q, domain, entry)
    PROVE  /\ BusOK'
           /\ \A p \in Process : WordKept(p)
           /\ \A p \in Process \ {q} :
                 WillHear(p, domain, entry)' \/ (q \in publishing' /\ p \notin everSubscribed)
<1>1. PICK m \in Msg : m = Message(q, domain, entry) /\ m.origin = q /\ m.domain = domain /\ m.entry = entry
  <2>1. /\ Message(q, domain, entry) \in Msg /\ Message(q, domain, entry).origin = q
        /\ Message(q, domain, entry).domain = domain /\ Message(q, domain, entry).entry = entry
    BY DEF Message, Msg
  <2> QED
    BY <2>1
<1>2. <<m>> \in Seq(Msg) /\ 1 \in DOMAIN <<m>> /\ <<m>>[1] = m
  OBVIOUS
<1>3. UNCHANGED <<listening, everSubscribed>>
  BY DEF Sent, Unsent, SentUnanswered
<1>4. CASE inbox' = Delivered(<<m>>)
  <2>1. \A p \in Process : /\ inbox'[p] \in Seq(Msg)
                           /\ \A d, e : Coming(p, d, e) => Coming(p, d, e)'
                           /\ p \in listening => \E i \in DOMAIN inbox'[p] : inbox'[p][i] = m
    BY <1>2, <1>4, AppendedComes
  <2>2. \A p \in Process \ {q} : p \in listening => Coming(p, domain, entry)'
    BY <1>1, <2>1 DEF Coming
  <2>3. /\ publishing' \subseteq publishing /\ unannounced' \in [Process -> SUBSET Domains]
        /\ \A p \in Process : unannounced[p] \subseteq unannounced'[p]
    BY <1>4 DEF Sent, Unsent, SentUnanswered, BusOK
  <2>4. inbox' \in [Process -> Seq(Msg)]
    BY <1>4, <2>1 DEF Delivered
  <2>5. BusOK'
    BY <1>3, <2>3, <2>4 DEF BusOK
  <2>6. \A p \in Process : WordKept(p)
    BY <1>3, <2>1, <2>3 DEF WordKept, WillHear
  <2>7. q \in publishing' \/ domain \in unannounced'[q]
    BY DEF Sent, Unsent, SentUnanswered, BusOK
  <2>8. \A p \in Process \ {q} :
           WillHear(p, domain, entry)' \/ (q \in publishing' /\ p \notin everSubscribed)
    BY <1>3, <2>2, <2>7 DEF WillHear
  <2> QED
    BY <2>5, <2>6, <2>8
<1>5. CASE Unsent(q, domain)
  <2>1. /\ UNCHANGED <<publishing, inbox>> /\ unannounced' \in [Process -> SUBSET Domains]
        /\ \A p \in Process : unannounced[p] \subseteq unannounced'[p]
        /\ domain \in unannounced'[q]
    BY <1>5 DEF Unsent, BusOK
  <2>2. BusOK'
    BY <1>3, <2>1 DEF BusOK
  <2> QED
    BY <1>3, <2>1, <2>2 DEF WordKept, WillHear, Coming
<1> QED
  BY <1>1, <1>4, <1>5 DEF Sent, SentUnanswered

\* announceMissed: everything of each domain, to everybody who is subscribed.
LEMMA Announced ==
    ASSUME BusOK, NEW q \in Process, PublisherReady(q)
    PROVE  /\ BusOK'
           /\ WordKept(q)
           /\ \A p \in Process \ {q} : \A d, e : WillHear(p, d, e) =>
                 WillHear(p, d, e)' \/ (d \in unannounced[q] /\ p \notin everSubscribed)
<1> DEFINE missed == {Message(q, d, Everything) : d \in unannounced[q]}
<1>1. /\ publishing' = publishing \cup {q} /\ inbox' = Delivered(SetToSeq(missed))
      /\ unannounced' = [unannounced EXCEPT ![q] = {}]
      /\ UNCHANGED <<listening, everSubscribed>>
  BY DEF PublisherReady
<1>2. IsFiniteSet(missed) /\ missed \subseteq Msg
  <2>1. IsFiniteSet({Message(q, Config, Everything), Message(q, Providers, Everything)})
    <3>1. IsFiniteSet({Message(q, Config, Everything)} \cup {Message(q, Providers, Everything)})
      BY FS_Singleton, FS_Union
    <3>2. {Message(q, Config, Everything)} \cup {Message(q, Providers, Everything)}
             = {Message(q, Config, Everything), Message(q, Providers, Everything)}
      OBVIOUS
    <3> QED
      BY <3>1, <3>2
  <2>2. missed \subseteq {Message(q, Config, Everything), Message(q, Providers, Everything)}
    BY DEF BusOK, Domains
  <2>3. missed \subseteq Msg
    BY DEF BusOK, Message, Msg
  <2> QED
    BY <2>1, <2>2, <2>3, FS_Subset
<1>3. PICK ms \in Seq(Msg) : /\ ms = SetToSeq(missed)
                             /\ \A m \in missed : \E j \in DOMAIN ms : ms[j] = m
  <2>1. PICK n \in Nat : /\ SetToSeq(missed) \in [1..n -> missed]
                         /\ \A x \in missed : \E i \in 1..n : SetToSeq(missed)[i] = x
    BY <1>2, SetToSeqHasAll
  <2>2. SetToSeq(missed) \in Seq(Msg) /\ DOMAIN SetToSeq(missed) = 1..n
    BY <1>2, <2>1
  <2> QED
    BY <2>1, <2>2
<1>4. \A p \in Process : /\ inbox'[p] \in Seq(Msg)
                         /\ \A d, e : Coming(p, d, e) => Coming(p, d, e)'
                         /\ p \in listening => \A j \in DOMAIN ms : \E i \in DOMAIN inbox'[p] : inbox'[p][i] = ms[j]
  BY <1>1, <1>3, AppendedComes
<1>5. ASSUME NEW p \in Process \ {q}, p \in listening, NEW d \in unannounced[q], NEW e
      PROVE  Coming(p, d, e)'
  <2>1. PICK m \in missed : m = Message(q, d, Everything)
    <3>1. Message(q, d, Everything) \in missed
      OBVIOUS
    <3> QED
      BY <3>1
  <2>2. PICK j \in DOMAIN ms : ms[j] = m
    BY <1>3, <2>1
  <2>3. PICK i \in DOMAIN inbox'[p] : inbox'[p][i] = m
    BY <1>4, <1>5, <2>2
  <2>4. m.origin = q /\ m.domain = d /\ m.entry = Everything
    BY <2>1 DEF Message
  <2> QED
    BY <1>5, <2>3, <2>4 DEF Coming
<1>6. BusOK'
  <2>1. inbox' \in [Process -> Seq(Msg)]
    BY <1>1, <1>4 DEF Delivered
  <2> QED
    BY <1>1, <2>1 DEF BusOK
<1>7. \A p \in Process : p # q => unannounced'[p] = unannounced[p]
  BY <1>1 DEF BusOK
<1>8. WordKept(q)
  BY <1>1, <1>4, <1>7 DEF WordKept, WillHear
<1>9. ASSUME NEW p \in Process \ {q}, NEW d, NEW e, WillHear(p, d, e)
      PROVE  WillHear(p, d, e)' \/ (d \in unannounced[q] /\ p \notin everSubscribed)
  BY <1>1, <1>4, <1>5, <1>7, <1>9 DEF WillHear
<1> QED
  BY <1>6, <1>8, <1>9

\* The oldest message is taken, and was about what it said.
LEMMA Taken ==
    ASSUME BusOK, NEW q \in Process, Received(q)
    PROVE  /\ BusOK' /\ Head(inbox[q]) \in Msg
           /\ \A p \in Process \ {q} : WordKept(p)
           /\ \A d, e : WillHear(q, d, e) =>
                 \/ WillHear(q, d, e)'
                 \/ /\ Head(inbox[q]).origin # q /\ Head(inbox[q]).domain = d
                    /\ Head(inbox[q]).entry \in {e, Everything}
<1>1. PICK box \in Seq(Msg) : box = inbox[q] /\ box # <<>>
  BY DEF BusOK, Received
<1>2. /\ inbox' = [inbox EXCEPT ![q] = Tail(box)]
      /\ UNCHANGED <<publishing, listening, everSubscribed, unannounced>>
  BY <1>1 DEF Received
<1>3. Tail(box) \in Seq(Msg) /\ Head(box) \in Msg /\ Head(box) = box[1]
  BY <1>1
<1>4. \A i \in DOMAIN box : i # 1 => i - 1 \in DOMAIN Tail(box) /\ Tail(box)[i - 1] = box[i]
  BY <1>1
<1>5. BusOK'
  BY <1>2, <1>3 DEF BusOK
<1>6. inbox'[q] = Tail(box) /\ \A p \in Process \ {q} : inbox'[p] = inbox[p]
  BY <1>2 DEF BusOK
<1>7. ASSUME NEW d, NEW e, Coming(q, d, e)
      PROVE  \/ Coming(q, d, e)'
             \/ /\ Head(box).origin # q /\ Head(box).domain = d
                /\ Head(box).entry \in {e, Everything}
  <2>1. PICK i \in DOMAIN box : /\ box[i].origin # q /\ box[i].domain = d
                                /\ box[i].entry \in {e, Everything}
    BY <1>1, <1>7 DEF Coming
  <2>2. CASE i = 1
    BY <1>3, <2>1, <2>2
  <2>3. CASE i # 1
    BY <1>4, <1>6, <2>1, <2>3 DEF Coming
  <2> QED
    BY <2>2, <2>3
<1>8. \A p \in Process \ {q} : WordKept(p)
  BY <1>2, <1>6 DEF WordKept, WillHear, Coming
<1> QED
  BY <1>1, <1>2, <1>3, <1>5, <1>7, <1>8 DEF WillHear

\* A connection that breaks: whoever was subscribed will assume the worst.
LEMMA ConnectionLost ==
    ASSUME BusOK, NEW q \in Process, LosePublisher(q) \/ LoseSubscriber(q)
    PROVE  BusOK' /\ \A p \in Process : WordKept(p)
<1>1. CASE LosePublisher(q)
  BY <1>1 DEF LosePublisher, BusOK, WordKept, WillHear, Coming
<1>2. CASE LoseSubscriber(q)
  <2>1. /\ inbox' = [inbox EXCEPT ![q] = <<>>] /\ listening' = listening \ {q} /\ q \in everSubscribed
        /\ UNCHANGED <<publishing, everSubscribed, unannounced>>
    BY <1>2 DEF LoseSubscriber, BusOK
  <2>2. BusOK'
    BY <2>1 DEF BusOK
  <2>3. \A p \in Process : WordKept(p)
    BY <2>1 DEF BusOK, WordKept, WillHear, Coming
  <2> QED
    BY <2>2, <2>3
<1> QED
  BY <1>1, <1>2

LEMMA Resubscribed ==
    ASSUME BusOK, NEW q \in Process, Subscribed(q)
    PROVE  /\ BusOK'
           /\ \A p \in Process \ {q} : WordKept(p)
           /\ q \notin everSubscribed => WordKept(q)
  BY DEF Subscribed, BusOK, WordKept, WillHear, Coming

\* A process that dies takes with it what it had not announced.
LEMMA BusRestarted ==
    ASSUME BusOK, NEW q \in Process, Restarted(q)
    PROVE  /\ BusOK'
           /\ \A p \in Process \ {q} : \A d, e :
                 WillHear(p, d, e) => WillHear(p, d, e)' \/ d \in unannounced[q]
<1>1. /\ inbox' = [inbox EXCEPT ![q] = <<>>] /\ unannounced' = [unannounced EXCEPT ![q] = {}]
      /\ listening' = listening \ {q} /\ everSubscribed' = everSubscribed \ {q}
      /\ publishing' = publishing \cup {q}
  BY DEF Restarted
<1>2. BusOK'
  BY <1>1 DEF BusOK
<1> QED
  BY <1>1, <1>2 DEF BusOK, WillHear, Coming

-----------------------------------------------------------------------------
(* Rows and those who edit them *)

EditsInv == ConfigOK /\ LocksOK /\ EditsReplaceWhatTheySaw

\* No two requests have the lock of a row.
InTransaction(e) == e.op \in {"asserted", "writing"}

\* What the lock of one request promises it.
Guarded(e) ==
    InTransaction(e) /\ e.expected \notin {Unchecked, 0} =>
        /\ e.locked /\ stored[e.row] = e.expected
        /\ e.op = "writing" => e.previous = e.expected

LEMMA LocksAre ==
    LocksOK <=> /\ \A a \in Admin : Guarded(edit[a])
                /\ \A a, b \in Admin :
                      /\ InTransaction(edit[a]) /\ edit[a].locked
                      /\ InTransaction(edit[b]) /\ edit[b].locked
                      /\ edit[a].row = edit[b].row
                      => a = b
  BY DEF LocksOK, Guarded, InTransaction

\* One request goes on and the rows stay as they are.
LEMMA EditGoesOn ==
    ASSUME EditsInv, NEW a \in Admin, NEW e, Become(a, e), EditOK(e), Guarded(e),
           InTransaction(e) /\ e.locked => RowFree(a, e.row),
           UNCHANGED <<stored, history, cache, reading>>
    PROVE  EditsInv'
<1>1. edit'[a] = e /\ DOMAIN edit' = Admin /\ \A b \in Admin \ {a} : edit'[b] = edit[b]
  BY DEF EditsInv, ConfigOK, Become
<1>2. ConfigOK'
  <2>1. \A b \in Admin : EditOK(edit'[b])
    BY <1>1 DEF EditsInv, ConfigOK
  <2> QED
    BY <1>1, <2>1 DEF EditsInv, ConfigOK, EditOK
<1>3. LocksOK'
  <2>1. \A b \in Admin : Guarded(edit'[b])
    BY <1>1, LocksAre DEF EditsInv
  <2>2. ASSUME NEW b \in Admin, NEW c \in Admin, edit'[b].row = edit'[c].row,
               InTransaction(edit'[b]), edit'[b].locked, InTransaction(edit'[c]), edit'[c].locked
        PROVE  b = c
    <3>1. CASE b # a /\ c # a
      BY <1>1, <2>2, <3>1, LocksAre DEF EditsInv
    <3>2. CASE b = a /\ c # a
      BY <1>1, <2>2, <3>2 DEF RowFree, InTransaction
    <3>3. CASE b # a /\ c = a
      BY <1>1, <2>2, <3>3 DEF RowFree, InTransaction
    <3> QED
      BY <3>1, <3>2, <3>3
  <2> QED
    BY <2>1, <2>2 DEF LocksOK, Guarded, InTransaction
<1>4. EditsReplaceWhatTheySaw'
  BY DEF EditsInv, EditsReplaceWhatTheySaw
<1> QED
  BY <1>2, <1>3, <1>4 DEF EditsInv

\* The copies change and nothing else.
LEMMA CopiesChange ==
    ASSUME EditsInv, UNCHANGED <<stored, history, edit>>,
           cache' \in [Process -> [Row -> Int]], reading' \in [Process -> {NoRead} \cup Reading]
    PROVE  EditsInv'
  BY DEF EditsInv, ConfigOK, LocksOK, EditOK, EditsReplaceWhatTheySaw

LEMMA QueryKeeps ==
    ASSUME EditsInv, NEW p \in Process, NEW r \in Row, Query(p, r)
    PROVE  EditsInv'
<1>1. [row |-> r, value |-> stored[r], overtaken |-> FALSE] \in Reading
  BY DEF EditsInv, ConfigOK, Reading
<1>2. reading' \in [Process -> {NoRead} \cup Reading]
  BY <1>1 DEF Query, EditsInv, ConfigOK
<1> QED
  BY <1>2, CopiesChange DEF Query, EditsInv, ConfigOK

LEMMA RememberKeeps ==
    ASSUME EditsInv, NEW p \in Process, Remember(p)
    PROVE  EditsInv'
<1>1. reading[p] \in Reading
  BY DEF Remember, EditsInv, ConfigOK
<1>2. reading' \in [Process -> {NoRead} \cup Reading]
  BY DEF Remember, EditsInv, ConfigOK
<1>3. reading[p].row \in Row /\ reading[p].value \in Int
  BY <1>1 DEF Reading
<1>4. cache' \in [Process -> [Row -> Int]]
  BY <1>3 DEF Remember, EditsInv, ConfigOK
<1> QED
  BY <1>2, <1>4, CopiesChange DEF Remember

LEMMA InvalidateTypes ==
    ASSUME ConfigOK, NEW p \in Process, NEW rows, Invalidate(p, rows)
    PROVE  /\ cache' \in [Process -> [Row -> Int]]
           /\ reading' \in [Process -> {NoRead} \cup Reading]
<1>1. cache' \in [Process -> [Row -> Int]]
  BY DEF Invalidate, Dropped, ConfigOK, NotCached
<1>2. CASE reading[p] = NoRead
  BY <1>1, <1>2 DEF Invalidate, Overtaken, ConfigOK
<1>3. CASE reading[p] \in Reading /\ reading[p] # NoRead
  <2>1. [reading[p] EXCEPT !.overtaken = TRUE] \in Reading
    BY <1>3 DEF Reading
  <2> QED
    BY <1>1, <1>3, <2>1 DEF Invalidate, Overtaken, ConfigOK
<1> QED
  BY <1>2, <1>3 DEF ConfigOK

LEMMA SubmitKeeps ==
    ASSUME EditsInv, NEW a \in Admin, NEW p \in Process, NEW row \in Row, NEW what \in {"set", "unset"},
           NEW expected, Submit(a, p, row, what, expected)
    PROVE  EditsInv'
<1>1. PICK e : e = [op |-> "editing", at |-> p, row |-> row, what |-> what, expected |-> expected]
  OBVIOUS
<1>2. expected \in Nat \cup {Unchecked}
  BY DEF Submit, EditsInv, ConfigOK
<1>3. EditOK(e) /\ ~InTransaction(e)
  BY <1>1, <1>2 DEF EditOK, InTransaction
<1>4. Become(a, e) /\ UNCHANGED <<stored, history, cache, reading>>
  BY <1>1 DEF Submit
<1> QED
  BY <1>3, <1>4, EditGoesOn DEF Guarded

\* FOR UPDATE and the comparison.
LEMMA AssertKeeps ==
    ASSUME EditsInv, NEW a \in Admin, AssertNotStale(a)
    PROVE  EditsInv'
<1>1. PICK old : old = edit[a]
  OBVIOUS
<1>2. /\ old.op = "editing" /\ old.at \in Process /\ old.row \in Row /\ old.what \in {"set", "unset"}
      /\ old.expected \in Nat \cup {Unchecked}
  BY <1>1 DEF EditsInv, ConfigOK, EditOK, AssertNotStale, Idle
<1>3. PICK locks \in BOOLEAN : locks <=> old.expected # Unchecked /\ stored[old.row] # 0
  OBVIOUS
<1>4. PICK e : e = [op |-> "asserted", locked |-> locks, at |-> old.at, row |-> old.row, what |-> old.what,
                    expected |-> old.expected]
  OBVIOUS
<1>5. /\ old.expected \in {Unchecked, stored[old.row]}
      /\ locks => RowFree(a, old.row)
      /\ Become(a, e) /\ UNCHANGED <<stored, history, cache, reading>>
  <2>1. locks = (old.expected # Unchecked /\ stored[old.row] # 0)
    BY <1>3
  <2> QED
    BY <1>1, <1>4, <2>1 DEF AssertNotStale
<1>6. EditOK(e)
  BY <1>2, <1>4 DEF EditOK
<1>7. Guarded(e)
  BY <1>3, <1>4, <1>5 DEF Guarded
<1>8. e.locked => RowFree(a, e.row)
  BY <1>4, <1>5
<1> QED
  BY <1>5, <1>6, <1>7, <1>8, EditGoesOn

LEMMA RefuseKeeps ==
    ASSUME EditsInv, NEW a \in Admin, Refuse(a)
    PROVE  EditsInv'
<1>1. EditOK(Idle) /\ ~InTransaction(Idle)
  BY DEF EditOK, InTransaction, Idle
<1>2. Become(a, Idle) /\ UNCHANGED <<stored, history, cache, reading>>
  BY DEF Refuse
<1> QED
  BY <1>1, <1>2, EditGoesOn DEF Guarded

LEMMA ReadPreviousKeeps ==
    ASSUME EditsInv, NEW a \in Admin, ReadPrevious(a)
    PROVE  EditsInv'
<1>1. PICK old : old = edit[a]
  OBVIOUS
<1>2. /\ old.op = "asserted" /\ old.at \in Process /\ old.row \in Row /\ old.what \in {"set", "unset"}
      /\ old.expected \in Nat \cup {Unchecked} /\ old.locked \in BOOLEAN
  BY <1>1 DEF EditsInv, ConfigOK, EditOK, ReadPrevious, Idle
<1>3. PICK e : e = [op |-> "writing", locked |-> old.locked, at |-> old.at, row |-> old.row, what |-> old.what,
                    expected |-> old.expected, previous |-> stored[old.row]]
  OBVIOUS
<1>4. Become(a, e) /\ UNCHANGED <<stored, history, cache, reading>>
  BY <1>1, <1>3 DEF ReadPrevious
<1>5. stored[old.row] \in Nat
  BY <1>2 DEF EditsInv, ConfigOK
<1>6. EditOK(e)
  BY <1>2, <1>3, <1>5 DEF EditOK
<1>7. Guarded(e)
  BY <1>1, <1>2, <1>3, LocksAre DEF Guarded, InTransaction, EditsInv
<1>8. old.locked => RowFree(a, old.row)
  BY <1>1, <1>2 DEF RowFree, EditsInv, LocksOK
<1>9. e.locked => RowFree(a, e.row)
  BY <1>3, <1>8
<1> QED
  BY <1>4, <1>6, <1>7, <1>9, EditGoesOn

\* A row that is written has no lock of anybody else's.
LEMMA WriteKeeps ==
    ASSUME EditsInv, NEW a \in Admin, Write(a)
    PROVE  EditsInv'
<1>1. PICK e : e = edit[a]
  OBVIOUS
<1>2. /\ e.op = "writing" /\ e.at \in Process /\ e.row \in Row /\ e.what \in {"set", "unset"}
      /\ e.expected \in Nat \cup {Unchecked} /\ e.previous \in Nat
      /\ RowFree(a, e.row) /\ UNCHANGED <<cache, reading>>
  BY <1>1 DEF EditsInv, ConfigOK, EditOK, Write, Idle
<1>3. PICK done : /\ done = [op |-> "committed", at |-> e.at, row |-> e.row]
                  /\ EditOK(done) /\ ~InTransaction(done)
  <2>1. PICK done : done = [op |-> "committed", at |-> e.at, row |-> e.row]
    OBVIOUS
  <2>2. done.op = "committed" /\ done.at \in Process /\ done.row \in Row
    BY <1>2, <2>1
  <2> QED
    BY <2>1, <2>2 DEF EditOK, InTransaction
<1>4. edit'[a] = done /\ DOMAIN edit' = Admin /\ \A b \in Admin \ {a} : edit'[b] = edit[b]
  BY <1>1, <1>3 DEF EditsInv, ConfigOK, Become, Write
<1>5. Len(history) + 1 \in Nat /\ stored[e.row] \in Nat
  BY <1>2 DEF EditsInv, ConfigOK
<1>6. /\ stored' \in [Row -> Nat]
      /\ \A r \in Row \ {e.row} : stored'[r] = stored[r]
  BY <1>1, <1>2, <1>5 DEF Write, EditsInv, ConfigOK
<1>7. PICK h \in Made : /\ history' = Append(history, h) /\ h.expected = e.expected
                        /\ h.old = e.previous /\ h.replaced = stored[e.row]
  <2>1. [row |-> e.row, what |-> e.what, old |-> e.previous, expected |-> e.expected,
         replaced |-> stored[e.row]] \in Made
    BY <1>2, <1>5 DEF Made
  <2> QED
    BY <1>1, <2>1 DEF Write
<1>8. history' \in Seq(Made)
  BY <1>7 DEF EditsInv, ConfigOK
<1>9. ConfigOK'
  <2>1. \A b \in Admin : EditOK(edit'[b])
    BY <1>3, <1>4 DEF EditsInv, ConfigOK
  <2> QED
    BY <1>2, <1>4, <1>6, <1>8, <2>1 DEF EditsInv, ConfigOK, EditOK
<1>10. LocksOK'
  <2>1. ASSUME NEW b \in Admin, InTransaction(edit'[b]), edit'[b].expected \notin {Unchecked, 0}
        PROVE  /\ edit'[b].locked /\ stored'[edit'[b].row] = edit'[b].expected
               /\ edit'[b].op = "writing" => edit'[b].previous = edit'[b].expected
    <3>1. b # a /\ edit'[b] = edit[b]
      BY <1>3, <1>4, <2>1
    <3>2. /\ edit[b].locked /\ stored[edit[b].row] = edit[b].expected
          /\ edit[b].op = "writing" => edit[b].previous = edit[b].expected
      BY <2>1, <3>1, LocksAre DEF Guarded, EditsInv
    <3>3. edit[b].row \in Row /\ edit[b].row # e.row
      BY <1>2, <2>1, <3>1, <3>2 DEF RowFree, InTransaction, EditsInv, ConfigOK, EditOK, Idle
    <3> QED
      BY <1>6, <3>1, <3>2, <3>3
  <2>2. \A b, c \in Admin :
           /\ InTransaction(edit'[b]) /\ edit'[b].locked
           /\ InTransaction(edit'[c]) /\ edit'[c].locked
           /\ edit'[b].row = edit'[c].row
           => b = c
    BY <1>3, <1>4, LocksAre DEF EditsInv
  <2> QED
    BY <2>1, <2>2 DEF LocksOK, InTransaction
<1>11. EditsReplaceWhatTheySaw'
  <2>1. ASSUME NEW i \in DOMAIN history', history'[i].expected \notin {Unchecked, 0}
        PROVE  history'[i].replaced = history'[i].expected /\ history'[i].old = history'[i].expected
    <3>1. CASE i \in DOMAIN history
      BY <1>7, <2>1, <3>1 DEF EditsInv, ConfigOK, EditsReplaceWhatTheySaw
    <3>2. CASE i \notin DOMAIN history
      <4>1. history'[i] = h
        BY <1>7, <2>1, <3>2 DEF EditsInv, ConfigOK
      <4> QED
        BY <1>1, <1>2, <1>7, <2>1, <4>1, LocksAre DEF EditsInv, Guarded, InTransaction
    <3> QED
      BY <3>1, <3>2
  <2> QED
    BY <2>1 DEF EditsReplaceWhatTheySaw
<1> QED
  BY <1>9, <1>10, <1>11 DEF EditsInv

\* The broadcast goes out and the request is over.
LEMMA TellKeeps ==
    ASSUME EditsInv, NEW a \in Admin, InvalidateAndBroadcast(a)
    PROVE  EditsInv'
<1>1. PICK e : e = edit[a]
  OBVIOUS
<1>2. e.at \in Process /\ e.row \in Row
  BY <1>1 DEF EditsInv, ConfigOK, EditOK, InvalidateAndBroadcast, Idle
<1>3. /\ cache' \in [Process -> [Row -> Int]]
      /\ reading' \in [Process -> {NoRead} \cup Reading]
  BY <1>1, <1>2, InvalidateTypes DEF InvalidateAndBroadcast, EditsInv
<1>4. edit'[a] = Idle /\ DOMAIN edit' = Admin /\ \A b \in Admin \ {a} : edit'[b] = edit[b]
  BY DEF EditsInv, ConfigOK, Become, InvalidateAndBroadcast
<1>5. EditOK(Idle) /\ ~InTransaction(Idle)
  BY DEF EditOK, InTransaction, Idle
<1>6. UNCHANGED <<stored, history>>
  BY DEF InvalidateAndBroadcast
<1>7. \A b \in Admin : EditOK(edit'[b])
  BY <1>4, <1>5 DEF EditsInv, ConfigOK
<1>8. ConfigOK'
  BY <1>3, <1>4, <1>6, <1>7 DEF EditsInv, ConfigOK, EditOK
<1>9. LocksOK'
  BY <1>4, <1>5, <1>6 DEF EditsInv, LocksOK, InTransaction
<1> QED
  BY <1>6, <1>8, <1>9 DEF EditsInv, EditsReplaceWhatTheySaw

LEMMA ConfigRestartedKeeps ==
    ASSUME EditsInv, NEW p \in Process, ConfigRestarted(p)
    PROVE  EditsInv'
<1>1. cache' \in [Process -> [Row -> Int]] /\ reading' \in [Process -> {NoRead} \cup Reading]
  BY DEF ConfigRestarted, Dropped, EditsInv, ConfigOK, NotCached
<1>2. DOMAIN edit' = Admin /\ \A b \in Admin : edit'[b] \in {Idle, edit[b]}
  BY DEF ConfigRestarted
<1>3. EditOK(Idle) /\ ~InTransaction(Idle)
  BY DEF EditOK, InTransaction, Idle
<1>4. UNCHANGED <<stored, history>>
  BY DEF ConfigRestarted
<1>5. \A b \in Admin : EditOK(edit'[b])
  BY <1>2, <1>3 DEF EditsInv, ConfigOK
<1>6. ConfigOK'
  BY <1>1, <1>2, <1>4, <1>5 DEF EditsInv, ConfigOK, EditOK
<1>7. \A b \in Admin : InTransaction(edit'[b]) => edit'[b] = edit[b]
  BY <1>2, <1>3
<1>8. LocksOK'
  BY <1>4, <1>7 DEF EditsInv, LocksOK, InTransaction
<1> QED
  BY <1>4, <1>6, <1>8 DEF EditsInv, EditsReplaceWhatTheySaw

LEMMA DispatchKeeps ==
    ASSUME EditsInv, NEW p \in Process, NEW rows, NEW providers, Dispatch(p, rows, providers)
    PROVE  EditsInv'
<1>1. cache' \in [Process -> [Row -> Int]] /\ reading' \in [Process -> {NoRead} \cup Reading]
  BY InvalidateTypes DEF Dispatch, EditsInv, ConfigOK
<1> QED
  BY <1>1, CopiesChange DEF Dispatch

LEMMA HandlersDispatch ==
    ASSUME NEW p \in Process, Receive(p) \/ Establish(p)
    PROVE  \E rows, providers : Dispatch(p, rows, providers)
  BY DEF Receive, Establish, DispatchEverything

LEMMA EditsUntouched ==
    ASSUME EditsInv, UNCHANGED configVars
    PROVE  EditsInv'
  BY DEF configVars, EditsInv, ConfigOK, LocksOK, EditOK, EditsReplaceWhatTheySaw

LEMMA EditsInitially ==
    ASSUME Init PROVE EditsInv
<1>1. PICK n \in Nat : /\ n = Cardinality(Row)
                       /\ SetToSeq(Row) \in [1..n -> Row]
                       /\ \A r \in Row : \E i \in 1..n : SetToSeq(Row)[i] = r
  BY ConfigurationAssumption, SetToSeqHasAll
<1>2. \A r \in Row : FirstSet(r) \in Made /\ FirstSet(r).row = r /\ FirstSet(r).expected = 0
  BY DEF FirstSet, Made
<1>3. history = [i \in 1..n |-> FirstSet(SetToSeq(Row)[i])]
  BY <1>1 DEF Init, ConfigInit
<1>4. history \in Seq(Made) /\ DOMAIN history = 1..n
  BY <1>1, <1>2, <1>3
<1>5. \A r \in Row : \E i \in DOMAIN history : history[i].row = r
  BY <1>1, <1>2, <1>3
<1>6. stored \in [Row -> Nat]
  <2>1. \A r \in Row : (CHOOSE i \in DOMAIN history : history[i].row = r) \in Nat
    BY <1>4, <1>5
  <2> QED
    BY <2>1 DEF Init, ConfigInit
<1>7. ConfigOK
  BY <1>4, <1>6 DEF Init, ConfigInit, ConfigOK, EditOK, Idle, NotCached
<1>8. LocksOK
  BY DEF Init, ConfigInit, LocksOK, Idle
<1>9. EditsReplaceWhatTheySaw
  BY <1>1, <1>2, <1>3 DEF EditsReplaceWhatTheySaw
<1> QED
  BY <1>7, <1>8, <1>9 DEF EditsInv

LEMMA EditsStep ==
    ASSUME EditsInv, [Next]_vars
    PROVE  EditsInv'
<1>1. CASE Work
  <2>1. CASE \E p \in Process, r \in Row : Query(p, r)
    BY <2>1, QueryKeeps
  <2>2. CASE \E p \in Process : Remember(p)
    BY <2>2, RememberKeeps
  <2>3. CASE \E a \in Admin, p \in Api, r \in Row, what \in {"set", "unset"},
                expected \in {Unchecked} \cup 0..MaxWrites : MayStart /\ Submit(a, p, r, what, expected)
    BY <2>3, SubmitKeeps, PropagationAssumption
  <2>4. CASE \E a \in Admin : Editing(a)
    BY <2>4, AssertKeeps, RefuseKeeps, ReadPreviousKeeps, WriteKeeps DEF Editing
  <2> QED
    BY <1>1, <2>1, <2>2, <2>3, <2>4 DEF Work
<1>2. CASE \E a \in Admin : Tell(a)
  BY <1>2, TellKeeps DEF Tell
<1>3. CASE \E p \in Process : Receive(p) \/ Establish(p)
  BY <1>3, HandlersDispatch, DispatchKeeps
<1>4. CASE \E p \in Process : Restart(p)
  BY <1>4, ConfigRestartedKeeps DEF Restart
<1>5. CASE Manage \/ Disconnect \/ \E m \in Manager : TellProviders(m)
  BY <1>5, EditsUntouched DEF Manage, Disconnect, TellProviders
<1>6. CASE \E p \in Process : Requery(p) \/ ReloadFails(p) \/ AnnounceMissed(p)
  BY <1>6, EditsUntouched DEF Requery, ReloadFails, AnnounceMissed
<1>7. CASE UNCHANGED vars
  BY <1>7, EditsUntouched DEF vars
<1> QED
  BY <1>1, <1>2, <1>3, <1>4, <1>5, <1>6, <1>7 DEF Next

\* A change made with a precondition replaced the very row its author had seen,
\* whatever requests, processes and crashes there are: FOR UPDATE is held until
\* the commit (assertNotStale).
THEOREM EditsSound == Spec => []EditsReplaceWhatTheySaw
<1>1. Init => EditsInv
  BY EditsInitially
<1>2. EditsInv /\ [Next]_vars => EditsInv'
  BY EditsStep
<1>3. EditsInv => EditsReplaceWhatTheySaw
  BY DEF EditsInv
<1> QED
  BY <1>1, <1>2, <1>3, PTL DEF Spec

-----------------------------------------------------------------------------
(* The registry *)

\* Whoever is in the chain waits at its process, and once.
WaitsIn(chain, state, p) ==
    \A i \in DOMAIN chain : chain[i] # Nobody =>
        chain[i] \in Manager /\ state[chain[i]] = [op |-> "reloading", at |-> p]

Once(chain) == \A i, j \in DOMAIN chain : chain[i] # Nobody /\ chain[i] = chain[j] => i = j

ChangeStates == {Resting} \cup [op : {"reloading", "telling"}, at : Process]

\* The parts of RegistryOK that are not about who waits.
TablesOK ==
    /\ table \in Nat
    /\ snapshot \in [Process -> Int]
    /\ reloads \in [Process -> Seq(Manager \cup {Nobody})]
    /\ queried \in [Process -> Int]
    /\ change \in [Manager -> ChangeStates]
    /\ \A p \in Process : queried[p] # NoResult => reloads[p] # <<>>

LEMMA WhoWaits ==
    ASSUME RegistryOK, NEW p \in Process
    PROVE  WaitsIn(reloads[p], change, p) /\ Once(reloads[p])
<1>1. PICK chain \in Seq(Manager \cup {Nobody}) : chain = reloads[p]
  BY DEF RegistryOK
<1>2. \A i \in DOMAIN chain : chain[i] # Nobody => chain[i] \in Manager
  BY <1>1
<1> QED
  BY <1>1, <1>2 DEF RegistryOK, WaitsIn, Once

\* A process has one more reload to do.
LEMMA QueuedIs ==
    ASSUME RegistryOK, NEW p \in Process, NEW whom \in Manager \cup {Nobody}, reloads' = Queued(p, whom)
    PROVE  /\ reloads' \in [Process -> Seq(Manager \cup {Nobody})]
           /\ \A q \in Process \ {p} : reloads'[q] = reloads[q]
           /\ Len(reloads'[p]) = Len(reloads[p]) + 1 /\ reloads'[p] # <<>>
           /\ DOMAIN reloads'[p] = DOMAIN reloads[p] \cup {Len(reloads[p]) + 1}
           /\ \A i \in DOMAIN reloads[p] : reloads'[p][i] = reloads[p][i]
           /\ reloads'[p][Len(reloads[p]) + 1] = whom
           /\ Len(reloads[p]) \in Nat /\ Len(reloads[p]) + 1 \notin DOMAIN reloads[p]
<1>1. PICK chain \in Seq(Manager \cup {Nobody}) : chain = reloads[p]
  BY DEF RegistryOK
<1>2. reloads' = [reloads EXCEPT ![p] = Append(chain, whom)]
  BY <1>1 DEF Queued
<1>3. /\ reloads'[p] = Append(chain, whom)
      /\ reloads' \in [Process -> Seq(Manager \cup {Nobody})]
      /\ \A q \in Process \ {p} : reloads'[q] = reloads[q]
  BY <1>2 DEF RegistryOK
<1>4. /\ Len(Append(chain, whom)) = Len(chain) + 1 /\ Append(chain, whom) # <<>>
      /\ DOMAIN Append(chain, whom) = DOMAIN chain \cup {Len(chain) + 1}
      /\ \A i \in DOMAIN chain : Append(chain, whom)[i] = chain[i]
      /\ Append(chain, whom)[Len(chain) + 1] = whom
      /\ Len(chain) \in Nat /\ Len(chain) + 1 \notin DOMAIN chain
  OBVIOUS
<1> QED
  BY <1>1, <1>3, <1>4

\* The first reload of a process is done with.
LEMMA TakenFromChain ==
    ASSUME RegistryOK, NEW p \in Process, reloads[p] # <<>>,
           reloads' = [reloads EXCEPT ![p] = Tail(@)]
    PROVE  /\ reloads' \in [Process -> Seq(Manager \cup {Nobody})]
           /\ \A q \in Process \ {p} : reloads'[q] = reloads[q]
           /\ Head(reloads[p]) \in Manager \cup {Nobody}
           /\ Head(reloads[p]) # Nobody => change[Head(reloads[p])] = [op |-> "reloading", at |-> p]
           /\ Len(reloads'[p]) = Len(reloads[p]) - 1 /\ Len(reloads[p]) \in Nat
           /\ \A i \in DOMAIN reloads'[p] :
                 /\ i + 1 \in DOMAIN reloads[p] /\ reloads'[p][i] = reloads[p][i + 1]
                 /\ i \in Nat
                 /\ reloads'[p][i] # Nobody => reloads'[p][i] # Head(reloads[p])
<1>1. PICK chain \in Seq(Manager \cup {Nobody}) : chain = reloads[p] /\ chain # <<>>
  BY DEF RegistryOK
<1>2. /\ Tail(chain) \in Seq(Manager \cup {Nobody}) /\ Len(Tail(chain)) = Len(chain) - 1
      /\ Head(chain) = chain[1] /\ 1 \in DOMAIN chain /\ Head(chain) \in Manager \cup {Nobody}
      /\ \A i \in DOMAIN Tail(chain) :
            i \in Nat /\ i + 1 \in DOMAIN chain /\ Tail(chain)[i] = chain[i + 1] /\ i + 1 # 1
  BY <1>1
<1>3. reloads'[p] = Tail(chain) /\ \A q \in Process \ {p} : reloads'[q] = reloads[q]
  BY <1>1 DEF RegistryOK
<1>4. reloads' \in [Process -> Seq(Manager \cup {Nobody})]
  BY <1>1, <1>2 DEF RegistryOK
<1>5. WaitsIn(chain, change, p) /\ Once(chain)
  BY <1>1, WhoWaits
<1>6. \A i \in DOMAIN Tail(chain) : Tail(chain)[i] # Nobody => Tail(chain)[i] # Head(chain)
  BY <1>2, <1>5 DEF Once
<1>7. Head(chain) # Nobody => change[Head(chain)] = [op |-> "reloading", at |-> p]
  BY <1>2, <1>5 DEF WaitsIn
<1>8. Len(chain) \in Nat
  BY <1>1
<1> QED
  BY <1>1, <1>2, <1>3, <1>4, <1>6, <1>7, <1>8

LEMMA CommitKeeps ==
    ASSUME RegistryOK, NEW m \in Manager, NEW p \in Process, CommitChange(m, p)
    PROVE  RegistryOK'
<1>1. /\ change[m] = Resting /\ table' = table + 1
      /\ change' = [change EXCEPT ![m] = [op |-> "reloading", at |-> p]]
      /\ reloads' = Queued(p, m) /\ UNCHANGED <<snapshot, queried>>
  BY DEF CommitChange
<1>2. /\ reloads' \in [Process -> Seq(Manager \cup {Nobody})]
      /\ \A q \in Process \ {p} : reloads'[q] = reloads[q]
      /\ reloads'[p] # <<>>
      /\ DOMAIN reloads'[p] = DOMAIN reloads[p] \cup {Len(reloads[p]) + 1}
      /\ \A i \in DOMAIN reloads[p] : reloads'[p][i] = reloads[p][i]
      /\ reloads'[p][Len(reloads[p]) + 1] = m
      /\ Len(reloads[p]) + 1 \notin DOMAIN reloads[p]
  BY <1>1, QueuedIs
<1>3. PICK state \in ChangeStates : state = [op |-> "reloading", at |-> p]
  <2>1. [op |-> "reloading", at |-> p] \in ChangeStates
    BY DEF ChangeStates
  <2> QED
    BY <2>1
<1>4. change'[m] = state /\ \A n \in Manager \ {m} : change'[n] = change[n]
  BY <1>1, <1>3 DEF RegistryOK
<1>5. \A q \in Process : \A i \in DOMAIN reloads[q] : reloads[q][i] # m
  <2>1. m # Nobody
    BY RegistryAssumption
  <2>2. \A q : change[m] # [op |-> "reloading", at |-> q]
    <3>1. change[m].op = "idle"
      BY <1>1 DEF Resting
    <3>2. \A q : [op |-> "reloading", at |-> q].op = "reloading"
      OBVIOUS
    <3> QED
      BY <3>1, <3>2
  <2>3. ASSUME NEW q \in Process, NEW i \in DOMAIN reloads[q], reloads[q][i] = m
        PROVE  FALSE
    <3>1. WaitsIn(reloads[q], change, q)
      BY WhoWaits
    <3>2. change[m] = [op |-> "reloading", at |-> q]
      BY <2>1, <2>3, <3>1 DEF WaitsIn
    <3> QED
      BY <2>2, <3>2
  <2> QED
    BY <2>3
<1>6. TablesOK'
  <2>1. change' \in [Manager -> ChangeStates]
    BY <1>1, <1>3 DEF RegistryOK, ChangeStates
  <2>2. \A q \in Process : queried'[q] # NoResult => reloads'[q] # <<>>
    BY <1>1, <1>2 DEF RegistryOK
  <2> QED
    BY <1>1, <1>2, <2>1, <2>2 DEF RegistryOK, TablesOK
<1>7. \A q \in Process : WaitsIn(reloads[q], change', q)
  <2>1. \A q \in Process : WaitsIn(reloads[q], change, q)
    BY WhoWaits
  <2> QED
    BY <1>4, <1>5, <2>1 DEF WaitsIn
<1>8. \A q \in Process : WaitsIn(reloads'[q], change', q)
  BY <1>2, <1>3, <1>4, <1>7 DEF WaitsIn
<1>9. \A q \in Process : Once(reloads'[q])
  BY <1>2, <1>5, WhoWaits DEF Once
<1> QED
  BY <1>6, <1>8, <1>9 DEF RegistryOK, TablesOK, WaitsIn, Once, ChangeStates

\* The handler adds a reload nobody waits for.
LEMMA ReloadKeeps ==
    ASSUME RegistryOK, NEW p \in Process, Reload(p)
    PROVE  RegistryOK'
<1>1. reloads' = Queued(p, Nobody) /\ UNCHANGED <<table, snapshot, queried, change>>
  BY DEF Reload
<1>2. /\ reloads' \in [Process -> Seq(Manager \cup {Nobody})]
      /\ \A q \in Process \ {p} : reloads'[q] = reloads[q]
      /\ reloads'[p] # <<>>
      /\ DOMAIN reloads'[p] = DOMAIN reloads[p] \cup {Len(reloads[p]) + 1}
      /\ \A i \in DOMAIN reloads[p] : reloads'[p][i] = reloads[p][i]
      /\ reloads'[p][Len(reloads[p]) + 1] = Nobody
  BY <1>1, QueuedIs
<1>3. \A q \in Process : queried'[q] # NoResult => reloads'[q] # <<>>
  BY <1>1, <1>2 DEF RegistryOK
<1>4. \A q \in Process : WaitsIn(reloads'[q], change, q)
  BY <1>2, WhoWaits DEF WaitsIn
<1>5. \A q \in Process : Once(reloads'[q])
  BY <1>2, WhoWaits DEF Once
<1>6. TablesOK'
  BY <1>1, <1>2, <1>3 DEF RegistryOK, TablesOK, ChangeStates
<1> QED
  BY <1>1, <1>4, <1>5, <1>6 DEF RegistryOK, TablesOK, WaitsIn, Once, ChangeStates

\* The first reload ends, and whoever waited for it goes on or gives up.
LEMMA ChainGoesOn ==
    ASSUME RegistryOK, NEW p \in Process, reloads[p] # <<>>, NEW state \in ChangeStates,
           reloads' = [reloads EXCEPT ![p] = Tail(@)],
           change' = IF Head(reloads[p]) = Nobody THEN change
                     ELSE [change EXCEPT ![Head(reloads[p])] = state],
           snapshot' \in [Process -> Int], queried' \in [Process -> Int], queried'[p] = NoResult,
           \A q \in Process \ {p} : queried'[q] = queried[q],
           UNCHANGED table
    PROVE  RegistryOK'
<1>1. /\ reloads' \in [Process -> Seq(Manager \cup {Nobody})]
      /\ \A q \in Process \ {p} : reloads'[q] = reloads[q]
      /\ Head(reloads[p]) \in Manager \cup {Nobody}
      /\ Head(reloads[p]) # Nobody => change[Head(reloads[p])] = [op |-> "reloading", at |-> p]
      /\ \A i \in DOMAIN reloads'[p] :
            /\ i + 1 \in DOMAIN reloads[p] /\ reloads'[p][i] = reloads[p][i + 1]
            /\ i \in Nat
            /\ reloads'[p][i] # Nobody => reloads'[p][i] # Head(reloads[p])
  BY TakenFromChain
<1>2. change' \in [Manager -> ChangeStates]
  BY <1>1 DEF RegistryOK, ChangeStates
<1>3. \A n \in Manager : n # Head(reloads[p]) => change'[n] = change[n]
  BY DEF RegistryOK
<1>4. \A q \in Process : queried'[q] # NoResult => reloads'[q] # <<>>
  BY <1>1 DEF RegistryOK
<1>5. WaitsIn(reloads'[p], change', p) /\ Once(reloads'[p])
  <2>1. WaitsIn(reloads'[p], change, p)
    BY <1>1, WhoWaits DEF WaitsIn
  <2>2. WaitsIn(reloads'[p], change', p)
    BY <1>1, <1>3, <2>1 DEF WaitsIn
  <2>3. ASSUME NEW i \in DOMAIN reloads'[p], NEW j \in DOMAIN reloads'[p],
               reloads'[p][i] # Nobody, reloads'[p][i] = reloads'[p][j]
        PROVE  i = j
    <3>1. i + 1 = j + 1
      BY <1>1, <2>3, WhoWaits DEF Once
    <3> QED
      BY <1>1, <3>1
  <2> QED
    BY <2>2, <2>3 DEF Once
<1>6. ASSUME NEW q \in Process \ {p}
      PROVE  WaitsIn(reloads'[q], change', q) /\ Once(reloads'[q])
  <2>1. WaitsIn(reloads[q], change, q) /\ Once(reloads[q])
    BY WhoWaits
  <2>2. [op |-> "reloading", at |-> p] # [op |-> "reloading", at |-> q]
    <3>1. [op |-> "reloading", at |-> p].at = p /\ [op |-> "reloading", at |-> q].at = q
      OBVIOUS
    <3> QED
      BY <3>1
  <2>3. \A i \in DOMAIN reloads[q] : reloads[q][i] # Nobody => reloads[q][i] # Head(reloads[p])
    BY <1>1, <2>1, <2>2 DEF WaitsIn
  <2>4. WaitsIn(reloads[q], change', q)
    BY <1>3, <2>1, <2>3 DEF WaitsIn
  <2> QED
    BY <1>1, <2>1, <2>4
<1>7. TablesOK'
  BY <1>1, <1>2, <1>4 DEF RegistryOK, TablesOK
<1>8. \A q \in Process : WaitsIn(reloads'[q], change', q) /\ Once(reloads'[q])
  BY <1>5, <1>6
<1> QED
  BY <1>7, <1>8, SMTT(40) DEF RegistryOK, TablesOK, WaitsIn, Once, ChangeStates

LEMMA LoadKeeps ==
    ASSUME RegistryOK, NEW p \in Process, Load(p)
    PROVE  RegistryOK'
<1>1. PICK state \in ChangeStates : state = [op |-> "telling", at |-> p]
  <2>1. [op |-> "telling", at |-> p] \in ChangeStates
    BY DEF ChangeStates
  <2> QED
    BY <2>1
<1>2. change' = IF Head(reloads[p]) = Nobody THEN change ELSE [change EXCEPT ![Head(reloads[p])] = state]
  BY <1>1 DEF Load
<1>3. reloads[p] # <<>>
  BY DEF Load, RegistryOK
<1>4. /\ snapshot' \in [Process -> Int] /\ queried' \in [Process -> Int] /\ queried'[p] = NoResult
      /\ \A q \in Process \ {p} : queried'[q] = queried[q]
  BY DEF Load, RegistryOK, NoResult
<1> QED
  BY <1>1, <1>2, <1>3, <1>4, ChainGoesOn DEF Load

LEMMA RebuildFailsKeeps ==
    ASSUME RegistryOK, NEW p \in Process, RebuildFails(p)
    PROVE  RegistryOK'
<1>1. Resting \in ChangeStates
  BY DEF ChangeStates
<1>2. change' = IF Head(reloads[p]) = Nobody THEN change ELSE [change EXCEPT ![Head(reloads[p])] = Resting]
  BY DEF RebuildFails
<1>3. /\ snapshot' \in [Process -> Int] /\ queried' \in [Process -> Int] /\ queried'[p] = NoResult
      /\ \A q \in Process \ {p} : queried'[q] = queried[q]
  BY DEF RebuildFails, RegistryOK
<1> QED
  BY <1>1, <1>2, <1>3, ChainGoesOn DEF RebuildFails

LEMMA RebuildKeeps ==
    ASSUME RegistryOK, NEW p \in Process, Rebuild(p)
    PROVE  RegistryOK'
<1>1. /\ queried' \in [Process -> Int] /\ UNCHANGED <<table, snapshot, reloads, change>>
      /\ \A q \in Process : queried'[q] # NoResult => reloads[q] # <<>>
  BY DEF Rebuild, RegistryOK
<1> QED
  BY <1>1 DEF RegistryOK

\* A request that was telling is over: nobody waits for it.
LEMMA BroadcastKeeps ==
    ASSUME RegistryOK, NEW m \in Manager, Broadcast(m)
    PROVE  RegistryOK'
<1>1. /\ change[m].op = "telling" /\ change' = [change EXCEPT ![m] = Resting]
      /\ UNCHANGED <<table, snapshot, reloads, queried>>
  BY DEF Broadcast
<1>2. change' \in [Manager -> ChangeStates]
  BY <1>1 DEF RegistryOK, ChangeStates
<1>3. \A q : change[m] # [op |-> "reloading", at |-> q]
  BY <1>1
<1>4. \A n \in Manager : n # m => change'[n] = change[n]
  BY <1>1 DEF RegistryOK
<1>5. \A q \in Process : WaitsIn(reloads[q], change', q) /\ Once(reloads[q])
  BY <1>3, <1>4, WhoWaits DEF WaitsIn
<1>6. TablesOK'
  BY <1>1, <1>2 DEF RegistryOK, TablesOK
<1> QED
  BY <1>1, <1>5, <1>6 DEF RegistryOK, TablesOK, WaitsIn, Once, ChangeStates

LEMMA RegistryRestartedKeeps ==
    ASSUME RegistryOK, NEW p \in Process, RegistryRestarted(p)
    PROVE  RegistryOK'
<1>1. /\ snapshot' \in [Process -> Int] /\ queried' \in [Process -> Int] /\ queried'[p] = NoResult
      /\ \A q \in Process \ {p} : queried'[q] = queried[q] /\ reloads'[q] = reloads[q]
      /\ reloads'[p] = <<Nobody>> /\ reloads' = [reloads EXCEPT ![p] = <<Nobody>>]
      /\ table' = table
  BY DEF RegistryRestarted, RegistryOK, NoResult, Unloaded
<1>2. <<Nobody>> \in Seq(Manager \cup {Nobody}) /\ DOMAIN <<Nobody>> = {1} /\ <<Nobody>>[1] = Nobody
  OBVIOUS
<1>3. reloads' \in [Process -> Seq(Manager \cup {Nobody})]
  BY <1>1, <1>2 DEF RegistryOK
<1>4. change' \in [Manager -> ChangeStates]
  BY DEF RegistryRestarted, RegistryOK, ChangeStates
<1>5. \A q \in Process : queried'[q] # NoResult => reloads'[q] # <<>>
  BY <1>1 DEF RegistryOK
<1>6. WaitsIn(reloads'[p], change', p) /\ Once(reloads'[p])
  BY <1>1, <1>2 DEF WaitsIn, Once
<1>7. ASSUME NEW q \in Process \ {p}
      PROVE  WaitsIn(reloads'[q], change', q) /\ Once(reloads'[q])
  <2>1. WaitsIn(reloads[q], change, q) /\ Once(reloads[q])
    BY WhoWaits
  <2>2. \A m \in Manager : change[m] = [op |-> "reloading", at |-> q] => change'[m] = change[m]
    BY DEF RegistryRestarted
  <2>3. WaitsIn(reloads[q], change', q)
    BY <2>1, <2>2 DEF WaitsIn
  <2> QED
    BY <1>1, <2>1, <2>3
<1>8. TablesOK'
  BY <1>1, <1>3, <1>4, <1>5 DEF RegistryOK, TablesOK
<1>9. \A q \in Process : WaitsIn(reloads'[q], change', q) /\ Once(reloads'[q])
  BY <1>6, <1>7
<1> QED
  BY <1>8, <1>9 DEF RegistryOK, TablesOK, WaitsIn, Once, ChangeStates

-----------------------------------------------------------------------------
(* Stale rows *)

\* An edit of the row has been committed and not been told.
Owed(r) == \E a \in Admin : edit[a].op = "committed" /\ edit[a].row = r

RowAwaited(p, r) ==
    Stale(p, r) => WillHear(p, Config, r) \/ Owed(r) \/ <<p, r>> \in unhealed

RowsAwaited == \A p \in Process : \A r \in Row : RowAwaited(p, r)

\* What a process has cached of a row is not what is stored.
CachedStale(p, r) == cache[p][r] # NotCached /\ cache[p][r] # stored[r]

LEMMA DroppedFrom ==
    ASSUME ConfigOK, NEW p \in Process, NEW rows, Invalidate(p, rows), UNCHANGED stored
    PROVE  /\ \A q \in Process \ {p} : \A r \in Row : Stale(q, r)' => Stale(q, r)
           /\ \A r \in Row : Stale(p, r)' => r \notin rows /\ CachedStale(p, r)
<1>1. \A q \in Process \ {p} : cache'[q] = cache[q] /\ reading'[q] = reading[q]
  BY DEF Invalidate, Dropped, Overtaken, ConfigOK
<1>2. \A q \in Process \ {p} : \A r \in Row : Stale(q, r)' => Stale(q, r)
  BY <1>1 DEF Stale, WillKeep
<1>3. cache'[p] = [r \in Row |-> IF r \in rows THEN NotCached ELSE cache[p][r]]
  BY DEF Invalidate, Dropped, ConfigOK
<1>4. reading'[p] = NoRead \/ reading'[p].overtaken = TRUE
  <2>1. CASE reading[p] = NoRead
    BY <2>1 DEF Invalidate, Overtaken, ConfigOK
  <2>2. CASE reading[p] # NoRead
    <3>1. reading[p] \in Reading /\ reading'[p] = [reading[p] EXCEPT !.overtaken = TRUE]
      BY <2>2 DEF Invalidate, Overtaken, ConfigOK
    <3> QED
      BY <3>1 DEF Reading
  <2> QED
    BY <2>1, <2>2
<1>5. \A r \in Row : ~WillKeep(p, r)'
  BY <1>4 DEF WillKeep
<1>6. \A r \in Row : Stale(p, r)' => r \notin rows /\ CachedStale(p, r)
  BY <1>3, <1>5 DEF Stale, CachedStale
<1> QED
  BY <1>2, <1>6

\* A read that begins sees what is stored, and one that ends keeps what it was
\* to keep.
LEMMA ReadsTell ==
    ASSUME ConfigOK, NEW q \in Process,
           Remember(q) \/ \E row \in Row : Query(q, row)
    PROVE  \A p \in Process : \A r \in Row : Stale(p, r)' => Stale(p, r)
<1>1. CASE Remember(q)
  <2>1. reading[q] \in Reading /\ reading[q] # NoRead
    BY <1>1 DEF Remember, ConfigOK
  <2>2. reading'[q] = NoRead /\ stored' = stored
    BY <1>1 DEF Remember, ConfigOK
  <2>3. \A p \in Process \ {q} : cache'[p] = cache[p] /\ reading'[p] = reading[p]
    BY <1>1 DEF Remember, ConfigOK
  <2>4. \A r \in Row : \/ cache'[q][r] = cache[q][r]
                       \/ WillKeep(q, r) /\ cache'[q][r] = reading[q].value
    BY <1>1, <2>1 DEF Remember, ConfigOK, WillKeep, Reading
  <2>5. \A r \in Row : Stale(q, r)' => Stale(q, r)
    BY <2>2, <2>4 DEF Stale, WillKeep
  <2>6. \A p \in Process \ {q} : \A r \in Row : Stale(p, r)' => Stale(p, r)
    BY <2>2, <2>3 DEF Stale, WillKeep
  <2> QED
    BY <2>5, <2>6
<1>2. ASSUME NEW row \in Row, Query(q, row)
      PROVE  \A p \in Process : \A r \in Row : Stale(p, r)' => Stale(p, r)
  <2>1. /\ reading'[q].row = row /\ reading'[q].value = stored[row]
        /\ \A p \in Process \ {q} : reading'[p] = reading[p]
        /\ UNCHANGED <<stored, cache>>
    <3>1. reading' = [reading EXCEPT ![q] = [row |-> row, value |-> stored[row], overtaken |-> FALSE]]
      BY <1>2 DEF Query
    <3>2. reading'[q] = [row |-> row, value |-> stored[row], overtaken |-> FALSE]
      BY <3>1 DEF ConfigOK
    <3> QED
      BY <1>2, <3>1, <3>2 DEF Query, ConfigOK
  <2> QED
    BY <2>1 DEF Stale, WillKeep
<1> QED
  BY <1>1, <1>2

\* Nothing said, nothing stored: what was awaited still is.
LEMMA RowsStay ==
    ASSUME RowsAwaited,
           \A p \in Process : \A r \in Row : Stale(p, r)' => Stale(p, r),
           \A p \in Process : WordKept(p),
           \A r \in Row : Owed(r) => Owed(r)',
           \A p \in Process : \A r \in Row : <<p, r>> \in unhealed => <<p, r>> \in unhealed'
    PROVE  RowsAwaited'
  BY DEF RowsAwaited, RowAwaited, WordKept

LEMMA NothingSaid ==
    ASSUME UNCHANGED busVars
    PROVE  \A p \in Process : WordKept(p)
  BY DEF busVars, WordKept, WillHear, Coming

LEMMA SameEdits ==
    ASSUME UNCHANGED <<stored, cache, reading, edit>>
    PROVE  /\ \A p \in Process : \A r \in Row : Stale(p, r)' => Stale(p, r)
           /\ \A r \in Row : Owed(r) => Owed(r)'
  BY DEF Stale, WillKeep, Owed

LEMMA WorkAwaited ==
    ASSUME EditsInv, RowsAwaited, Work
    PROVE  RowsAwaited'
<1>1. UNCHANGED <<busVars, unhealed>>
  BY DEF Work
<1>2. CASE \E q \in Process : Remember(q) \/ \E row \in Row : Query(q, row)
  <2>1. \A p \in Process : \A r \in Row : Stale(p, r)' => Stale(p, r)
    BY <1>2, ReadsTell DEF EditsInv
  <2>2. UNCHANGED edit
    BY <1>2 DEF Remember, Query
  <2> QED
    BY <1>1, <2>1, <2>2, RowsStay, NothingSaid DEF Owed
<1>3. ASSUME NEW a \in Admin, NEW e, Become(a, e), edit[a].op # "committed",
             UNCHANGED <<stored, cache, reading>>
      PROVE  RowsAwaited'
  <2>1. \A b \in Admin \ {a} : edit'[b] = edit[b]
    BY <1>3 DEF Become
  <2>2. \A r \in Row : Owed(r) => Owed(r)'
    BY <1>3, <2>1 DEF Owed
  <2>3. \A p \in Process : \A r \in Row : Stale(p, r)' => Stale(p, r)
    BY <1>3 DEF Stale, WillKeep
  <2> QED
    BY <1>1, <2>2, <2>3, RowsStay, NothingSaid
<1>4. CASE \E a \in Admin : Write(a)
  <2>1. PICK a \in Admin : Write(a)
    BY <1>4
  <2>2. PICK e : e = edit[a] /\ e.op = "writing" /\ e.row \in Row
    BY <2>1 DEF EditsInv, ConfigOK, EditOK, Write, Idle
  <2>3. /\ edit' = [edit EXCEPT ![a] = [op |-> "committed", at |-> e.at, row |-> e.row]]
        /\ UNCHANGED <<cache, reading>>
    BY <2>1, <2>2 DEF Write, Become
  <2>4. edit'[a].op = "committed" /\ edit'[a].row = e.row /\ \A b \in Admin \ {a} : edit'[b] = edit[b]
    <3>1. edit'[a] = [op |-> "committed", at |-> e.at, row |-> e.row]
      BY <2>3 DEF EditsInv, ConfigOK
    <3> QED
      BY <2>3, <3>1
  <2>5. Owed(e.row)'
    BY <2>4 DEF Owed
  <2>6. \A r \in Row : Owed(r) => Owed(r)'
    BY <2>2, <2>4 DEF Owed
  <2>7. \A r \in Row \ {e.row} : stored'[r] = stored[r]
    BY <2>1, <2>2 DEF Write, EditsInv, ConfigOK
  <2>8. \A p \in Process : \A r \in Row \ {e.row} : Stale(p, r)' => Stale(p, r)
    BY <2>3, <2>7 DEF Stale, WillKeep
  <2>9. \A p \in Process : WordKept(p)
    BY <1>1, NothingSaid
  <2> QED
    BY <1>1, <2>5, <2>6, <2>8, <2>9 DEF RowsAwaited, RowAwaited, WordKept
<1>5. CASE \E a \in Admin, p \in Api, r \in Row, what \in {"set", "unset"},
              expected \in {Unchecked} \cup 0..MaxWrites : MayStart /\ Submit(a, p, r, what, expected)
  <2>1. PICK a \in Admin : \E p, r, what, expected : Submit(a, p, r, what, expected)
    BY <1>5
  <2>2. edit[a].op # "committed" /\ UNCHANGED <<stored, cache, reading>> /\ \E e : Become(a, e)
    BY <2>1 DEF Submit, Idle
  <2> QED
    BY <1>3, <2>2
<1>6. CASE \E a \in Admin : AssertNotStale(a) \/ Refuse(a) \/ ReadPrevious(a)
  <2>1. PICK a \in Admin : AssertNotStale(a) \/ Refuse(a) \/ ReadPrevious(a)
    BY <1>6
  <2>2. edit[a].op # "committed" /\ UNCHANGED <<stored, cache, reading>> /\ \E e : Become(a, e)
    BY <2>1 DEF AssertNotStale, Refuse, ReadPrevious
  <2> QED
    BY <1>3, <2>2
<1> QED
  BY <1>2, <1>4, <1>5, <1>6 DEF Work, Editing

\* A committed edit is told here first, then everywhere.
LEMMA TellAwaited ==
    ASSUME BusOK, EditsInv, RowsAwaited, NEW a \in Admin, Tell(a)
    PROVE  RowsAwaited'
<1>1. PICK q, row : q = edit[a].at /\ row = edit[a].row
  OBVIOUS
<1>2. q \in Process /\ row \in Row /\ edit[a].op = "committed"
  BY <1>1 DEF Tell, InvalidateAndBroadcast, EditsInv, ConfigOK, EditOK, Idle
<1>3. /\ Invalidate(q, {row}) /\ Become(a, Idle) /\ UNCHANGED <<stored, history>>
      /\ Sent(q, Config, row) \/ Unsent(q, Config) \/ SentUnanswered(q, Config, row)
      /\ unhealed' = (unhealed \ Gone(q, {row})) \cup IF q \in publishing' THEN Unheard(q, {row}) ELSE {}
  BY <1>1 DEF Tell, InvalidateAndBroadcast
<1>4. /\ \A p \in Process : WordKept(p)
      /\ \A p \in Process \ {q} :
            WillHear(p, Config, row)' \/ (q \in publishing' /\ p \notin everSubscribed)
  BY <1>2, <1>3, Published DEF Domains
<1>5. /\ \A p \in Process \ {q} : \A r \in Row : Stale(p, r)' => Stale(p, r)
      /\ \A r \in Row : Stale(q, r)' => r \notin {row} /\ CachedStale(q, r)
  BY <1>2, <1>3, DroppedFrom DEF EditsInv
<1>6. \A b \in Admin \ {a} : edit'[b] = edit[b]
  BY <1>3 DEF Become
<1>7. \A r \in Row \ {row} : Owed(r) => Owed(r)'
  BY <1>1, <1>6 DEF Owed
<1>8. ASSUME NEW p \in Process \ {q}, NEW r \in Row
      PROVE  RowAwaited(p, r)'
  <2>1. <<p, r>> \in unhealed => <<p, r>> \in unhealed'
    BY <1>3, <1>8 DEF Gone
  <2>2. CASE r # row
    BY <1>4, <1>5, <1>7, <2>1, <2>2 DEF RowsAwaited, RowAwaited, WordKept
  <2>3. CASE r = row
    <3>1. ASSUME Stale(p, r), q \in publishing', p \notin everSubscribed
          PROVE  <<p, r>> \in unhealed'
      <4>1. <<p, r>> \in Unheard(q, {row})
        BY <2>3, <3>1 DEF Unheard
      <4> QED
        BY <1>3, <3>1, <4>1
    <3> QED
      BY <1>4, <1>5, <2>3, <3>1 DEF RowAwaited
  <2> QED
    BY <2>2, <2>3
<1>9. ASSUME NEW r \in Row
      PROVE  RowAwaited(q, r)'
  <2>1. SUFFICES ASSUME Stale(q, r)'
                 PROVE  (WillHear(q, Config, r) \/ Owed(r) \/ <<q, r>> \in unhealed)'
    BY DEF RowAwaited
  <2>2. r # row /\ CachedStale(q, r)
    BY <1>5, <2>1
  <2>3. Stale(q, r) /\ <<q, r>> \notin Gone(q, {row})
    BY <2>2 DEF CachedStale, Stale, Gone
  <2> QED
    BY <1>2, <1>3, <1>4, <1>7, <2>2, <2>3 DEF RowsAwaited, RowAwaited, WordKept
<1> QED
  BY <1>8, <1>9 DEF RowsAwaited

\* What a handler drops was stale or not; what it leaves is as it was.
LEMMA DispatchDrops ==
    ASSUME ConfigOK, NEW q \in Process, NEW rows, NEW providers, Dispatch(q, rows, providers)
    PROVE  /\ \A p \in Process \ {q} : \A r \in Row : Stale(p, r)' => Stale(p, r)
           /\ \A r \in Row : Stale(q, r)' =>
                 /\ r \notin rows /\ Stale(q, r)
                 /\ <<q, r>> \in unhealed => <<q, r>> \in unhealed'
           /\ \A x \in unhealed : x \in {q} \X Row \/ x \in unhealed'
           /\ \A r \in Row : Owed(r) => Owed(r)'
<1>1. UNCHANGED <<stored, edit>>
  BY DEF Dispatch
<1>2. \A r \in Row : Owed(r) => Owed(r)'
  BY <1>1 DEF Owed
<1>3. CASE rows # {}
  <2>1. Invalidate(q, rows) /\ unhealed' = unhealed \ Gone(q, rows)
    BY <1>3 DEF Dispatch
  <2>2. /\ \A p \in Process \ {q} : \A r \in Row : Stale(p, r)' => Stale(p, r)
        /\ \A r \in Row : Stale(q, r)' => r \notin rows /\ CachedStale(q, r)
    BY <1>1, <2>1, DroppedFrom
  <2>3. \A r \in Row : Stale(q, r)' => Stale(q, r) /\ <<q, r>> \notin Gone(q, rows)
    BY <2>2 DEF CachedStale, Stale, Gone
  <2>4. Gone(q, rows) \subseteq {q} \X Row
    BY DEF Gone
  <2> QED
    BY <1>2, <2>1, <2>2, <2>3, <2>4
<1>4. CASE rows = {}
  BY <1>1, <1>2, <1>4 DEF Dispatch, Stale, WillKeep
<1> QED
  BY <1>3, <1>4

\* Nothing is heard for good, or the copies it was about are gone.
LEMMA HandledAwaited ==
    ASSUME ConfigOK, RowsAwaited, NEW q \in Process, NEW rows, NEW providers,
           Dispatch(q, rows, providers),
           \A p \in Process \ {q} : WordKept(p),
           \A r \in Row \ rows : WillHear(q, Config, r) => WillHear(q, Config, r)'
    PROVE  RowsAwaited'
<1>1. /\ \A p \in Process \ {q} : \A r \in Row : Stale(p, r)' => Stale(p, r)
      /\ \A r \in Row : Stale(q, r)' =>
            /\ r \notin rows /\ Stale(q, r)
            /\ <<q, r>> \in unhealed => <<q, r>> \in unhealed'
      /\ \A x \in unhealed : x \in {q} \X Row \/ x \in unhealed'
      /\ \A r \in Row : Owed(r) => Owed(r)'
  BY DispatchDrops
<1>2. ASSUME NEW p \in Process \ {q}, NEW r \in Row
      PROVE  RowAwaited(p, r)'
  <2>1. <<p, r>> \in unhealed => <<p, r>> \in unhealed'
    BY <1>1, <1>2
  <2> QED
    BY <1>1, <1>2, <2>1 DEF RowsAwaited, RowAwaited, WordKept
<1>3. ASSUME NEW r \in Row
      PROVE  RowAwaited(q, r)'
  BY <1>1, <1>3 DEF RowsAwaited, RowAwaited
<1> QED
  BY <1>2, <1>3 DEF RowsAwaited

LEMMA DomainsDiffer == Config # Providers /\ Config \in Domains /\ Providers \in Domains
  BY DEF Config, Providers, Domains

LEMMA ReceiveAwaited ==
    ASSUME BusOK, ConfigOK, RowsAwaited, NEW q \in Process, Receive(q)
    PROVE  RowsAwaited'
<1>1. Received(q)
  BY DEF Receive
<1>2. PICK m \in Msg : m = Head(inbox[q])
  BY <1>1, Taken
<1>3. /\ \A p \in Process \ {q} : WordKept(p)
      /\ \A d, e : WillHear(q, d, e) =>
            \/ WillHear(q, d, e)'
            \/ m.origin # q /\ m.domain = d /\ m.entry \in {e, Everything}
  BY <1>1, <1>2, Taken
<1>4. CASE m.origin # q /\ Dispatch(q, Row, TRUE)
  BY <1>3, <1>4, HandledAwaited
<1>5. CASE m.origin = q /\ Dispatch(q, {}, FALSE)
  BY <1>3, <1>5, HandledAwaited
<1>6. CASE m.origin # q /\ m.domain = Config /\ Dispatch(q, IF m.entry = Everything THEN Row ELSE {m.entry}, FALSE)
  <2>1. PICK rows : rows = IF m.entry = Everything THEN Row ELSE {m.entry}
    OBVIOUS
  <2>2. \A r \in Row \ rows : WillHear(q, Config, r) => WillHear(q, Config, r)'
    BY <1>3, <2>1
  <2> QED
    BY <1>3, <1>6, <2>1, <2>2, HandledAwaited
<1>7. CASE m.origin # q /\ m.domain = Providers /\ Dispatch(q, {}, TRUE)
  <2>1. \A r \in Row : WillHear(q, Config, r) => WillHear(q, Config, r)'
    BY <1>3, <1>7, DomainsDiffer
  <2> QED
    BY <1>3, <1>7, <2>1, HandledAwaited
<1> QED
  BY <1>2, <1>4, <1>5, <1>6, <1>7 DEF Receive, DispatchEverything

LEMMA EstablishAwaited ==
    ASSUME BusOK, ConfigOK, RowsAwaited, NEW q \in Process, Establish(q)
    PROVE  RowsAwaited'
<1>1. Subscribed(q)
  BY DEF Establish
<1>2. /\ \A p \in Process \ {q} : WordKept(p)
      /\ q \notin everSubscribed => WordKept(q)
  BY <1>1, Resubscribed
<1>3. CASE q \in everSubscribed
  <2>1. Dispatch(q, Row, TRUE)
    BY <1>3 DEF Establish, DispatchEverything
  <2> QED
    BY <1>2, <2>1, HandledAwaited
<1>4. CASE q \notin everSubscribed
  <2>1. Dispatch(q, {}, FALSE)
    BY <1>4 DEF Establish
  <2> QED
    BY <1>2, <1>4, <2>1, HandledAwaited DEF WordKept
<1> QED
  BY <1>3, <1>4

\* What a process had not announced it announces, to whoever is subscribed.
LEMMA AnnounceAwaited ==
    ASSUME BusOK, RowsAwaited, NEW q \in Process, AnnounceMissed(q)
    PROVE  RowsAwaited'
<1>1. /\ PublisherReady(q) /\ UNCHANGED configVars
      /\ unhealed \subseteq unhealed'
      /\ Config \in unannounced[q] => Unheard(q, Row) \subseteq unhealed'
  BY DEF AnnounceMissed
<1>2. /\ WordKept(q)
      /\ \A p \in Process \ {q} : \A d, e : WillHear(p, d, e) =>
            WillHear(p, d, e)' \/ (d \in unannounced[q] /\ p \notin everSubscribed)
  BY <1>1, Announced
<1>3. /\ \A p \in Process : \A r \in Row : Stale(p, r)' => Stale(p, r)
      /\ \A r \in Row : Owed(r) => Owed(r)'
  BY <1>1, SameEdits DEF configVars
<1>4. ASSUME NEW p \in Process \ {q}, NEW r \in Row, Stale(p, r),
             Config \in unannounced[q], p \notin everSubscribed
      PROVE  <<p, r>> \in unhealed'
  BY <1>1, <1>4 DEF Unheard
<1>5. ASSUME NEW p \in Process, NEW r \in Row
      PROVE  RowAwaited(p, r)'
  BY <1>1, <1>2, <1>3, <1>4, <1>5 DEF RowsAwaited, RowAwaited, WordKept
<1> QED
  BY <1>5 DEF RowsAwaited

\* Whoever dies forgets its copies, and what it owed is given up.
LEMMA RestartAwaited ==
    ASSUME BusOK, ConfigOK, RowsAwaited, NEW q \in Process, Restart(q)
    PROVE  RowsAwaited'
<1>1. /\ Restarted(q) /\ ConfigRestarted(q)
      /\ unhealed' = {x \in unhealed : x[1] # q} \cup Orphaned(q) \cup OrphanedProviders(q)
  BY DEF Restart
<1>2. \A p \in Process \ {q} : \A d, e :
         WillHear(p, d, e) => WillHear(p, d, e)' \/ d \in unannounced[q]
  BY <1>1, BusRestarted
<1>3. /\ \A r \in Row : cache'[q][r] = NotCached
      /\ reading'[q] = NoRead
      /\ \A p \in Process \ {q} : cache'[p] = cache[p] /\ reading'[p] = reading[p]
      /\ stored' = stored
  BY <1>1 DEF ConfigRestarted, Dropped, ConfigOK
<1>4. \A r \in Row : ~Stale(q, r)'
  BY <1>3 DEF Stale, WillKeep
<1>5. \A p \in Process \ {q} : \A r \in Row : Stale(p, r)' => Stale(p, r)
  BY <1>3 DEF Stale, WillKeep
<1>6. \A a \in Admin : edit[a].op = "committed" /\ edit[a].at # q => edit'[a] = edit[a]
  BY <1>1 DEF ConfigRestarted
<1>7. \A r \in Row : Owed(r) =>
         Owed(r)' \/ \E a \in Admin : edit[a].op = "committed" /\ edit[a].at = q /\ edit[a].row = r
  BY <1>6 DEF Owed
<1>8. ASSUME NEW p \in Process \ {q}, NEW r \in Row
      PROVE  RowAwaited(p, r)'
  <2>1. <<p, r>> \in unhealed => <<p, r>> \in unhealed'
    BY <1>1, <1>8
  <2>2. SUFFICES ASSUME Stale(p, r)
                 PROVE  (WillHear(p, Config, r) \/ Owed(r) \/ <<p, r>> \in unhealed)'
    BY <1>5 DEF RowAwaited
  <2>3. ASSUME \/ Config \in unannounced[q]
               \/ \E a \in Admin : edit[a].op = "committed" /\ edit[a].at = q /\ edit[a].row = r
        PROVE  <<p, r>> \in Orphaned(q)
    BY <2>2, <2>3 DEF Orphaned
  <2> QED
    BY <1>1, <1>2, <1>7, <2>1, <2>2, <2>3 DEF RowsAwaited, RowAwaited
<1> QED
  BY <1>4, <1>8 DEF RowsAwaited, RowAwaited

\* The steps of the registry, and connections that break.
LEMMA RowsElsewhere ==
    ASSUME RowsAwaited, UNCHANGED configVars, \A p \in Process : WordKept(p),
           \A x \in unhealed : x \in unhealed' \/ x \in Process \X {Providers}
    PROVE  RowsAwaited'
<1>1. /\ \A p \in Process : \A r \in Row : Stale(p, r)' => Stale(p, r)
      /\ \A r \in Row : Owed(r) => Owed(r)'
  BY SameEdits DEF configVars
<1>2. \A p \in Process : \A r \in Row : <<p, r>> \in unhealed => <<p, r>> \in unhealed'
  BY ConfigurationAssumption
<1> QED
  BY <1>1, <1>2, RowsStay

-----------------------------------------------------------------------------
(* Outdated registries *)

\* Another process has committed a change and not told of it.
OwedTo(p) == \E m \in Manager : change[m] # Resting /\ change[m].at # p

ProvidersAwaited(p) ==
    Outdated(p) =>
        \/ WillReload(p)
        \/ WillHear(p, Providers, Everything)
        \/ OwedTo(p)
        \/ <<p, Providers>> \in unhealed

\* A registry that has not changed and of which nothing was said.
LEMMA ProvidersStay ==
    ASSUME NEW p \in Process, ProvidersAwaited(p), WordKept(p),
           Outdated(p)' => Outdated(p),
           WillReload(p) => WillReload(p)',
           OwedTo(p) => OwedTo(p)',
           <<p, Providers>> \in unhealed => <<p, Providers>> \in unhealed'
    PROVE  ProvidersAwaited(p)'
  BY DEF ProvidersAwaited, WordKept

\* The steps of requests that edit rows, and connections that break.
LEMMA ProvidersElsewhere ==
    ASSUME NEW p \in Process, ProvidersAwaited(p), UNCHANGED registryVars, WordKept(p),
           \A x \in unhealed : x \in unhealed' \/ x \in Process \X Row
    PROVE  ProvidersAwaited(p)'
<1>1. <<p, Providers>> \in unhealed => <<p, Providers>> \in unhealed'
  BY ConfigurationAssumption
<1> QED
  BY <1>1, ProvidersStay DEF registryVars, Outdated, Outcome, WillReload, OwedTo

\* The chain of a process is its own.
LEMMA ChainElsewhere ==
    ASSUME RegistryOK, NEW q \in Process, NEW p \in Process \ {q},
           reloads'[p] = reloads[p], queried'[p] = queried[p], snapshot'[p] = snapshot[p], UNCHANGED table
    PROVE  /\ Outdated(p)' => Outdated(p)
           /\ WillReload(p) => WillReload(p)'
  BY DEF Outdated, Outcome, WillReload

LEMMA CommitAwaited ==
    ASSUME RegistryOK, NEW m \in Manager, NEW q \in Process, CommitChange(m, q)
    PROVE  \A p \in Process : ProvidersAwaited(p)'
<1>1. /\ change' = [change EXCEPT ![m] = [op |-> "reloading", at |-> q]]
      /\ reloads' = Queued(q, m) /\ UNCHANGED <<snapshot, queried>>
  BY DEF CommitChange
<1>2. Len(reloads'[q]) = Len(reloads[q]) + 1 /\ Len(reloads[q]) \in Nat
  BY <1>1, QueuedIs
<1>3. queried[q] # NoResult => Len(reloads[q]) > 0
  <2>1. PICK chain \in Seq(Manager \cup {Nobody}) : chain = reloads[q]
    BY DEF RegistryOK
  <2>2. queried[q] # NoResult => chain # <<>>
    BY <2>1 DEF RegistryOK
  <2> QED
    BY <2>1, <2>2
<1>4. WillReload(q)'
  BY <1>1, <1>2, <1>3 DEF WillReload
<1>5. change'[m].at = q /\ change'[m] # Resting
  <2>1. change'[m] = [op |-> "reloading", at |-> q]
    BY <1>1 DEF RegistryOK
  <2>2. change'[m].op = "reloading" /\ change'[m].at = q /\ Resting.op = "idle"
    BY <2>1 DEF Resting
  <2> QED
    BY <2>2
<1>6. \A p \in Process \ {q} : OwedTo(p)'
  BY <1>5 DEF OwedTo
<1> QED
  BY <1>4, <1>6 DEF ProvidersAwaited

\* What the query returned is swapped in, and whoever asked goes on to tell.
LEMMA LoadAwaited ==
    ASSUME RegistryOK, NEW q \in Process, Load(q), UNCHANGED <<busVars, unhealed>>,
           NEW p \in Process, ProvidersAwaited(p)
    PROVE  ProvidersAwaited(p)'
<1>1. reloads[q] # <<>> /\ queried[q] # NoResult
  BY DEF Load, RegistryOK
<1>2. /\ \A o \in Process \ {q} : reloads'[o] = reloads[o]
      /\ Head(reloads[q]) # Nobody => change[Head(reloads[q])] = [op |-> "reloading", at |-> q]
      /\ Head(reloads[q]) \in Manager \cup {Nobody}
      /\ Len(reloads'[q]) = Len(reloads[q]) - 1 /\ Len(reloads[q]) \in Nat
  BY <1>1, TakenFromChain DEF Load
<1>3. /\ snapshot'[q] = queried[q] /\ queried'[q] = NoResult
      /\ \A o \in Process \ {q} : snapshot'[o] = snapshot[o] /\ queried'[o] = queried[o]
      /\ table' = table
  BY DEF Load, RegistryOK
<1>4. WordKept(p) /\ unhealed' = unhealed
  BY NothingSaid
<1>5. OwedTo(p) => OwedTo(p)'
  <2>1. SUFFICES ASSUME NEW m \in Manager, change[m] # Resting, change[m].at # p
                 PROVE  change'[m] # Resting /\ change'[m].at # p
    BY DEF OwedTo
  <2>2. CASE m # Head(reloads[q])
    BY <2>1, <2>2 DEF Load, RegistryOK
  <2>3. CASE m = Head(reloads[q])
    <3>1. m # Nobody
      BY RegistryAssumption
    <3>2. change[m].at = q /\ change'[m] = [op |-> "telling", at |-> q]
      BY <1>2, <2>3, <3>1 DEF Load, RegistryOK
    <3>3. change'[m].at = q /\ change'[m].op = "telling" /\ Resting.op = "idle"
      BY <3>2 DEF Resting
    <3> QED
      BY <2>1, <3>2, <3>3
  <2> QED
    BY <2>2, <2>3
<1>6. CASE p = q
  <2>1. Outdated(p)' => Outdated(p)
    BY <1>1, <1>3, <1>6 DEF Outdated, Outcome
  <2>2. WillReload(p) => WillReload(p)'
    BY <1>1, <1>2, <1>3, <1>6 DEF WillReload
  <2> QED
    BY <1>4, <1>5, <2>1, <2>2, ProvidersStay
<1>7. CASE p # q
  <2>1. (Outdated(p)' => Outdated(p)) /\ (WillReload(p) => WillReload(p)')
    BY <1>2, <1>3, <1>7, ChainElsewhere
  <2> QED
    BY <1>4, <1>5, <2>1, ProvidersStay
<1> QED
  BY <1>6, <1>7

LEMMA RequeryAwaited ==
    ASSUME RegistryOK, NEW q \in Process, Requery(q), NEW p \in Process, ProvidersAwaited(p)
    PROVE  ProvidersAwaited(p)'
<1>1. /\ queried' = [queried EXCEPT ![q] = table] /\ UNCHANGED <<table, snapshot, reloads, change, busVars>>
      /\ unhealed' = unhealed \ {<<q, Providers>>}
  BY DEF Requery, Rebuild
<1>2. queried'[q] = table /\ \A o \in Process \ {q} : queried'[o] = queried[o]
  BY <1>1 DEF RegistryOK
<1>3. WordKept(p)
  BY <1>1, NothingSaid
<1>4. CASE p = q
  <2>1. table # NoResult
    BY DEF RegistryOK, NoResult
  <2>2. ~Outdated(q)'
    BY <1>1, <1>2, <2>1 DEF Outdated, Outcome
  <2> QED
    BY <1>4, <2>2 DEF ProvidersAwaited
<1>5. CASE p # q
  <2>1. (Outdated(p)' => Outdated(p)) /\ (WillReload(p) => WillReload(p)')
    BY <1>1, <1>2, <1>5, ChainElsewhere
  <2>2. OwedTo(p) => OwedTo(p)'
    BY <1>1 DEF OwedTo
  <2>3. <<p, Providers>> \in unhealed => <<p, Providers>> \in unhealed'
    BY <1>1, <1>5
  <2> QED
    BY <1>3, <2>1, <2>2, <2>3, ProvidersStay
<1> QED
  BY <1>4, <1>5

\* A reload that fails is given up by its process and by whoever asked.
LEMMA ReloadFailsAwaited ==
    ASSUME RegistryOK, NEW q \in Process, ReloadFails(q), NEW p \in Process, ProvidersAwaited(p)
    PROVE  ProvidersAwaited(p)'
<1>1. PICK whom : whom = Head(reloads[q])
  OBVIOUS
<1>2. /\ RebuildFails(q) /\ UNCHANGED busVars
      /\ unhealed' = unhealed
            \cup {x \in {q} \X {Providers} : Outdated(q)}
            \cup IF whom = Nobody THEN {} ELSE {x \in (Process \ {q}) \X {Providers} : Outdated(x[1])}
  BY <1>1 DEF ReloadFails
<1>3. /\ reloads[q] # <<>> /\ queried[q] = NoResult /\ UNCHANGED <<table, snapshot, queried>>
      /\ reloads' = [reloads EXCEPT ![q] = Tail(@)]
      /\ change' = IF whom = Nobody THEN change ELSE [change EXCEPT ![whom] = Resting]
  BY <1>1, <1>2 DEF RebuildFails
<1>4. WordKept(p)
  BY <1>2, NothingSaid
<1>5. CASE p = q
  <2>1. Outdated(p)' => Outdated(p)
    BY <1>3 DEF Outdated, Outcome
  <2>2. Outdated(q) => <<q, Providers>> \in unhealed'
    BY <1>2
  <2> QED
    BY <1>5, <2>1, <2>2 DEF ProvidersAwaited
<1>6. CASE p # q
  <2>1. reloads'[p] = reloads[p]
    BY <1>3, <1>6 DEF RegistryOK
  <2>2. (Outdated(p)' => Outdated(p)) /\ (WillReload(p) => WillReload(p)')
    BY <1>3, <1>6, <2>1, ChainElsewhere
  <2>3. CASE whom = Nobody
    <3>1. OwedTo(p) => OwedTo(p)'
      BY <1>3, <2>3 DEF OwedTo
    <3> QED
      BY <1>2, <1>4, <2>2, <3>1, ProvidersStay
  <2>4. CASE whom # Nobody
    <3>1. Outdated(p) => <<p, Providers>> \in unhealed'
      BY <1>2, <1>6, <2>4
    <3> QED
      BY <2>2, <3>1 DEF ProvidersAwaited
  <2> QED
    BY <2>3, <2>4
<1> QED
  BY <1>5, <1>6

\* The broadcast of a change: heard, or missed by who was not subscribed yet.
LEMMA TellProvidersAwaited ==
    ASSUME BusOK, RegistryOK, NEW m \in Manager, TellProviders(m), NEW p \in Process, ProvidersAwaited(p)
    PROVE  ProvidersAwaited(p)'
<1>1. PICK q : q = change[m].at
  OBVIOUS
<1>2. q \in Process
  <2>1. change[m].op = "telling" /\ Resting.op = "idle"
    BY DEF TellProviders, Broadcast, Resting
  <2>2. change[m] \in [op : {"reloading", "telling"}, at : Process]
    BY <2>1 DEF RegistryOK
  <2> QED
    BY <1>1, <2>2
<1>3. /\ Sent(q, Providers, Everything) \/ Unsent(q, Providers) \/ SentUnanswered(q, Providers, Everything)
      /\ change' = [change EXCEPT ![m] = Resting] /\ UNCHANGED <<table, snapshot, reloads, queried>>
      /\ unhealed' = unhealed \cup IF q \in publishing' THEN UnheardProviders(q) ELSE {}
  BY <1>1 DEF TellProviders, Broadcast
<1>4. /\ WordKept(p)
      /\ p # q => WillHear(p, Providers, Everything)' \/ (q \in publishing' /\ p \notin everSubscribed)
  BY <1>2, <1>3, Published, DomainsDiffer
<1>5. (Outdated(p)' => Outdated(p)) /\ (WillReload(p) => WillReload(p)')
  BY <1>3 DEF Outdated, Outcome, WillReload
<1>6. CASE p = q
  <2>1. OwedTo(p) => OwedTo(p)'
    <3>1. \A n \in Manager : n # m => change'[n] = change[n]
      BY <1>3 DEF RegistryOK
    <3> QED
      BY <1>1, <1>6, <3>1 DEF OwedTo
  <2> QED
    BY <1>3, <1>4, <1>5, <2>1, ProvidersStay
<1>7. CASE p # q
  <2>1. ASSUME Outdated(p), q \in publishing', p \notin everSubscribed
        PROVE  <<p, Providers>> \in unhealed'
    <3>1. <<p, Providers>> \in UnheardProviders(q)
      BY <1>7, <2>1 DEF UnheardProviders
    <3> QED
      BY <1>3, <2>1, <3>1
  <2> QED
    BY <1>4, <1>5, <1>7, <2>1 DEF ProvidersAwaited
<1> QED
  BY <1>6, <1>7

\* A handler that reloads, or that may forget what is not about providers.
LEMMA HandledProviders ==
    ASSUME ConfigOK, RegistryOK, NEW q \in Process, NEW rows, NEW providers \in BOOLEAN,
           Dispatch(q, rows, providers),
           \A p \in Process \ {q} : WordKept(p),
           providers \/ (WillHear(q, Providers, Everything) => WillHear(q, Providers, Everything)'),
           NEW p \in Process, ProvidersAwaited(p)
    PROVE  ProvidersAwaited(p)'
<1>1. <<p, Providers>> \in unhealed => <<p, Providers>> \in unhealed'
  <2>1. \A x \in unhealed : x \in {q} \X Row \/ x \in unhealed'
    BY DispatchDrops
  <2> QED
    BY <2>1, ConfigurationAssumption
<1>2. CASE ~providers
  <2>1. UNCHANGED registryVars
    BY <1>2 DEF Dispatch
  <2>2. Outdated(p)' => Outdated(p)
    BY <2>1 DEF registryVars, Outdated, Outcome
  <2>3. (WillReload(p) => WillReload(p)') /\ (OwedTo(p) => OwedTo(p)')
    BY <2>1 DEF registryVars, WillReload, OwedTo
  <2>4. WillHear(p, Providers, Everything) => WillHear(p, Providers, Everything)'
    BY <1>2 DEF WordKept
  <2> QED
    BY <1>1, <2>2, <2>3, <2>4 DEF ProvidersAwaited
<1>3. CASE providers
  <2>1. reloads' = Queued(q, Nobody) /\ UNCHANGED <<table, snapshot, queried, change>>
    BY <1>3 DEF Dispatch, Reload
  <2>2. /\ \A o \in Process \ {q} : reloads'[o] = reloads[o]
        /\ Len(reloads'[q]) = Len(reloads[q]) + 1 /\ Len(reloads[q]) \in Nat
    BY <2>1, QueuedIs
  <2>3. CASE p = q
    <3>1. queried[q] # NoResult => Len(reloads[q]) > 0
      <4>1. PICK chain \in Seq(Manager \cup {Nobody}) : chain = reloads[q]
        BY DEF RegistryOK
      <4>2. queried[q] # NoResult => chain # <<>>
        BY <4>1 DEF RegistryOK
      <4> QED
        BY <4>1, <4>2
    <3>2. WillReload(q)'
      BY <2>1, <2>2, <3>1 DEF WillReload
    <3> QED
      BY <2>3, <3>2 DEF ProvidersAwaited
  <2>4. CASE p # q
    <3>1. (Outdated(p)' => Outdated(p)) /\ (WillReload(p) => WillReload(p)')
      BY <2>1, <2>2, <2>4, ChainElsewhere
    <3>2. OwedTo(p) => OwedTo(p)'
      BY <2>1 DEF OwedTo
    <3> QED
      BY <1>1, <2>4, <3>1, <3>2, ProvidersStay
  <2> QED
    BY <2>3, <2>4
<1> QED
  BY <1>2, <1>3

LEMMA ReceiveProviders ==
    ASSUME BusOK, ConfigOK, RegistryOK, NEW q \in Process, Receive(q), NEW p \in Process, ProvidersAwaited(p)
    PROVE  ProvidersAwaited(p)'
<1>1. Received(q)
  BY DEF Receive
<1>2. PICK m \in Msg : m = Head(inbox[q])
  BY <1>1, Taken
<1>3. /\ \A o \in Process \ {q} : WordKept(o)
      /\ \A d, e : WillHear(q, d, e) =>
            \/ WillHear(q, d, e)'
            \/ m.origin # q /\ m.domain = d /\ m.entry \in {e, Everything}
  BY <1>1, <1>2, Taken
<1>4. CASE m.origin # q /\ Dispatch(q, Row, TRUE)
  BY <1>3, <1>4, HandledProviders
<1>5. CASE m.origin = q /\ Dispatch(q, {}, FALSE)
  BY <1>3, <1>5, HandledProviders
<1>6. CASE m.origin # q /\ m.domain = Config /\ Dispatch(q, IF m.entry = Everything THEN Row ELSE {m.entry}, FALSE)
  <2>1. WillHear(q, Providers, Everything) => WillHear(q, Providers, Everything)'
    BY <1>3, <1>6, DomainsDiffer
  <2> QED
    BY <1>3, <1>6, <2>1, HandledProviders
<1>7. CASE m.origin # q /\ m.domain = Providers /\ Dispatch(q, {}, TRUE)
  BY <1>3, <1>7, HandledProviders
<1> QED
  BY <1>2, <1>4, <1>5, <1>6, <1>7 DEF Receive, DispatchEverything

LEMMA EstablishProviders ==
    ASSUME BusOK, ConfigOK, RegistryOK, NEW q \in Process, Establish(q), NEW p \in Process, ProvidersAwaited(p)
    PROVE  ProvidersAwaited(p)'
<1>1. Subscribed(q)
  BY DEF Establish
<1>2. /\ \A o \in Process \ {q} : WordKept(o)
      /\ q \notin everSubscribed => WordKept(q)
  BY <1>1, Resubscribed
<1>3. CASE q \in everSubscribed
  <2>1. Dispatch(q, Row, TRUE)
    BY <1>3 DEF Establish, DispatchEverything
  <2> QED
    BY <1>2, <2>1, HandledProviders
<1>4. CASE q \notin everSubscribed
  <2>1. Dispatch(q, {}, FALSE)
    BY <1>4 DEF Establish
  <2>2. WillHear(q, Providers, Everything) => WillHear(q, Providers, Everything)'
    BY <1>2, <1>4 DEF WordKept
  <2> QED
    BY <1>2, <2>1, <2>2, HandledProviders
<1> QED
  BY <1>3, <1>4

LEMMA AnnounceProviders ==
    ASSUME BusOK, NEW q \in Process, AnnounceMissed(q), NEW p \in Process, ProvidersAwaited(p)
    PROVE  ProvidersAwaited(p)'
<1>1. /\ PublisherReady(q) /\ UNCHANGED registryVars
      /\ unhealed \subseteq unhealed'
      /\ Providers \in unannounced[q] => UnheardProviders(q) \subseteq unhealed'
  BY DEF AnnounceMissed
<1>2. /\ WordKept(q)
      /\ \A o \in Process \ {q} : \A d, e : WillHear(o, d, e) =>
            WillHear(o, d, e)' \/ (d \in unannounced[q] /\ o \notin everSubscribed)
  BY <1>1, Announced
<1>3. /\ Outdated(p)' => Outdated(p)
      /\ WillReload(p) => WillReload(p)'
      /\ OwedTo(p) => OwedTo(p)'
  BY <1>1 DEF registryVars, Outdated, Outcome, WillReload, OwedTo
<1>4. CASE p = q
  BY <1>1, <1>2, <1>3, <1>4, ProvidersStay
<1>5. CASE p # q
  <2>1. Outdated(p) /\ Providers \in unannounced[q] /\ p \notin everSubscribed => <<p, Providers>> \in unhealed'
    BY <1>1, <1>5 DEF UnheardProviders
  <2> QED
    BY <1>1, <1>2, <1>3, <1>5, <2>1 DEF ProvidersAwaited
<1> QED
  BY <1>4, <1>5

LEMMA RestartProviders ==
    ASSUME BusOK, RegistryOK, NEW q \in Process, Restart(q), NEW p \in Process, ProvidersAwaited(p)
    PROVE  ProvidersAwaited(p)'
<1>1. /\ Restarted(q) /\ RegistryRestarted(q)
      /\ unhealed' = {x \in unhealed : x[1] # q} \cup Orphaned(q) \cup OrphanedProviders(q)
  BY DEF Restart
<1>2. \A o \in Process \ {q} : \A d, e :
         WillHear(o, d, e) => WillHear(o, d, e)' \/ d \in unannounced[q]
  BY <1>1, BusRestarted
<1>3. /\ snapshot'[q] = Unloaded /\ queried'[q] = NoResult /\ table' = table
      /\ \A o \in Process \ {q} :
            reloads'[o] = reloads[o] /\ queried'[o] = queried[o] /\ snapshot'[o] = snapshot[o]
  BY <1>1 DEF RegistryRestarted, RegistryOK
<1>4. CASE p = q
  BY <1>3, <1>4 DEF ProvidersAwaited, Outdated, Outcome
<1>5. CASE p # q
  <2>1. (Outdated(p)' => Outdated(p)) /\ (WillReload(p) => WillReload(p)')
    BY <1>3, <1>5, ChainElsewhere
  <2>2. OwedTo(p) => OwedTo(p)' \/ \E m \in Manager : change[m] # Resting /\ change[m].at = q
    <3>1. \A m \in Manager : change[m] # Resting /\ change[m].at # q => change'[m] = change[m]
      BY <1>1 DEF RegistryRestarted
    <3> QED
      BY <3>1 DEF OwedTo
  <2>3. <<p, Providers>> \in unhealed => <<p, Providers>> \in unhealed'
    BY <1>1, <1>5
  <2>4. SUFFICES ASSUME Outdated(p)
                 PROVE  \/ WillReload(p)'
                        \/ WillHear(p, Providers, Everything)'
                        \/ OwedTo(p)'
                        \/ <<p, Providers>> \in unhealed'
    BY <2>1 DEF ProvidersAwaited
  <2>5. ASSUME Providers \in unannounced[q] \/ \E m \in Manager : change[m] # Resting /\ change[m].at = q
        PROVE  <<p, Providers>> \in unhealed'
    <3>1. <<p, Providers>> \in OrphanedProviders(q)
      BY <1>5, <2>4, <2>5 DEF OrphanedProviders
    <3> QED
      BY <1>1, <3>1
  <2> QED
    BY <1>2, <1>5, <2>1, <2>2, <2>3, <2>4, <2>5 DEF ProvidersAwaited
<1> QED
  BY <1>4, <1>5

-----------------------------------------------------------------------------
(* Every stale copy is awaited *)

CopiesInv ==
    /\ BusOK /\ EditsInv /\ RegistryOK
    /\ RowsAwaited /\ \A p \in Process : ProvidersAwaited(p)

LEMMA CopiesInitially ==
    ASSUME Init PROVE CopiesInv
<1>1. BusOK
  BY DEF Init, BusInit, BusOK
<1>2. EditsInv
  BY EditsInitially
<1>3. RegistryOK
  <2>1. <<>> \in Seq(Manager \cup {Nobody}) /\ DOMAIN <<>> = {}
    OBVIOUS
  <2> QED
    BY <2>1 DEF Init, RegistryInit, RegistryOK, NoResult
<1>4. RowsAwaited
  BY DEF Init, ConfigInit, RowsAwaited, RowAwaited, Stale, WillKeep
<1>5. \A p \in Process : ProvidersAwaited(p)
  BY DEF Init, RegistryInit, ProvidersAwaited, Outdated, Outcome, NoResult
<1> QED
  BY <1>1, <1>2, <1>3, <1>4, <1>5 DEF CopiesInv

LEMMA BusStep ==
    ASSUME BusOK, RegistryOK, EditsInv, [Next]_vars
    PROVE  BusOK'
<1>1. CASE UNCHANGED busVars
  BY <1>1 DEF busVars, BusOK
<1>2. CASE \E a \in Admin : Tell(a)
  <2>1. PICK a \in Admin : Tell(a)
    BY <1>2
  <2>2. edit[a].at \in Process /\ edit[a].row \in Row
    BY <2>1 DEF Tell, InvalidateAndBroadcast, EditsInv, ConfigOK, EditOK, Idle
  <2> QED
    BY <2>1, <2>2, Published, DomainsDiffer DEF Tell, InvalidateAndBroadcast
<1>3. CASE \E m \in Manager : TellProviders(m)
  <2>1. PICK m \in Manager : TellProviders(m)
    BY <1>3
  <2>2. change[m].op = "telling" /\ Resting.op = "idle"
    BY <2>1 DEF TellProviders, Broadcast, Resting
  <2>3. change[m] \in [op : {"reloading", "telling"}, at : Process]
    BY <2>2 DEF RegistryOK
  <2>4. change[m].at \in Process
    BY <2>3
  <2> QED
    BY <2>1, <2>4, Published, DomainsDiffer DEF TellProviders, Broadcast
<1>4. CASE \E p \in Process : Receive(p)
  BY <1>4, Taken DEF Receive
<1>5. CASE \E p \in Process : Establish(p)
  BY <1>5, Resubscribed DEF Establish
<1>6. CASE \E p \in Process : AnnounceMissed(p)
  BY <1>6, Announced DEF AnnounceMissed
<1>7. CASE \E p \in Process : Restart(p)
  BY <1>7, BusRestarted DEF Restart
<1>8. CASE Disconnect
  BY <1>8, ConnectionLost DEF Disconnect
<1> QED
  BY <1>1, <1>2, <1>3, <1>4, <1>5, <1>6, <1>7, <1>8 DEF Next, vars, Work, Manage, Requery, ReloadFails

LEMMA RegistryStep ==
    ASSUME RegistryOK, [Next]_vars
    PROVE  RegistryOK'
<1>1. CASE UNCHANGED registryVars
  BY <1>1 DEF registryVars, RegistryOK
<1>2. CASE Manage
  BY <1>2, CommitKeeps, LoadKeeps, PropagationAssumption DEF Manage
<1>3. CASE \E m \in Manager : TellProviders(m)
  BY <1>3, BroadcastKeeps DEF TellProviders
<1>4. CASE \E p \in Process : Requery(p) \/ ReloadFails(p)
  BY <1>4, RebuildKeeps, RebuildFailsKeeps DEF Requery, ReloadFails
<1>5. CASE \E p \in Process : Receive(p) \/ Establish(p)
  <2>1. PICK p \in Process : \E rows, providers : Dispatch(p, rows, providers)
    BY <1>5, HandlersDispatch
  <2>2. Reload(p) \/ UNCHANGED registryVars
    BY <2>1 DEF Dispatch
  <2> QED
    BY <1>1, <2>2, ReloadKeeps
<1>6. CASE \E p \in Process : Restart(p)
  BY <1>6, RegistryRestartedKeeps DEF Restart
<1> QED
  BY <1>1, <1>2, <1>3, <1>4, <1>5, <1>6 DEF Next, vars, Work, Tell, Disconnect, AnnounceMissed

LEMMA RowsStep ==
    ASSUME CopiesInv, [Next]_vars
    PROVE  RowsAwaited'
<1>1. CASE Work
  BY <1>1, WorkAwaited DEF CopiesInv
<1>2. CASE \E a \in Admin : Tell(a)
  BY <1>2, TellAwaited DEF CopiesInv
<1>3. CASE \E p \in Process : Receive(p) \/ Establish(p) \/ AnnounceMissed(p) \/ Restart(p)
  BY <1>3, ReceiveAwaited, EstablishAwaited, AnnounceAwaited, RestartAwaited DEF CopiesInv, EditsInv
<1>4. CASE Manage \/ \E p \in Process : Requery(p) \/ ReloadFails(p)
  <2>1. /\ UNCHANGED configVars /\ UNCHANGED busVars
        /\ \A x \in unhealed : x \in unhealed' \/ x \in Process \X {Providers}
    BY <1>4 DEF Manage, Requery, ReloadFails
  <2> QED
    BY <2>1, RowsElsewhere, NothingSaid DEF CopiesInv
<1>5. CASE Disconnect
  <2>1. UNCHANGED <<configVars, unhealed>> /\ \A p \in Process : WordKept(p)
    BY <1>5, ConnectionLost DEF Disconnect, CopiesInv
  <2> QED
    BY <2>1, RowsElsewhere DEF CopiesInv
<1>6. CASE \E m \in Manager : TellProviders(m)
  <2>1. PICK m \in Manager : TellProviders(m)
    BY <1>6
  <2>2. change[m].op = "telling" /\ Resting.op = "idle"
    BY <2>1 DEF TellProviders, Broadcast, Resting
  <2>3. change[m] \in [op : {"reloading", "telling"}, at : Process]
    BY <2>2 DEF CopiesInv, RegistryOK
  <2>4. \A p \in Process : WordKept(p)
    BY <2>1, <2>3, Published, DomainsDiffer DEF TellProviders, Broadcast, CopiesInv
  <2>5. UNCHANGED configVars /\ unhealed \subseteq unhealed'
    BY <2>1 DEF TellProviders
  <2> QED
    BY <2>4, <2>5, RowsElsewhere DEF CopiesInv
<1>7. CASE UNCHANGED vars
  BY <1>7, RowsElsewhere, NothingSaid DEF CopiesInv, vars
<1> QED
  BY <1>1, <1>2, <1>3, <1>4, <1>5, <1>6, <1>7 DEF Next

LEMMA ProvidersStep ==
    ASSUME CopiesInv, [Next]_vars, NEW p \in Process
    PROVE  ProvidersAwaited(p)'
<1>1. ProvidersAwaited(p)
  BY DEF CopiesInv
<1>2. CASE Work \/ UNCHANGED vars
  <2>1. UNCHANGED <<busVars, unhealed>> /\ UNCHANGED registryVars
    BY <1>2 DEF Work, vars
  <2> QED
    BY <1>1, <2>1, NothingSaid, ProvidersElsewhere
<1>3. CASE \E a \in Admin : Tell(a)
  <2>1. PICK a \in Admin : Tell(a)
    BY <1>3
  <2>2. edit[a].at \in Process /\ edit[a].row \in Row
    BY <2>1 DEF Tell, InvalidateAndBroadcast, CopiesInv, EditsInv, ConfigOK, EditOK, Idle
  <2>3. WordKept(p) /\ UNCHANGED registryVars
    BY <2>1, <2>2, Published, DomainsDiffer DEF Tell, InvalidateAndBroadcast, CopiesInv
  <2>4. \A x \in unhealed : x \in unhealed' \/ x \in Process \X Row
    BY <2>1, <2>2 DEF Tell, Gone
  <2> QED
    BY <1>1, <2>3, <2>4, ProvidersElsewhere
<1>4. CASE Manage
  <2>1. UNCHANGED <<busVars, unhealed>>
    BY <1>4 DEF Manage
  <2> QED
    BY <1>1, <1>4, <2>1, CommitAwaited, LoadAwaited, PropagationAssumption DEF Manage, CopiesInv
<1>5. CASE Disconnect
  <2>1. UNCHANGED registryVars /\ UNCHANGED unhealed /\ WordKept(p)
    BY <1>5, ConnectionLost DEF Disconnect, CopiesInv
  <2> QED
    BY <1>1, <2>1, ProvidersElsewhere
<1>6. CASE \E m \in Manager : TellProviders(m)
  BY <1>1, <1>6, TellProvidersAwaited DEF CopiesInv
<1>7. CASE \E q \in Process : Requery(q) \/ ReloadFails(q)
  BY <1>1, <1>7, RequeryAwaited, ReloadFailsAwaited DEF CopiesInv
<1>8. CASE \E q \in Process : Receive(q) \/ Establish(q) \/ AnnounceMissed(q) \/ Restart(q)
  BY <1>1, <1>8, ReceiveProviders, EstablishProviders, AnnounceProviders, RestartProviders
     DEF CopiesInv, EditsInv
<1> QED
  BY <1>2, <1>3, <1>4, <1>5, <1>6, <1>7, <1>8 DEF Next

LEMMA CopiesStep ==
    ASSUME CopiesInv, [Next]_vars
    PROVE  CopiesInv'
<1>1. BusOK' /\ EditsInv' /\ RegistryOK'
  BY BusStep, EditsStep, RegistryStep DEF CopiesInv
<1>2. \A p \in Process : ProvidersAwaited(p)'
  BY ProvidersStep
<1> QED
  BY <1>1, <1>2, RowsStep DEF CopiesInv

LEMMA CopiesMean ==
    ASSUME CopiesInv PROVE StaleIsAwaited
  BY DEF CopiesInv, RowsAwaited, RowAwaited, Owed, ProvidersAwaited, OwedTo, StaleIsAwaited

\* A stale copy will be corrected, or is one of those the code leaves for ever,
\* with however many processes, rows, changes, broken connections and crashes
\* (remember, establish, announceMissed, the reload chain).
THEOREM StaleAwaited == Spec => []StaleIsAwaited
<1>1. Init => CopiesInv
  BY CopiesInitially
<1>2. CopiesInv /\ [Next]_vars => CopiesInv'
  BY CopiesStep
<1>3. CopiesInv => StaleIsAwaited
  BY CopiesMean
<1> QED
  BY <1>1, <1>2, <1>3, PTL DEF Spec

=============================================================================
