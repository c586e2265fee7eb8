-------------------------- MODULE PlaygroundProofs --------------------------
(***************************************************************************)
(* Theorems about Playground for conversations of any length and any       *)
(* number of requests, edits, imports and reloads.                         *)
(***************************************************************************)
EXTENDS Playground, SequenceTheorems, WellFoundedInduction, TLAPS

Roles    == {"user", "assistant", "system"}
Statuses == {"none", "loading", "incomplete", "complete", "error"}

\* Lists of messages with ids up to n, written by requests of K.
Known(n, K) == [id : 1..n, role : Roles, status : Statuses, text : SUBSET K]
Typed(list, n, K) == list \in Seq(Known(n, K)) /\ Len(list) <= MaxMessages

Sent == {r \in Requests : kind[r] # "none"}

\* Whatever is shown, stored, about to be stored or remembered by a dialog is a
\* conversation, and only requests that were sent have written in it.
Lists ==
    /\ Typed(messages, nextId, Sent)
    /\ stored = NoList \/ Typed(stored, nextId, Sent)
    /\ saves \in Seq(Seq(Known(nextId, Sent)))
    /\ \A i \in DOMAIN saves : Typed(saves[i], nextId, Sent)
    /\ dialog.kind = "regenerate" => /\ Typed(dialog.list, nextId, Sent)
                                     /\ dialog.index \in 1..Len(dialog.list)
                                     /\ dialog.index < Len(dialog.list)

\* An open connection is of a request that was streamed, one that waits for its
\* whole answer of one that was not.
Connections ==
    /\ kind \in [Requests -> {"none", "stream", "plain"}]
    /\ streams \subseteq {r \in Requests : kind[r] = "stream"}
    /\ plains \subseteq {r \in Requests : kind[r] = "plain"}
    /\ current \in {0} \union Requests

\* What a file may hold, and what the page starts or begins again with.
Files    == {File(status) : status \in Exported}
Openings == {Defaults, <<>>}

Page ==
    /\ nextId \in Nat /\ FirstId <= nextId
    /\ Connections
    /\ resend \in {NoTimer, "question", "edited", "defaults"}
    /\ dialog.kind \in {"none", "regenerate", "import"}
    /\ dialog.kind = "import" => dialog.list \in Files
    /\ editing \in {0} \union 1..nextId
    /\ overwritten \in {"nobody", "import", "reset"}
    /\ fresh \in BOOLEAN /\ broken \in BOOLEAN /\ revived \in BOOLEAN

PlayTypes == Lists /\ Page

\* No answer is in the making.
Quiet(list) == \A i \in DOMAIN list : ~Generating(list[i])

\* While a timer is going to send a question, nothing is in the making and the
\* user is not yet back; a dialog remembers a conversation as it was shown.
Making ==
    /\ OnlyLast(messages) /\ (stored # NoList => OnlyLast(stored))
    /\ \A i \in DOMAIN saves : OnlyLast(saves[i])
    /\ dialog.kind = "regenerate" => OnlyLast(dialog.list)
    /\ resend # NoTimer => Quiet(messages)

\* The finished streamed answers of msgs are in list.
Ended(m, K) == Finished(m) /\ m.text # {} /\ \A r \in m.text : K[r] = "stream"
Holds(list, msgs, K) ==
    \A i \in DOMAIN msgs : Ended(msgs[i], K) =>
        list # NoList /\ \E j \in DOMAIN list : list[j] = msgs[i]

\* The list saved last, or what is stored when none is waiting, holds every
\* streamed answer that has ended.
Saving ==
    /\ saves # <<>> => Holds(Last(saves), messages, kind)
    /\ saves = <<>> /\ overwritten = "nobody" => Holds(stored, messages, kind)

PlayInv == PlayTypes /\ (~Hasty => Making) /\ Saving

-----------------------------------------------------------------------------
(* Lists of messages *)

LEMMA LeastOf ==
    ASSUME NEW S \in SUBSET Nat, S # {}
    PROVE  \E x \in S : \A y \in S : x <= y
  <1>1. PICK R : IsWellFoundedOn(R, Nat) /\ R = {ss \in Nat \X Nat : ss[1] < ss[2]}
    <2>1. IsWellFoundedOn(OpToRel(<, Nat), Nat)
      BY NatLessThanWellFounded
    <2>2. OpToRel(<, Nat) = {ss \in Nat \X Nat : ss[1] < ss[2]}
      BY Zenon DEF OpToRel
    <2>3. QED
      BY <2>1, <2>2, Zenon
  <1>2. PICK x \in S : \A y \in S : ~ (<<y, x>> \in R)
    BY <1>1, WFMin, Zenon
  <1>3. \A y \in S : y < x => <<y, x>> \in R
    BY <1>1
  <1>4. \A y \in S : ~ (y < x)
    BY <1>2, <1>3, Zenon
  <1>5. QED
    BY <1>4

\* Only the last message is replaced.
Replaced(new, list, m) ==
    /\ Len(new) = Len(list) /\ Len(list) \in 1..Len(list)
    /\ new[Len(list)] = m
    /\ \A i \in 1..Len(list) : i # Len(list) => new[i] = list[i]

LEMMA WithLastIs ==
    ASSUME NEW S, NEW list \in Seq(S), list # <<>>, NEW m \in S
    PROVE  WithLast(list, m) \in Seq(S) /\ Replaced(WithLast(list, m), list, m)
  <1>1. Len(list) \in Nat /\ Len(list) >= 1
    BY EmptySeq
  <1>2. PICK n \in Nat : n = Len(list) - 1
    BY <1>1
  <1>3. \A i \in 1..n : list[i] \in S
    BY <1>2
  <1>4. PICK front : front = SubSeq(list, 1, n)
    OBVIOUS
  <1>5. /\ front \in Seq(S) /\ Len(front) = n
        /\ \A i \in 1..n : front[i] = list[i]
    <2>1. /\ SubSeq(list, 1, n) \in Seq(S)
          /\ Len(SubSeq(list, 1, n)) = IF 1 <= n THEN n - 1 + 1 ELSE 0
          /\ \A i \in 1..n - 1 + 1 : SubSeq(list, 1, n)[i] = list[1 + i - 1]
      BY <1>3, SubSeqProperties
    <2>2. QED
      BY <1>4, <2>1
  <1>6. WithLast(list, m) = Append(front, m)
    BY <1>2, <1>4 DEF WithLast, Front
  <1>7. /\ Append(front, m) \in Seq(S)
        /\ Len(Append(front, m)) = n + 1
        /\ \A i \in 1..n : Append(front, m)[i] = front[i]
        /\ Append(front, m)[n + 1] = m
    BY <1>5, AppendProperties
  <1>8. QED
    BY <1>1, <1>2, <1>5, <1>6, <1>7 DEF Replaced

LEMMA ReplacedOne ==
    ASSUME NEW S, NEW list \in Seq(S), NEW a \in Seq(S), NEW b \in Seq(S), NEW m,
           Replaced(a, list, m), Replaced(b, list, m)
    PROVE  a = b
  <1>1. Len(a) = Len(b) /\ \A i \in 1..Len(a) : a[i] = b[i]
    BY DEF Replaced
  <1>2. QED
    BY <1>1, SeqEqual

LEMMA WithLastTwice ==
    ASSUME NEW S, NEW list \in Seq(S), list # <<>>, NEW m \in S, NEW k \in S
    PROVE  WithLast(WithLast(list, m), k) = WithLast(list, k)
  <1>1. PICK one : one = WithLast(list, m)
    OBVIOUS
  <1>2. one \in Seq(S) /\ Replaced(one, list, m)
    BY <1>1, WithLastIs, Zenon
  <1>3. one # <<>>
    BY <1>2 DEF Replaced
  <1>4. PICK two : two = WithLast(one, k)
    OBVIOUS
  <1>5. two \in Seq(S) /\ Replaced(two, one, k)
    BY <1>2, <1>3, <1>4, WithLastIs, Zenon
  <1>6. Replaced(two, list, k)
    BY <1>2, <1>5 DEF Replaced
  <1>7. WithLast(list, k) \in Seq(S) /\ Replaced(WithLast(list, k), list, k)
    BY WithLastIs, Zenon
  <1>8. two = WithLast(list, k)
    BY <1>5, <1>6, <1>7, ReplacedOne, Zenon
  <1>9. QED
    BY <1>1, <1>4, <1>8, Zenon

LEMMA LastIn ==
    ASSUME NEW S, NEW list \in Seq(S), list # <<>>
    PROVE  /\ Len(list) \in Nat /\ Len(list) \in DOMAIN list /\ DOMAIN list = 1..Len(list)
           /\ Last(list) = list[Len(list)] /\ Last(list) \in S
  <1>1. Len(list) \in Nat /\ Len(list) >= 1
    BY EmptySeq
  <1>2. DOMAIN list = 1..Len(list)
    OBVIOUS
  <1>3. QED
    BY <1>1, <1>2 DEF Last

LEMMA LastOfAppend ==
    ASSUME NEW S, NEW list \in Seq(S), NEW m \in S
    PROVE  Last(Append(list, m)) = m
  BY DEF Last

\* Every message of a part is one of the list.
Part(part, list) == \A i \in DOMAIN part : \E j \in DOMAIN list : part[i] = list[j]

LEMMA PartOfSub ==
    ASSUME NEW S, NEW list \in Seq(S), NEW a \in Nat \ {0}, NEW b \in Nat, b <= Len(list)
    PROVE  /\ SubSeq(list, a, b) \in Seq(S)
           /\ Len(SubSeq(list, a, b)) = IF a <= b THEN b - a + 1 ELSE 0
           /\ Part(SubSeq(list, a, b), list)
  <1>1. \A i \in a..b : list[i] \in S /\ i \in DOMAIN list
    OBVIOUS
  <1>2. /\ SubSeq(list, a, b) \in Seq(S)
        /\ Len(SubSeq(list, a, b)) = IF a <= b THEN b - a + 1 ELSE 0
        /\ \A i \in 1..b - a + 1 : SubSeq(list, a, b)[i] = list[a + i - 1]
    BY <1>1, SubSeqProperties
  <1>3. PICK part : part = SubSeq(list, a, b)
    OBVIOUS
  <1>4. ASSUME NEW i \in DOMAIN part
        PROVE  \E j \in DOMAIN list : part[i] = list[j]
    <2>1. i \in 1..b - a + 1
      BY <1>2, <1>3, <1>4
    <2>2. part[i] = list[a + i - 1] /\ a + i - 1 \in a..b
      BY <1>2, <1>3, <2>1
    <2>3. QED
      BY <1>1, <2>2
  <1>5. QED
    BY <1>2, <1>3, <1>4 DEF Part

LEMMA PartOfTwo ==
    ASSUME NEW S, NEW list \in Seq(S), NEW a \in Seq(S), NEW b \in Seq(S),
           Part(a, list), Part(b, list)
    PROVE  Part(a \o b, list)
  <1>1. PICK c : c = a \o b
    OBVIOUS
  <1>2. /\ c \in Seq(S) /\ Len(c) = Len(a) + Len(b)
        /\ \A i \in 1..Len(a) : c[i] = a[i]
        /\ \A i \in Len(a) + 1 .. Len(a) + Len(b) : c[i] = b[i - Len(a)]
    BY <1>1
  <1>3. ASSUME NEW i \in DOMAIN c
        PROVE  \E j \in DOMAIN list : c[i] = list[j]
    <2>1. i \in 1..Len(a) \/ i \in Len(a) + 1 .. Len(a) + Len(b)
      BY <1>2
    <2>2. CASE i \in 1..Len(a)
      BY <1>2, <2>2 DEF Part
    <2>3. CASE i \in Len(a) + 1 .. Len(a) + Len(b)
      <3>1. i - Len(a) \in DOMAIN b
        BY <2>3
      <3>2. QED
        BY <1>2, <2>3, <3>1 DEF Part
    <2>4. QED
      BY <2>1, <2>2, <2>3
  <1>4. QED
    BY <1>1, <1>3 DEF Part

\* What a list without an answer in the making is cut down or extended to.
LEMMA QuietParts ==
    ASSUME NEW part, NEW list, Part(part, list), Quiet(list)
    PROVE  Quiet(part)
  BY Zenon DEF Part, Quiet, Generating

LEMMA QuietIsOnly == ASSUME NEW list, Quiet(list) PROVE OnlyLast(list)
  BY Zenon DEF Quiet, OnlyLast

LEMMA KnownGrows ==
    ASSUME NEW n \in Nat, NEW m \in Nat, n <= m, NEW K, NEW L, K \subseteq L
    PROVE  /\ Known(n, K) \subseteq Known(m, L)
           /\ Seq(Known(n, K)) \subseteq Seq(Known(m, L))
           /\ \A list : Typed(list, n, K) => Typed(list, m, L)
  <1>1. Known(n, K) \subseteq Known(m, L)
    BY DEF Known
  <1>2. Seq(Known(n, K)) \subseteq Seq(Known(m, L))
    BY <1>1, SeqMonotonic
  <1>3. QED
    BY <1>1, <1>2, Zenon DEF Typed

Pair(u, v, status) == <<Message(u, "user", "none"), Message(v, "assistant", status)>>

\* The lists the program brings along: nothing in them was written by a request, and
\* only a file may end with an answer in the making.
LEMMA Provided ==
    ASSUME NEW n \in Nat, FirstId <= n, NEW K, NEW list \in Openings \union Files
    PROVE  /\ Typed(list, n, K) /\ OnlyLast(list) /\ \A i \in DOMAIN list : list[i].text = {}
           /\ list \in Openings => Quiet(list)
  <1>1. CASE list = <<>>
    <2>1. list \in Seq(Known(n, K)) /\ Len(list) = 0 /\ DOMAIN list = {}
      BY <1>1
    <2>2. QED
      BY <2>1, PlaygroundAssumption DEF Typed, Quiet, OnlyLast
  <1>2. ASSUME NEW u \in 2..9, NEW v \in 2..9, NEW status \in Statuses
        PROVE  /\ Typed(Pair(u, v, status), n, K) /\ OnlyLast(Pair(u, v, status))
               /\ \A i \in DOMAIN Pair(u, v, status) : Pair(u, v, status)[i].text = {}
               /\ status = "none" => Quiet(Pair(u, v, status))
    <2>1. \A id \in 1..n, role \in Roles, state \in Statuses :
             /\ Message(id, role, state) \in Known(n, K)
             /\ Message(id, role, state).status = state
             /\ Message(id, role, state).text = {}
      BY DEF Message, Known
    <2>2. u \in 1..n /\ v \in 1..n
      BY PlaygroundAssumption DEF FirstId
    <2>3. PICK a \in Known(n, K), b \in Known(n, K) :
             /\ Pair(u, v, status) = <<a, b>> /\ a.status = "none" /\ b.status = status
             /\ a.text = {} /\ b.text = {}
      BY <2>1, <2>2 DEF Roles, Statuses, Pair
    <2>4. /\ Pair(u, v, status) \in Seq(Known(n, K)) /\ Len(Pair(u, v, status)) = 2
          /\ DOMAIN Pair(u, v, status) = 1..2
          /\ Pair(u, v, status)[1] = a /\ Pair(u, v, status)[2] = b
      BY <2>3
    <2>5. ~Generating(a) /\ (status = "none" => ~Generating(b))
      BY <2>3 DEF Generating
    <2>6. QED
      BY <2>3, <2>4, <2>5, PlaygroundAssumption DEF Typed, Quiet, OnlyLast
  <1>3. CASE list = Defaults
    <2>1. list = Pair(2, 3, "none")
      BY <1>3 DEF Defaults, Pair
    <2>2. "none" \in Statuses /\ 2 \in 2..9 /\ 3 \in 2..9
      BY DEF Statuses
    <2>3. QED
      BY <1>2, <2>1, <2>2, Zenon
  <1>4. CASE list \in Files /\ list \notin Openings
    <2>1. PICK status \in Exported : list = File(status)
      BY <1>4 DEF Files
    <2>2. list = Pair(8, 9, status) /\ status \in Statuses /\ 8 \in 2..9 /\ 9 \in 2..9
      BY <2>1 DEF File, Pair, Exported, Statuses
    <2>3. Typed(list, n, K) /\ OnlyLast(list) /\ \A i \in DOMAIN list : list[i].text = {}
      BY <1>2, <2>2, Zenon
    <2>4. QED
      BY <1>4, <2>3
  <1>5. QED
    BY <1>1, <1>3, <1>4 DEF Openings

\* A list of messages is not the mark for no list.
LEMMA NotNoList ==
    ASSUME NEW n, NEW K, NEW list \in Seq(Known(n, K)), NEW i \in DOMAIN list
    PROVE  list # NoList
  <1>1. list[i] \in Known(n, K)
    OBVIOUS
  <1>2. list[i].role # "none"
    BY <1>1 DEF Known, Roles
  <1>3. NoList[1].role = "none" /\ DOMAIN NoList = {1}
    BY DEF NoList, Message
  <1>4. QED
    BY <1>2, <1>3

-----------------------------------------------------------------------------
(* What a step may do to the lists, and what follows for the invariant *)

KindsStay == Sent \subseteq Sent' /\ \A q \in Sent : kind'[q] = kind[q]

StoredStep == \/ stored' = stored
              \/ stored' = NoList
              \/ stored' \in Files
              \/ saves # <<>> /\ stored' = Head(saves)
SavesStep  == \/ saves' = saves
              \/ saves' = Append(saves, messages')
              \/ saves' = <<messages'>>
              \/ saves' = <<>>
              \/ saves # <<>> /\ saves' = Tail(saves)
DialogStep == \/ dialog' = dialog
              \/ dialog' = NoDialog
              \/ \E list \in Files : dialog' = [kind |-> "import", list |-> list]
              \/ \E i \in 1..Len(messages) :
                     /\ i < Len(messages)
                     /\ dialog' = [kind |-> "regenerate", list |-> messages, index |-> i]

Step ==
    /\ nextId' \in Nat /\ nextId <= nextId'
    /\ Connections' /\ KindsStay
    /\ Typed(messages', nextId', Sent')
    /\ StoredStep /\ SavesStep /\ DialogStep
    /\ resend' \in {NoTimer, "question", "edited", "defaults"}
    /\ editing' \in {editing, 0} \union 1..nextId
    /\ overwritten' \in {"nobody", "import", "reset"}
    /\ fresh' \in BOOLEAN /\ broken' \in BOOLEAN /\ revived' \in BOOLEAN

\* The elements of the queue of saves after a step.
LEMMA SavesAre ==
    ASSUME NEW T, saves \in Seq(T), messages' \in T, SavesStep
    PROVE  /\ saves' \in Seq(T)
           /\ \A i \in DOMAIN saves' : \/ saves'[i] = messages'
                                       \/ \E j \in DOMAIN saves : saves'[i] = saves[j]
  <1>1. CASE saves' = saves
    BY <1>1, Zenon
  <1>2. CASE saves' = Append(saves, messages')
    BY <1>2
  <1>3. CASE saves' = <<messages'>>
    BY <1>3
  <1>4. CASE saves # <<>> /\ saves' = Tail(saves)
    <2>1. /\ Tail(saves) \in Seq(T) /\ Len(Tail(saves)) = Len(saves) - 1
          /\ \A i \in 1..Len(Tail(saves)) : Tail(saves)[i] = saves[i + 1]
      BY <1>4, HeadTailProperties
    <2>2. Len(saves) \in Nat
      OBVIOUS
    <2>3. \A i \in 1..Len(saves) - 1 : i + 1 \in DOMAIN saves
      BY <2>2
    <2>4. QED
      BY <1>4, <2>1, <2>2, <2>3
  <1>5. CASE saves' = <<>>
    BY <1>5
  <1>6. QED
    BY <1>1, <1>2, <1>3, <1>4, <1>5, Zenon DEF SavesStep

LEMMA StepTypes == ASSUME PlayTypes, Step PROVE PlayTypes'
  <1> DEFINE S == Known(nextId, Sent)
             T == Known(nextId', Sent')
  <1>1. /\ nextId \in Nat /\ FirstId <= nextId /\ nextId' \in Nat /\ nextId <= nextId'
        /\ Sent \subseteq Sent'
    BY Zenon DEF PlayTypes, Page, Step, KindsStay
  <1>2. /\ S \subseteq T /\ Seq(S) \subseteq Seq(T)
        /\ \A list : Typed(list, nextId, Sent) => Typed(list, nextId', Sent')
    BY <1>1, KnownGrows, Zenon
  <1>3. FirstId <= nextId'
    BY <1>1, PlaygroundAssumption DEF FirstId
  <1> HIDE DEF S, T
  <1>4. Typed(messages', nextId', Sent') /\ messages' \in Seq(T)
    BY Zenon DEF Step, Typed, T
  <1>5. saves \in Seq(Seq(T)) /\ \A i \in DOMAIN saves : Typed(saves[i], nextId', Sent')
    <2>1. saves \in Seq(Seq(S)) /\ \A i \in DOMAIN saves : Typed(saves[i], nextId, Sent)
      BY Zenon DEF PlayTypes, Lists, S
    <2>2. QED
      BY <1>2, <2>1, SeqMonotonic
  <1>6. saves' \in Seq(Seq(T)) /\ \A i \in DOMAIN saves' : Typed(saves'[i], nextId', Sent')
    <2>1. /\ saves' \in Seq(Seq(T))
          /\ \A i \in DOMAIN saves' : \/ saves'[i] = messages'
                                      \/ \E j \in DOMAIN saves : saves'[i] = saves[j]
      BY <1>4, <1>5, SavesAre, Zenon DEF Step
    <2>2. QED
      BY <1>4, <1>5, <2>1, Zenon
  <1>7. stored' = NoList \/ Typed(stored', nextId', Sent')
    <2>1. stored = NoList \/ Typed(stored, nextId', Sent')
      BY <1>2, Zenon DEF PlayTypes, Lists
    <2>2. \A list \in Files : Typed(list, nextId', Sent')
      BY <1>1, <1>3, Provided
    <2>3. saves # <<>> => Typed(Head(saves), nextId', Sent')
      BY <1>5
    <2>4. QED
      BY <2>1, <2>2, <2>3, Zenon DEF Step, StoredStep
  <1>8. /\ dialog'.kind \in {"none", "regenerate", "import"}
        /\ dialog'.kind = "import" => dialog'.list \in Files
        /\ dialog'.kind = "regenerate" => /\ Typed(dialog'.list, nextId', Sent')
                                          /\ dialog'.index \in 1..Len(dialog'.list)
                                          /\ dialog'.index < Len(dialog'.list)
    <2>1. /\ dialog.kind \in {"none", "regenerate", "import"}
          /\ dialog.kind = "import" => dialog.list \in Files
          /\ dialog.kind = "regenerate" => /\ Typed(dialog.list, nextId', Sent')
                                           /\ dialog.index \in 1..Len(dialog.list)
                                           /\ dialog.index < Len(dialog.list)
      BY <1>2, Zenon DEF PlayTypes, Lists, Page
    <2>2. Typed(messages, nextId', Sent')
      BY <1>2, Zenon DEF PlayTypes, Lists
    <2>3. CASE dialog' = dialog
      BY <2>1, <2>3
    <2>4. CASE dialog' = NoDialog \/ \E list \in Files : dialog' = [kind |-> "import", list |-> list]
      BY <2>4 DEF NoDialog
    <2>5. CASE \E i \in 1..Len(messages) :
                   /\ i < Len(messages)
                   /\ dialog' = [kind |-> "regenerate", list |-> messages, index |-> i]
      BY <2>2, <2>5
    <2>6. QED
      BY <2>3, <2>4, <2>5, Zenon DEF Step, DialogStep
  <1>9. editing' \in {0} \union 1..nextId'
    <2>1. editing \in {0} \union 1..nextId /\ editing' \in {editing, 0} \union 1..nextId
      BY Zenon DEF PlayTypes, Page, Step
    <2>2. QED
      BY <1>1, <2>1
  <1>10. Lists'
    BY <1>4, <1>6, <1>7, <1>8, Zenon DEF Step, Lists, T
  <1>11. Page'
    BY <1>1, <1>3, <1>8, <1>9, Zenon DEF Step, Page
  <1>12. QED
    BY <1>10, <1>11, Zenon DEF PlayTypes

\* Only what is shown has to be looked at.
LEMMA StepMaking ==
    ASSUME PlayTypes, Step, Making, OnlyLast(messages'), resend' # NoTimer => Quiet(messages')
    PROVE  Making'
  <1>1. saves \in Seq(Seq(Known(nextId', Sent'))) /\ messages' \in Seq(Known(nextId', Sent'))
    <2>1. /\ nextId \in Nat /\ nextId' \in Nat /\ nextId <= nextId'
          /\ Sent \subseteq Sent'
      BY Zenon DEF PlayTypes, Page, Step, KindsStay
    <2>2. Seq(Known(nextId, Sent)) \subseteq Seq(Known(nextId', Sent'))
      BY <2>1, KnownGrows, Zenon
    <2>3. saves \in Seq(Seq(Known(nextId, Sent)))
      BY Zenon DEF PlayTypes, Lists
    <2>4. QED
      BY <2>2, <2>3, SeqMonotonic DEF Step, Typed
  <1>2. \A i \in DOMAIN saves : OnlyLast(saves[i])
    BY Zenon DEF Making
  <1>3. \A i \in DOMAIN saves' : OnlyLast(saves'[i])
    <2>1. \A i \in DOMAIN saves' : \/ saves'[i] = messages'
                                   \/ \E j \in DOMAIN saves : saves'[i] = saves[j]
      BY <1>1, SavesAre, Zenon DEF Step
    <2>2. QED
      BY <1>2, <2>1, Zenon
  <1>4. stored' # NoList => OnlyLast(stored')
    <2>1. \A list \in Files : OnlyLast(list)
      <3>1. FirstId \in Nat /\ FirstId <= FirstId
        BY PlaygroundAssumption DEF FirstId
      <3>2. QED
        BY <3>1, Provided
    <2>2. saves # <<>> => OnlyLast(Head(saves))
      BY <1>1, <1>2
    <2>3. QED
      BY <2>1, <2>2, Zenon DEF Step, StoredStep, Making
  <1>5. dialog'.kind = "regenerate" => OnlyLast(dialog'.list)
    <2>1. CASE dialog' = dialog
      BY <2>1, Zenon DEF Making
    <2>2. CASE dialog' = NoDialog \/ \E list \in Files : dialog' = [kind |-> "import", list |-> list]
      BY <2>2 DEF NoDialog
    <2>3. CASE \E i \in 1..Len(messages) :
                   /\ i < Len(messages)
                   /\ dialog' = [kind |-> "regenerate", list |-> messages, index |-> i]
      BY <2>3 DEF Making
    <2>4. QED
      BY <2>1, <2>2, <2>3, Zenon DEF Step, DialogStep
  <1>6. QED
    BY <1>3, <1>4, <1>5, Zenon DEF Making

\* A conversation that is queued at once is the last to be stored.
LEMMA SavedAtOnce ==
    ASSUME PlayTypes, Step, saves' = Append(saves, messages') \/ saves' = <<messages'>>
    PROVE  Saving'
  <1> DEFINE T == Known(nextId', Sent')
  <1>1. saves \in Seq(Seq(T)) /\ messages' \in Seq(T)
    <2>1. /\ nextId \in Nat /\ nextId' \in Nat /\ nextId <= nextId'
          /\ Sent \subseteq Sent'
      BY Zenon DEF PlayTypes, Page, Step, KindsStay
    <2>2. Seq(Known(nextId, Sent)) \subseteq Seq(T)
      BY <2>1, KnownGrows, Zenon
    <2>3. saves \in Seq(Seq(Known(nextId, Sent)))
      BY Zenon DEF PlayTypes, Lists
    <2> HIDE DEF T
    <2>4. QED
      BY <2>2, <2>3, SeqMonotonic DEF Step, Typed, T
  <1>2. \A i \in DOMAIN messages' : messages' # NoList
    BY <1>1, NotNoList, Zenon
  <1>3. Holds(messages', messages', kind')
    BY <1>2, Zenon DEF Holds
  <1> HIDE DEF T
  <1>4. saves' # <<>> /\ Last(saves') = messages'
    <2>1. CASE saves' = Append(saves, messages')
      BY <1>1, <2>1, LastOfAppend
    <2>2. CASE saves' = <<messages'>>
      BY <2>2 DEF Last
    <2>3. QED
      BY <2>1, <2>2
  <1>5. QED
    BY <1>3, <1>4, Zenon DEF Saving

\* Answers that are shown without being saved were there before.
LEMMA NothingNew ==
    ASSUME PlayTypes, Saving, KindsStay,
           saves' = saves,
           stored' = stored \/ overwritten' # "nobody",
           overwritten' = "nobody" => overwritten = "nobody",
           \A i \in DOMAIN messages' : Ended(messages'[i], kind') =>
               \E j \in DOMAIN messages : messages'[i] = messages[j]
    PROVE  Saving'
  <1>1. \A j \in DOMAIN messages : messages[j] \in Known(nextId, Sent)
    BY DEF PlayTypes, Lists, Typed
  <1>2. \A j \in DOMAIN messages : messages[j].text \subseteq Sent
    BY <1>1 DEF Known
  <1>3. \A j \in DOMAIN messages : Ended(messages[j], kind') => Ended(messages[j], kind)
    BY <1>2, Zenon DEF KindsStay, Ended
  <1>4. ASSUME NEW list, Holds(list, messages, kind)
        PROVE  Holds(list, messages', kind')
    <2>1. SUFFICES ASSUME NEW i \in DOMAIN messages', Ended(messages'[i], kind')
                   PROVE  list # NoList /\ \E j \in DOMAIN list : list[j] = messages'[i]
      BY Zenon DEF Holds
    <2>2. PICK j \in DOMAIN messages : messages'[i] = messages[j]
      BY <2>1, Zenon
    <2>3. Ended(messages[j], kind)
      BY <1>3, <2>1, <2>2
    <2>4. QED
      BY <1>4, <2>2, <2>3 DEF Holds
  <1>5. QED
    BY <1>4, Zenon DEF Saving

LEMMA NothingEnded ==
    ASSUME \A i \in DOMAIN messages' : ~Ended(messages'[i], kind')
    PROVE  Saving'
  BY Zenon DEF Saving, Holds

\* What the program brings along was not streamed.
LEMMA ProvidedSaving ==
    ASSUME PlayTypes, messages' \in Openings \union Files
    PROVE  Saving'
  <1>1. \A i \in DOMAIN messages' : messages'[i].text = {}
    <2>1. nextId \in Nat /\ FirstId <= nextId
      BY Zenon DEF PlayTypes, Page
    <2>2. QED
      BY <2>1, Provided
  <1>2. QED
    BY <1>1, NothingEnded, Zenon DEF Ended

-----------------------------------------------------------------------------
(* The network *)

NetStep ==
    /\ UNCHANGED <<stored, fresh, resend, editing, dialog, overwritten, revived, nextId,
                   events, kind>>
    /\ streams' \subseteq streams /\ plains' \subseteq plains
    /\ current' \in {current, 0}
    /\ broken' \in BOOLEAN

\* The last message becomes m; it is saved, or it has not ended, or it is the
\* answer of a request without a stream.
Writes(m) ==
    /\ messages # <<>> /\ ~Finished(Last(messages))
    /\ messages' = WithLast(messages, m)
    /\ m \in Known(nextId, Sent)
    /\ Generating(m) => Generating(Last(messages))
    /\ \/ saves' = Append(saves, messages')
       \/ saves' = saves /\ ~Ended(m, kind)

Quiescent == messages' = messages /\ saves' = saves

\* A message gets another status; a request may have written in it.
Mark(m, status) == [m EXCEPT !.status = status]
Extend(m, status, r) == [m EXCEPT !.status = status, !.text = @ \union {r}]
Write(m, status, r) == [m EXCEPT !.status = status, !.text = {r}]

LEMMA Marked ==
    ASSUME NEW n, NEW K, NEW m \in Known(n, K), NEW status \in Statuses
    PROVE  Mark(m, status) \in Known(n, K) /\ Mark(m, status).status = status
  BY DEF Known, Mark

LEMMA Extended ==
    ASSUME NEW n, NEW K, NEW m \in Known(n, K), NEW status \in Statuses, NEW r \in K
    PROVE  Extend(m, status, r) \in Known(n, K) /\ Extend(m, status, r).status = status
  <1>1. PICK k : k = [m EXCEPT !.status = status]
    OBVIOUS
  <1>2. k = [id |-> m.id, role |-> m.role, status |-> status, text |-> m.text]
    BY <1>1 DEF Known
  <1>3. Extend(m, status, r) = [k EXCEPT !.text = m.text \union {r}]
    BY <1>1, Zenon DEF Extend
  <1>4. Extend(m, status, r) =
        [id |-> m.id, role |-> m.role, status |-> status, text |-> m.text \union {r}]
    BY <1>2, <1>3
  <1>5. QED
    BY <1>4 DEF Known

LEMMA Written ==
    ASSUME NEW n, NEW K, NEW m \in Known(n, K), NEW status \in Statuses, NEW r \in K
    PROVE  /\ Write(m, status, r) \in Known(n, K)
           /\ Write(m, status, r).status = status
           /\ Write(m, status, r).text = {r}
  <1>1. PICK k : k = [m EXCEPT !.status = status]
    OBVIOUS
  <1>2. k = [id |-> m.id, role |-> m.role, status |-> status, text |-> m.text]
    BY <1>1 DEF Known
  <1>3. Write(m, status, r) = [k EXCEPT !.text = {r}]
    BY <1>1, Zenon DEF Write
  <1>4. Write(m, status, r) =
        [id |-> m.id, role |-> m.role, status |-> status, text |-> {r}]
    BY <1>2, <1>3
  <1>5. QED
    BY <1>4 DEF Known

LEMMA Shown ==
    ASSUME PlayTypes
    PROVE  /\ messages \in Seq(Known(nextId, Sent))
           /\ \A i \in DOMAIN messages : messages[i] \in Known(nextId, Sent)
           /\ messages # <<>> => Last(messages) \in Known(nextId, Sent)
           /\ Len(messages) \in Nat /\ DOMAIN messages = 1..Len(messages)
  <1>1. messages \in Seq(Known(nextId, Sent))
    BY Zenon DEF PlayTypes, Lists, Typed
  <1>2. messages # <<>> => Last(messages) \in Known(nextId, Sent)
    BY <1>1, LastIn, Zenon
  <1>3. QED
    BY <1>1, <1>2

\* A chunk is written to an answer in the making, or nowhere.
Chunked(list) ==
    \/ list = messages
    \/ \E m \in Known(nextId, Sent) :
          /\ messages # <<>> /\ Generating(Last(messages))
          /\ m.status = "incomplete" /\ list = WithLast(messages, m)

LEMMA UpdateIs ==
    ASSUME PlayTypes, NEW r \in Sent
    PROVE  Chunked(streamMessageUpdate(messages, r))
  <1>1. CASE messages = <<>> \/ Last(messages).role # "assistant" \/ ~Generating(Last(messages))
    BY <1>1, Zenon DEF streamMessageUpdate, Chunked
  <1>2. CASE ~(messages = <<>> \/ Last(messages).role # "assistant" \/ ~Generating(Last(messages)))
    <2>1. PICK m : m = Extend(Last(messages), "incomplete", r)
      OBVIOUS
    <2>2. "incomplete" \in Statuses
      BY DEF Statuses
    <2>3. Last(messages) \in Known(nextId, Sent)
      BY <1>2, Shown, Zenon
    <2>4. m \in Known(nextId, Sent) /\ m.status = "incomplete"
      BY <2>1, <2>2, <2>3, Extended
    <2>5. streamMessageUpdate(messages, r) = WithLast(messages, m)
      BY <1>2, <2>1, Zenon DEF streamMessageUpdate, Extend
    <2>6. QED
      BY <1>2, <2>4, <2>5, Zenon DEF Chunked
  <1>3. QED
    BY <1>1, <1>2, Zenon

LEMMA StatusKinds ==
    ASSUME NEW m
    PROVE  /\ m.status \in {"complete", "error"} => Finished(m) /\ ~Generating(m)
           /\ m.status \in {"loading", "incomplete"} => Generating(m) /\ ~Finished(m)
           /\ Generating(m) => ~Finished(m)
  BY DEF Finished, Generating

LEMMA Completes ==
    ASSUME PlayTypes, NEW list, Chunked(list),
           NEW status \in {"complete", "error"}, completeMessage(list, status)
    PROVE  broken' \in BOOLEAN /\ (Quiescent \/ \E m : Writes(m))
  <1> DEFINE S == Known(nextId, Sent)
  <1>1. messages \in Seq(S) /\ (messages # <<>> => Last(messages) \in S)
    BY Shown, Zenon
  <1>2. status \in Statuses
    BY DEF Statuses
  <1> HIDE DEF S
  <1>3. broken' \in BOOLEAN
    BY DEF completeMessage
  <1>4. CASE list = messages
    <2>1. CASE list = <<>> \/ Finished(Last(list))
      <3>1. Quiescent
        BY <1>4, <2>1, Zenon DEF completeMessage, Quiescent
      <3>2. QED
        BY <1>3, <3>1
    <2>2. CASE ~(list = <<>> \/ Finished(Last(list)))
      <3>1. PICK m : m = Mark(Last(messages), status)
        OBVIOUS
      <3>2. messages' = WithLast(messages, m) /\ saves' = Append(saves, messages')
        BY <1>4, <2>2, <3>1, Zenon DEF completeMessage, Mark
      <3>3. m \in S /\ m.status = status
        BY <1>1, <1>2, <1>4, <2>2, <3>1, Marked DEF S
      <3>4. ~Generating(m)
        BY <3>3, StatusKinds, Zenon
      <3>5. Writes(m)
        BY <1>4, <2>2, <3>2, <3>3, <3>4, Zenon DEF Writes, S
      <3>6. QED
        BY <1>3, <3>5
    <2>3. QED
      BY <2>1, <2>2
  <1>5. ASSUME NEW k \in S, messages # <<>>, Generating(Last(messages)),
               k.status = "incomplete", list = WithLast(messages, k)
        PROVE  \E m : Writes(m)
    <2>1. list \in Seq(S) /\ Replaced(list, messages, k)
      BY <1>1, <1>5, WithLastIs, Zenon
    <2>2. list # <<>> /\ Last(list) = k
      BY <2>1 DEF Replaced, Last
    <2>3. ~Finished(k)
      BY <1>5, StatusKinds, Zenon
    <2>4. PICK m : m = Mark(k, status)
      OBVIOUS
    <2>5. messages' = WithLast(list, m) /\ saves' = Append(saves, messages')
      BY <2>2, <2>3, <2>4, Zenon DEF completeMessage, Mark
    <2>6. m \in S /\ m.status = status
      BY <1>2, <1>5, <2>4, Marked DEF S
    <2>7. messages' = WithLast(messages, m)
      BY <1>1, <1>5, <2>5, <2>6, WithLastTwice, Zenon
    <2>8. ~Generating(m) /\ ~Finished(Last(messages))
      BY <1>5, <2>6, StatusKinds, Zenon
    <2>9. Writes(m)
      BY <1>5, <2>5, <2>6, <2>7, <2>8, Zenon DEF Writes, S
    <2>10. QED
      BY <2>9
  <1>6. QED
    BY <1>3, <1>4, <1>5, Zenon DEF Chunked, S

LEMMA NetworkShape ==
    ASSUME PlayTypes, NEW r \in Requests, NetworkOf(r)
    PROVE  NetStep /\ (Quiescent \/ \E m : Writes(m))
  <1> DEFINE S == Known(nextId, Sent)
  <1>1. broken \in BOOLEAN
    BY Zenon DEF PlayTypes, Page
  <1>2. r \in streams => r \in Sent
    BY DEF PlayTypes, Page, Connections, Sent
  <1>3. messages # <<>> => Last(messages) \in S
    BY Shown, Zenon
  <1> HIDE DEF S
  <1>4. Chunked(messages)
    BY Zenon DEF Chunked
  <1>5. r \in streams => Chunked(streamMessageUpdate(messages, r))
    BY <1>2, UpdateIs, Zenon
  <1>6. CASE Chunk(r)
    <2>1. NetStep
      BY <1>1, <1>6 DEF Chunk, Net, NetStep, userVars, fileVars
    <2>2. Chunked(messages') /\ saves' = saves
      BY <1>5, <1>6, Zenon DEF Chunk
    <2>3. ASSUME NEW k \in S, messages # <<>>, Generating(Last(messages)),
                 k.status = "incomplete", messages' = WithLast(messages, k)
          PROVE  Writes(k)
      <3>1. ~Finished(k) /\ ~Finished(Last(messages))
        BY <2>3, StatusKinds, Zenon
      <3>2. QED
        BY <2>2, <2>3, <3>1, Zenon DEF Writes, Ended, S
    <2>4. QED
      BY <2>1, <2>2, <2>3, Zenon DEF Chunked, Quiescent, S
  <1>7. CASE Done(r)
    <2>1. completeMessage(messages, "complete") /\ r \in Sent
      BY <1>2, <1>7, Zenon DEF Done
    <2>2. broken' \in BOOLEAN /\ (Quiescent \/ \E m : Writes(m))
      BY <1>4, <2>1, Completes
    <2>3. NetStep
      BY <1>7, <2>2 DEF Done, Net, NetStep, userVars, fileVars
    <2>4. QED
      BY <2>2, <2>3
  <1>8. CASE BadChunk(r)
    <2>1. completeMessage(streamMessageUpdate(messages, r), "error") /\ r \in Sent
      BY <1>2, <1>8, Zenon DEF BadChunk
    <2>2. Chunked(streamMessageUpdate(messages, r))
      BY <1>5, <1>8, Zenon DEF BadChunk
    <2>3. broken' \in BOOLEAN /\ (Quiescent \/ \E m : Writes(m))
      BY <2>1, <2>2, Completes
    <2>4. NetStep
      BY <1>8, <2>3 DEF BadChunk, Net, NetStep, userVars, fileVars
    <2>5. QED
      BY <2>3, <2>4
  <1>9. CASE StreamFails(r)
    <2>1. completeMessage(streamMessageUpdate(messages, r), "error") /\ r \in Sent
      BY <1>2, <1>9, Zenon DEF StreamFails
    <2>2. Chunked(streamMessageUpdate(messages, r))
      BY <1>5, <1>9, Zenon DEF StreamFails
    <2>3. broken' \in BOOLEAN /\ (Quiescent \/ \E m : Writes(m))
      BY <2>1, <2>2, Completes
    <2>4. NetStep
      BY <1>9, <2>3 DEF StreamFails, Net, NetStep, userVars, fileVars
    <2>5. QED
      BY <2>3, <2>4
  <1>10. CASE StreamCut(r)
    BY <1>1, <1>10 DEF StreamCut, Net, NetStep, userVars, fileVars, Quiescent
  <1>11. CASE PlainAnswered(r)
    <2>1. NetStep
      BY <1>1, <1>11 DEF PlainAnswered, Net, NetStep, userVars, fileVars
    <2>2. saves' = saves /\ r \in plains
      BY <1>11, Zenon DEF PlainAnswered
    <2>3. kind[r] = "plain" /\ r \in Sent
      BY <2>2 DEF PlayTypes, Page, Connections, Sent
    <2>4. ASSUME NEW status \in {"complete", "error"}, messages # <<>>,
                 Last(messages).status = "loading",
                 messages' = WithLast(messages, [Last(messages) EXCEPT
                                                   !.status = status, !.text = {r}])
          PROVE  \E m : Writes(m)
      <3>1. PICK m : m = Write(Last(messages), status, r)
        OBVIOUS
      <3>2. status \in Statuses
        BY DEF Statuses
      <3>3. m \in S /\ m.status = status /\ m.text = {r}
        BY <1>3, <2>3, <2>4, <3>1, <3>2, Written DEF S
      <3>4. ~Generating(m) /\ ~Finished(Last(messages))
        BY <2>4, <3>3, StatusKinds, Zenon
      <3>5. ~Ended(m, kind)
        BY <2>3, <3>3 DEF Ended
      <3>6. Writes(m)
        BY <2>2, <2>4, <3>1, <3>3, <3>4, <3>5, Zenon DEF Writes, Write, S
      <3>7. QED
        BY <3>6
    <2>5. messages' = messages \/
          \E status \in {"complete", "error"} :
             /\ messages # <<>> /\ Last(messages).status = "loading"
             /\ messages' = WithLast(messages, [Last(messages) EXCEPT
                                                  !.status = status, !.text = {r}])
      BY <1>11, Zenon DEF PlainAnswered
    <2>6. QED
      BY <2>1, <2>2, <2>4, <2>5, Zenon DEF Quiescent
  <1>12. QED
    BY <1>6, <1>7, <1>8, <1>9, <1>10, <1>11, Zenon DEF NetworkOf

LEMMA StepInv ==
    ASSUME PlayInv, Step, Saving',
           ~Hasty /\ Making => OnlyLast(messages') /\ (resend' # NoTimer => Quiet(messages'))
    PROVE  PlayInv'
  <1>1. PlayTypes'
    BY StepTypes, Zenon DEF PlayInv
  <1>2. ~Hasty => Making'
    BY StepMaking, Zenon DEF PlayInv
  <1>3. QED
    BY <1>1, <1>2, Zenon DEF PlayInv

\* One message is replaced, what was there otherwise stays.
LEMMA WritesIs ==
    ASSUME PlayTypes, NEW m, Writes(m)
    PROVE  /\ Typed(messages', nextId, Sent)
           /\ Replaced(messages', messages, m)
           /\ DOMAIN messages = 1..Len(messages) /\ DOMAIN messages' = 1..Len(messages)
           /\ Len(messages) \in Nat
           /\ ~Finished(messages[Len(messages)])
           /\ Generating(m) => Generating(messages[Len(messages)])
  <1>1. messages \in Seq(Known(nextId, Sent)) /\ Len(messages) <= MaxMessages
    BY Zenon DEF PlayTypes, Lists, Typed
  <1>2. messages # <<>> /\ messages' = WithLast(messages, m) /\ m \in Known(nextId, Sent)
    BY Zenon DEF Writes
  <1>3. messages' \in Seq(Known(nextId, Sent)) /\ Replaced(messages', messages, m)
    BY <1>1, <1>2, WithLastIs, Zenon
  <1>4. Last(messages) = messages[Len(messages)]
    BY Zenon DEF Last
  <1>5. DOMAIN messages = 1..Len(messages) /\ DOMAIN messages' = 1..Len(messages)
    BY <1>1, <1>3 DEF Replaced
  <1>6. Len(messages') = Len(messages) /\ Len(messages) \in Nat
    BY <1>1, <1>3 DEF Replaced
  <1>7. QED
    BY <1>1, <1>3, <1>4, <1>5, <1>6, Zenon DEF Typed, Writes

LEMMA NetworkKeeps ==
    ASSUME PlayInv, NEW r \in Requests, NetworkOf(r)
    PROVE  PlayInv'
  <1>1. PlayTypes /\ Saving
    BY Zenon DEF PlayInv
  <1>2. NetStep /\ (Quiescent \/ \E m : Writes(m))
    BY <1>1, NetworkShape, Zenon
  <1>3. Sent' = Sent /\ KindsStay
    BY <1>2 DEF NetStep, Sent, KindsStay
  <1>4. Connections'
    BY <1>1, <1>2 DEF NetStep, PlayTypes, Page, Connections
  <1>5. Typed(messages', nextId, Sent) /\ SavesStep
    <2>1. CASE Quiescent
      BY <1>1, <2>1, Zenon DEF Quiescent, SavesStep, PlayTypes, Lists
    <2>2. ASSUME NEW m, Writes(m)
          PROVE  Typed(messages', nextId, Sent) /\ SavesStep
      BY <1>1, <2>2, WritesIs, Zenon DEF Writes, SavesStep
    <2>3. QED
      BY <1>2, <2>1, <2>2, Zenon
  <1>6. Step
    <2>1. nextId \in Nat /\ nextId <= nextId
      BY <1>1 DEF PlayTypes, Page
    <2>2. /\ resend \in {NoTimer, "question", "edited", "defaults"}
          /\ overwritten \in {"nobody", "import", "reset"}
          /\ fresh \in BOOLEAN /\ revived \in BOOLEAN
      BY <1>1, Zenon DEF PlayTypes, Page
    <2>3. editing' \in {editing, 0} \union 1..nextId
      BY <1>2 DEF NetStep
    <2>4. QED
      BY <1>2, <1>3, <1>4, <1>5, <2>1, <2>2, <2>3, Zenon
         DEF Step, NetStep, StoredStep, DialogStep
  <1>7. Making => OnlyLast(messages') /\ (resend' # NoTimer => Quiet(messages'))
    <2>1. SUFFICES ASSUME Making
                   PROVE  OnlyLast(messages') /\ (resend # NoTimer => Quiet(messages'))
      BY <1>2, Zenon DEF NetStep
    <2>2. OnlyLast(messages) /\ (resend # NoTimer => Quiet(messages))
      BY <2>1, Zenon DEF Making
    <2>3. CASE Quiescent
      BY <2>2, <2>3, Zenon DEF Quiescent
    <2>4. ASSUME NEW m, Writes(m)
          PROVE  OnlyLast(messages') /\ (resend # NoTimer => Quiet(messages'))
      <3>1. /\ Replaced(messages', messages, m)
            /\ DOMAIN messages = 1..Len(messages) /\ DOMAIN messages' = 1..Len(messages)
            /\ Generating(m) => Generating(messages[Len(messages)])
        BY <1>1, <2>4, WritesIs, Zenon
      <3>2. OnlyLast(messages')
        BY <2>2, <3>1, Zenon DEF OnlyLast, Replaced
      <3>3. Quiet(messages) => Quiet(messages')
        BY <3>1, Zenon DEF Quiet, Replaced
      <3>4. QED
        BY <2>2, <3>2, <3>3, Zenon
    <2>5. QED
      BY <1>2, <2>3, <2>4, Zenon
  <1>8. Saving'
    <2>1. CASE Quiescent
      BY <1>1, <1>2, <1>3, <2>1, NothingNew, Zenon DEF Quiescent, NetStep, Ended
    <2>2. ASSUME NEW m, Writes(m)
          PROVE  Saving'
      <3>1. CASE saves' = Append(saves, messages')
        BY <1>1, <1>6, <3>1, SavedAtOnce
      <3>2. CASE saves' = saves /\ ~Ended(m, kind)
        <4>1. /\ Replaced(messages', messages, m)
              /\ DOMAIN messages = 1..Len(messages) /\ DOMAIN messages' = 1..Len(messages)
          BY <1>1, <2>2, WritesIs, Zenon
        <4>2. kind' = kind
          BY <1>2, Zenon DEF NetStep
        <4>3. \A i \in DOMAIN messages' : Ended(messages'[i], kind') =>
                  \E j \in DOMAIN messages : messages'[i] = messages[j]
          BY <3>2, <4>1, <4>2, Zenon DEF Replaced
        <4>4. QED
          BY <1>1, <1>2, <1>3, <3>2, <4>3, NothingNew, Zenon DEF NetStep
      <3>3. QED
        BY <2>2, <3>1, <3>2, Zenon DEF Writes
    <2>3. QED
      BY <1>2, <2>1, <2>2, Zenon
  <1>9. QED
    BY <1>6, <1>7, <1>8, StepInv, Zenon

\* The network never touches an answer that has ended.
LEMMA NetworkLeaves ==
    ASSUME PlayTypes, NEW r \in Requests, NetworkOf(r),
           NEW i \in DOMAIN messages, Finished(messages[i])
    PROVE  i \in DOMAIN messages' /\ messages'[i] = messages[i]
  <1>1. Quiescent \/ \E m : Writes(m)
    BY NetworkShape, Zenon
  <1>2. CASE Quiescent
    BY <1>2, Zenon DEF Quiescent
  <1>3. ASSUME NEW m, Writes(m)
        PROVE  i \in DOMAIN messages' /\ messages'[i] = messages[i]
    <2>1. /\ Replaced(messages', messages, m)
          /\ DOMAIN messages = 1..Len(messages) /\ DOMAIN messages' = 1..Len(messages)
          /\ ~Finished(messages[Len(messages)])
      BY <1>3, WritesIs, Zenon
    <2>2. QED
      BY <2>1, Zenon DEF Replaced
  <1>4. QED
    BY <1>1, <1>2, <1>3, Zenon

-----------------------------------------------------------------------------
(* Steps that send no request *)

Calls == /\ nextId' = nextId /\ kind' = kind
         /\ streams' \subseteq streams /\ plains' \subseteq plains
         /\ current' \in {current, 0}
Flags == /\ resend' \in {resend, NoTimer, "question", "edited", "defaults"}
         /\ editing' \in {editing, 0} \union 1..nextId
         /\ overwritten' \in {overwritten, "nobody", "import", "reset"}
         /\ fresh' \in {fresh} \union BOOLEAN
         /\ broken' \in {broken} \union BOOLEAN
         /\ revived' \in {revived} \union BOOLEAN

LEMMA StepOf ==
    ASSUME PlayTypes, Calls, Flags, Typed(messages', nextId, Sent),
           StoredStep, SavesStep, DialogStep
    PROVE  Step /\ KindsStay
  <1>1. Sent' = Sent /\ KindsStay
    BY DEF Calls, Sent, KindsStay
  <1>2. Connections'
    BY DEF Calls, PlayTypes, Page, Connections
  <1>3. nextId' \in Nat /\ nextId <= nextId' /\ nextId' = nextId
    BY DEF Calls, PlayTypes, Page
  <1>4. /\ resend' \in {NoTimer, "question", "edited", "defaults"}
        /\ overwritten' \in {"nobody", "import", "reset"}
        /\ fresh' \in BOOLEAN /\ broken' \in BOOLEAN /\ revived' \in BOOLEAN
        /\ editing' \in {editing, 0} \union 1..nextId
    BY Zenon DEF Flags, PlayTypes, Page
  <1>5. QED
    BY <1>1, <1>2, <1>3, <1>4, Zenon DEF Step

\* The user is there when no timer is about to act, unless in haste.
LEMMA NobodyWaits == ASSUME ~Hasty, Calm PROVE resend = NoTimer /\ saves = <<>>
  BY Zenon DEF Calm

LEMMA EveryFlag == ASSUME PlayTypes, UNCHANGED <<resend, editing, overwritten, fresh, broken, revived>>
                   PROVE  Flags
  BY DEF Flags

LEMMA StopKeeps == ASSUME PlayInv, onStopGenerator PROVE PlayInv'
  <1>1. PlayTypes
    BY Zenon DEF PlayInv
  <1>2. /\ messages # <<>> /\ Last(messages) \in Known(nextId, Sent)
        /\ messages \in Seq(Known(nextId, Sent)) /\ Len(messages) <= MaxMessages
    BY <1>1, Shown, Zenon DEF onStopGenerator, LastGenerating, PlayTypes, Lists, Typed
  <1>3. PICK m : m = Mark(Last(messages), "complete")
    OBVIOUS
  <1>4. m \in Known(nextId, Sent) /\ ~Generating(m)
    <2>1. "complete" \in Statuses
      BY DEF Statuses
    <2>2. m \in Known(nextId, Sent) /\ m.status = "complete"
      BY <1>2, <1>3, <2>1, Marked, Zenon
    <2>3. QED
      BY <2>2 DEF Generating
  <1>5. messages' = WithLast(messages, m) /\ saves' = Append(saves, messages')
    BY <1>3, Zenon DEF onStopGenerator, Mark
  <1>6. messages' \in Seq(Known(nextId, Sent)) /\ Replaced(messages', messages, m)
    BY <1>2, <1>4, <1>5, WithLastIs, Zenon
  <1>7. Typed(messages', nextId, Sent)
    BY <1>2, <1>6 DEF Typed, Replaced
  <1>8. Calls /\ Flags /\ StoredStep /\ DialogStep /\ SavesStep /\ Calm
    BY <1>5 DEF onStopGenerator, User, Idle, Calls, Flags, StoredStep, DialogStep,
                SavesStep, userVars, fileVars
  <1>9. Step
    BY <1>1, <1>7, <1>8, StepOf, Zenon
  <1>10. ASSUME ~Hasty, Making
         PROVE  OnlyLast(messages') /\ (resend' # NoTimer => Quiet(messages'))
    <2>1. resend' = NoTimer
      BY <1>8, <1>10, NobodyWaits, Zenon DEF onStopGenerator, userVars
    <2>2. OnlyLast(messages')
      <3>1. DOMAIN messages = 1..Len(messages) /\ DOMAIN messages' = 1..Len(messages)
        BY <1>2, <1>6 DEF Replaced
      <3>2. QED
        BY <1>6, <1>10, <3>1, Zenon DEF Making, OnlyLast, Replaced
    <2>3. QED
      BY <2>1, <2>2, Zenon
  <1>11. Saving'
    BY <1>1, <1>5, <1>9, SavedAtOnce, Zenon
  <1>12. QED
    BY <1>9, <1>10, <1>11, StepInv, Zenon

\* A step to a list that the program brings along.
LEMMA ProvidedKeeps ==
    ASSUME PlayInv, messages' \in Openings \union Files,
           messages' \in Openings \/ Hasty \/ resend' = NoTimer, Calls, Flags,
           StoredStep, SavesStep, DialogStep
    PROVE  PlayInv'
  <1>1. PlayTypes
    BY Zenon DEF PlayInv
  <1>2. /\ Typed(messages', nextId, Sent) /\ OnlyLast(messages')
        /\ messages' \in Openings => Quiet(messages')
    <2>1. nextId \in Nat /\ FirstId <= nextId
      BY <1>1, Zenon DEF PlayTypes, Page
    <2>2. QED
      BY <2>1, Provided
  <1>3. Step
    BY <1>1, <1>2, StepOf, Zenon
  <1>4. ASSUME ~Hasty PROVE OnlyLast(messages') /\ (resend' # NoTimer => Quiet(messages'))
    BY <1>2, <1>4, Zenon
  <1>5. Saving'
    BY <1>1, ProvidedSaving
  <1>6. QED
    BY <1>3, <1>4, <1>5, StepInv, Zenon

LEMMA ClearKeeps == ASSUME PlayInv, handleClearMessages PROVE PlayInv'
  <1>1. messages' = <<>> /\ saves' = Append(saves, messages')
    BY Zenon DEF handleClearMessages
  <1>2. Calls /\ Flags /\ StoredStep /\ SavesStep /\ DialogStep
    BY <1>1 DEF handleClearMessages, User, Idle, Calls, Flags, StoredStep, DialogStep,
                SavesStep, userVars, fileVars, netVars
  <1>3. QED
    BY <1>1, <1>2, ProvidedKeeps DEF Openings

LEMMA LanguageKeeps == ASSUME PlayInv, LanguageChanges PROVE PlayInv'
  <1>1. Calls /\ Flags /\ StoredStep /\ SavesStep /\ DialogStep
    BY DEF LanguageChanges, User, Idle, Calls, Flags, StoredStep, DialogStep,
           SavesStep, userVars, fileVars, netVars
  <1>2. messages' = Defaults
    BY Zenon DEF LanguageChanges
  <1>3. QED
    BY <1>1, <1>2, ProvidedKeeps DEF Openings

\* A step that leaves the conversation alone, or cuts it down, without saving it.
LEMMA PartKeeps ==
    ASSUME PlayInv, Typed(messages', nextId, Sent), Part(messages', messages),
           Calls, Flags, StoredStep, DialogStep, saves' = saves,
           stored' = stored \/ overwritten' # "nobody",
           overwritten' = "nobody" => overwritten = "nobody",
           ~Hasty /\ Making => OnlyLast(messages') /\ (resend' # NoTimer => Quiet(messages'))
    PROVE  PlayInv'
  <1>1. PlayTypes /\ Saving
    BY Zenon DEF PlayInv
  <1>2. SavesStep
    BY Zenon DEF SavesStep
  <1>3. Step /\ KindsStay
    BY <1>1, <1>2, StepOf, Zenon
  <1>4. \A i \in DOMAIN messages' : \E j \in DOMAIN messages : messages'[i] = messages[j]
    BY Zenon DEF Part
  <1>5. Saving'
    BY <1>1, <1>3, <1>4, NothingNew, Zenon
  <1>6. QED
    BY <1>3, <1>5, StepInv, Zenon

LEMMA SameKeeps ==
    ASSUME PlayInv, messages' = messages, resend' = resend, Calls, Flags, StoredStep, DialogStep,
           saves' = saves, stored' = stored \/ overwritten' # "nobody",
           overwritten' = "nobody" => overwritten = "nobody"
    PROVE  PlayInv'
  <1>1. Typed(messages', nextId, Sent) /\ Part(messages', messages)
    BY Zenon DEF PlayInv, PlayTypes, Lists, Part
  <1>2. Making => OnlyLast(messages') /\ (resend' # NoTimer => Quiet(messages'))
    BY Zenon DEF Making
  <1>3. QED
    BY <1>1, <1>2, PartKeeps, Zenon

\* A step that saves what it shows.
LEMMA SavedKeeps ==
    ASSUME PlayInv, Typed(messages', nextId, Sent), Calls, Flags, StoredStep, DialogStep,
           saves' = Append(saves, messages') \/ saves' = <<messages'>>,
           ~Hasty /\ Making => OnlyLast(messages') /\ (resend' # NoTimer => Quiet(messages'))
    PROVE  PlayInv'
  <1>1. PlayTypes
    BY Zenon DEF PlayInv
  <1>2. SavesStep
    BY Zenon DEF SavesStep
  <1>3. Step
    BY <1>1, <1>2, StepOf, Zenon
  <1>4. Saving'
    BY <1>1, <1>3, SavedAtOnce
  <1>5. QED
    BY <1>3, <1>4, StepInv, Zenon

LEMMA ImportAskKeeps ==
    ASSUME PlayInv, NEW status \in Exported, handleFileChange(status) PROVE PlayInv'
  <1>1. Calls /\ Flags /\ StoredStep /\ DialogStep
    <2>1. File(status) \in Files
      BY DEF Files
    <2>2. StoredStep /\ DialogStep
      BY <2>1, Zenon DEF handleFileChange, StoredStep, DialogStep
    <2>3. QED
      BY <2>2 DEF handleFileChange, Idle, Calls, Flags, netVars
  <1>2. /\ messages' = messages /\ resend' = resend /\ saves' = saves
        /\ overwritten' = "import"
    BY Zenon DEF handleFileChange
  <1>3. overwritten' # "nobody"
    BY <1>2
  <1>4. QED
    BY <1>1, <1>2, <1>3, SameKeeps, Zenon

LEMMA ImportKeeps == ASSUME PlayInv, handleConfigImport PROVE PlayInv'
  <1>0. revived \in BOOLEAN /\ dialog.list \in Files
    BY Zenon DEF handleConfigImport, PlayInv, PlayTypes, Page
  <1>1. Calls /\ Flags /\ StoredStep /\ SavesStep /\ DialogStep
    BY <1>0 DEF handleConfigImport, Calls, Flags, StoredStep, SavesStep, DialogStep, netVars
  <1>2. CASE messages' = dialog.list
    <2>1. Hasty \/ resend' = NoTimer
      BY NobodyWaits, Zenon DEF handleConfigImport
    <2>2. messages' \in Openings \union Files
      BY <1>0, <1>2
    <2>3. QED
      BY <1>1, <2>1, <2>2, ProvidedKeeps, Zenon
  <1>3. CASE UNCHANGED <<messages, overwritten>>
    <2>1. /\ messages' = messages /\ overwritten' = overwritten
          /\ resend' = resend /\ saves' = saves /\ stored' = stored
      BY <1>3, Zenon DEF handleConfigImport
    <2>2. QED
      BY <1>1, <2>1, SameKeeps, Zenon
  <1>4. QED
    BY <1>2, <1>3, Zenon DEF handleConfigImport

LEMMA ResetKeeps ==
    ASSUME PlayInv, NEW all \in BOOLEAN, handleConfigReset(all) PROVE PlayInv'
  <1>1. Calls /\ Flags /\ StoredStep /\ SavesStep /\ DialogStep
    BY DEF handleConfigReset, Idle, Calls, Flags, StoredStep, SavesStep, DialogStep, netVars
  <1>2. CASE all
    BY <1>1, <1>2, ProvidedKeeps DEF handleConfigReset, Openings
  <1>3. CASE ~all
    <2>1. /\ messages' = messages /\ resend' = resend /\ saves' = saves
          /\ overwritten' = "reset"
      BY <1>3, Zenon DEF handleConfigReset
    <2>2. overwritten' # "nobody"
      BY <2>1
    <2>3. QED
      BY <1>1, <2>1, <2>2, SameKeeps, Zenon
  <1>4. QED
    BY <1>2, <1>3

\* A conversation rebuilt from the body of a request has no answer in it that is in
\* the making or has ended.
LEMMA RebuiltKeeps == ASSUME PlayInv, syncCustomBodyToMessage PROVE PlayInv'
  <1>1. PlayTypes
    BY Zenon DEF PlayInv
  <1>2. PICK n \in 0..Len(messages) :
           messages' = [i \in 1..n |-> [messages[i] EXCEPT !.id = i, !.status = "none"]]
    BY Zenon DEF syncCustomBodyToMessage
  <1>3. /\ messages \in Seq(Known(nextId, Sent)) /\ Len(messages) <= MaxMessages
        /\ nextId \in Nat /\ FirstId <= nextId
    BY <1>1, Zenon DEF PlayTypes, Lists, Page, Typed
  <1>4. n \in Nat /\ n <= MaxMessages /\ \A i \in 1..n : i \in DOMAIN messages /\ i \in 1..nextId
    BY <1>3, PlaygroundAssumption DEF FirstId
  <1>5. ASSUME NEW i \in 1..n
        PROVE  /\ [messages[i] EXCEPT !.id = i, !.status = "none"] \in Known(nextId, Sent)
               /\ [messages[i] EXCEPT !.id = i, !.status = "none"].status = "none"
    <2>1. messages[i] \in Known(nextId, Sent) /\ i \in 1..nextId
      BY <1>3, <1>4
    <2>2. QED
      BY <2>1 DEF Known, Statuses
  <1>6. /\ DOMAIN messages' = 1..n
        /\ \A i \in 1..n : messages'[i] \in Known(nextId, Sent) /\ messages'[i].status = "none"
    BY <1>2, <1>5
  <1>7. Typed(messages', nextId, Sent)
    <2>1. messages' = [i \in 1..n |-> messages'[i]]
      BY <1>2
    <2>2. messages' \in Seq(Known(nextId, Sent)) /\ Len(messages') = n
      BY <1>4, <1>6, <2>1
    <2>3. QED
      BY <1>4, <2>2 DEF Typed
  <1>8. Quiet(messages') /\ \A i \in DOMAIN messages' : ~Ended(messages'[i], kind')
    BY <1>6 DEF Quiet, Generating, Ended, Finished
  <1>9. Calls /\ Flags /\ StoredStep /\ SavesStep /\ DialogStep
    BY DEF syncCustomBodyToMessage, Calls, Flags, StoredStep, SavesStep, DialogStep, netVars,
           userVars, fileVars
  <1>10. Step
    BY <1>1, <1>7, <1>9, StepOf, Zenon
  <1>11. OnlyLast(messages')
    BY <1>8, QuietIsOnly
  <1>12. Saving'
    BY <1>8, NothingEnded, Zenon
  <1>13. QED
    BY <1>8, <1>10, <1>11, <1>12, StepInv, Zenon

-----------------------------------------------------------------------------
(* The buttons of a message *)

LEMMA ActIs ==
    ASSUME NEW i, Act(i)
    PROVE  Quiet(messages) /\ broken' = broken /\ overwritten' = overwritten /\ revived' = revived
  BY Zenon DEF Act, User, Idle, fileVars, AnyGenerating, Quiet

LEMMA AskAgainKeeps ==
    ASSUME PlayInv, NEW i \in DOMAIN messages, handleMessageReset(i) PROVE PlayInv'
  <1>1. /\ messages \in Seq(Known(nextId, Sent)) /\ Len(messages) \in Nat
        /\ DOMAIN messages = 1..Len(messages) /\ Len(messages) <= MaxMessages
    BY Shown, Zenon DEF PlayInv, PlayTypes, Lists, Typed
  <1>2. /\ Quiet(messages) /\ broken' = broken /\ overwritten' = overwritten
        /\ revived' = revived
    BY ActIs, Zenon DEF handleMessageReset
  <1>3. PICK q \in 1..i : messages' = SubSeq(messages, 1, q - 1)
    BY Zenon DEF handleMessageReset
  <1>4. PICK b \in Nat : b = q - 1 /\ b <= Len(messages)
    BY <1>1
  <1>5. /\ messages' \in Seq(Known(nextId, Sent)) /\ Part(messages', messages)
        /\ Len(messages') = IF 1 <= b THEN b - 1 + 1 ELSE 0
    <2>1. messages' = SubSeq(messages, 1, b)
      BY <1>3, <1>4
    <2>2. 1 \in Nat \ {0}
      OBVIOUS
    <2>3. QED
      BY <1>1, <1>4, <2>1, <2>2, PartOfSub
  <1>6. Typed(messages', nextId, Sent)
    BY <1>1, <1>4, <1>5, PlaygroundAssumption DEF Typed
  <1>7. Calls /\ Flags /\ StoredStep /\ DialogStep /\ saves' = saves /\ stored' = stored
    BY <1>2 DEF handleMessageReset, Calls, Flags, StoredStep, DialogStep, netVars
  <1>8. Quiet(messages') /\ OnlyLast(messages')
    BY <1>2, <1>5, QuietParts, QuietIsOnly
  <1>9. QED
    BY <1>2, <1>5, <1>6, <1>7, <1>8, PartKeeps, Zenon

LEMMA DeleteKeeps ==
    ASSUME PlayInv, NEW i \in DOMAIN messages, handleMessageDelete(i) PROVE PlayInv'
  <1>1. /\ messages \in Seq(Known(nextId, Sent)) /\ Len(messages) \in Nat
        /\ DOMAIN messages = 1..Len(messages) /\ Len(messages) <= MaxMessages
    BY Shown, Zenon DEF PlayInv, PlayTypes, Lists, Typed
  <1>2. /\ Quiet(messages) /\ broken' = broken /\ overwritten' = overwritten
        /\ revived' = revived
    BY ActIs, Zenon DEF handleMessageDelete
  <1>3. PICK k \in {i + 1, i + 2} :
           messages' = SubSeq(messages, 1, i - 1) \o SubSeq(messages, k, Len(messages))
    BY DEF handleMessageDelete
  <1>4. PICK b \in Nat : b = i - 1 /\ b + 1 <= Len(messages) /\ k \in Nat \ {0} /\ k > b
    BY <1>1
  <1>5. PICK x, y : x = SubSeq(messages, 1, b) /\ y = SubSeq(messages, k, Len(messages))
    OBVIOUS
  <1>6. /\ x \in Seq(Known(nextId, Sent)) /\ Part(x, messages)
        /\ Len(x) = IF 1 <= b THEN b - 1 + 1 ELSE 0
    <2>1. 1 \in Nat \ {0} /\ b <= Len(messages)
      BY <1>1, <1>4
    <2>2. QED
      BY <1>1, <1>5, <2>1, PartOfSub
  <1>7. /\ y \in Seq(Known(nextId, Sent)) /\ Part(y, messages)
        /\ Len(y) = IF k <= Len(messages) THEN Len(messages) - k + 1 ELSE 0
    <2>1. Len(messages) <= Len(messages) /\ k \in Nat \ {0}
      BY <1>1, <1>4
    <2>2. QED
      BY <1>1, <1>5, <2>1, PartOfSub
  <1>8. messages' = x \o y
    BY <1>3, <1>4, <1>5
  <1>9. Part(messages', messages)
    BY <1>1, <1>6, <1>7, <1>8, PartOfTwo
  <1>10. messages' \in Seq(Known(nextId, Sent)) /\ Len(messages') = Len(x) + Len(y)
    BY <1>6, <1>7, <1>8, ConcatProperties
  <1>11. Typed(messages', nextId, Sent)
    <2>1. MaxMessages \in Nat
      BY PlaygroundAssumption
    <2>2. Len(x) = b
      BY <1>4, <1>6
    <2>3. Len(y) \in Nat /\ Len(y) <= Len(messages) - b
      BY <1>1, <1>4, <1>7
    <2>4. Len(messages') <= MaxMessages
      BY <1>1, <1>4, <1>10, <2>1, <2>2, <2>3
    <2>5. QED
      BY <1>10, <2>4, Zenon DEF Typed
  <1>12. Calls /\ Flags /\ StoredStep /\ DialogStep /\ saves' = Append(saves, messages')
    BY <1>2 DEF handleMessageDelete, Calls, Flags, StoredStep, DialogStep, netVars, userVars
  <1>13. Quiet(messages') /\ OnlyLast(messages')
    BY <1>2, <1>9, QuietParts, QuietIsOnly
  <1>14. QED
    BY <1>11, <1>12, <1>13, SavedKeeps, Zenon

\* The other role for a message; its status stays.
Toggled(m) == [m EXCEPT !.role = IF @ = "assistant" THEN "system" ELSE "assistant"]

LEMMA ToggledIs ==
    ASSUME NEW n, NEW K, NEW m \in Known(n, K)
    PROVE  Toggled(m) \in Known(n, K) /\ Toggled(m).status = m.status
  <1>1. Toggled(m) = [id |-> m.id, status |-> m.status, text |-> m.text,
                      role |-> IF m.role = "assistant" THEN "system" ELSE "assistant"]
    BY DEF Known, Toggled
  <1>2. QED
    BY <1>1 DEF Known, Roles

LEMMA ToggleKeeps ==
    ASSUME PlayInv, NEW i \in DOMAIN messages, handleRoleToggle(i) PROVE PlayInv'
  <1>1. /\ messages \in Seq(Known(nextId, Sent)) /\ Len(messages) \in Nat
        /\ DOMAIN messages = 1..Len(messages) /\ Len(messages) <= MaxMessages
        /\ messages[i] \in Known(nextId, Sent)
    BY Shown, Zenon DEF PlayInv, PlayTypes, Lists, Typed
  <1>2. /\ Quiet(messages) /\ broken' = broken /\ overwritten' = overwritten
        /\ revived' = revived
    BY ActIs, Zenon DEF handleRoleToggle
  <1>3. PICK m : m = Toggled(messages[i])
    OBVIOUS
  <1>4. m \in Known(nextId, Sent) /\ m.status = messages[i].status
    BY <1>1, <1>3, ToggledIs, Zenon
  <1>5. messages' = [messages EXCEPT ![i] = m]
    BY <1>3, Zenon DEF handleRoleToggle, Toggled
  <1>6. /\ messages' \in Seq(Known(nextId, Sent)) /\ Len(messages') = Len(messages)
        /\ DOMAIN messages' = DOMAIN messages
        /\ \A j \in DOMAIN messages : messages'[j] = IF j = i THEN m ELSE messages[j]
    BY <1>1, <1>4, <1>5
  <1>7. Typed(messages', nextId, Sent)
    BY <1>1, <1>6 DEF Typed
  <1>8. Quiet(messages') /\ OnlyLast(messages')
    <2>1. Quiet(messages')
      BY <1>2, <1>4, <1>6, Zenon DEF Quiet, Generating
    <2>2. QED
      BY <2>1, QuietIsOnly
  <1>9. Calls /\ Flags /\ StoredStep /\ DialogStep /\ saves' = Append(saves, messages')
    BY <1>2 DEF handleRoleToggle, Calls, Flags, StoredStep, DialogStep, netVars, userVars
  <1>10. QED
    BY <1>7, <1>8, <1>9, SavedKeeps, Zenon

LEMMA EditKeeps ==
    ASSUME PlayInv, NEW i \in DOMAIN messages, handleMessageEdit(i) PROVE PlayInv'
  <1>1. messages[i] \in Known(nextId, Sent)
    BY Shown, Zenon DEF PlayInv
  <1>2. messages[i].id \in 1..nextId
    BY <1>1 DEF Known
  <1>3. broken' = broken /\ overwritten' = overwritten /\ revived' = revived
    BY ActIs, Zenon DEF handleMessageEdit
  <1>4. Calls /\ Flags /\ StoredStep /\ DialogStep
    BY <1>2, <1>3 DEF handleMessageEdit, Calls, Flags, StoredStep, DialogStep, netVars
  <1>5. messages' = messages /\ resend' = resend /\ saves' = saves /\ stored' = stored
    BY Zenon DEF handleMessageEdit
  <1>6. QED
    BY <1>3, <1>4, <1>5, SameKeeps, Zenon

LEMMA EditSaveKeeps ==
    ASSUME PlayInv, NEW i \in DOMAIN messages, handleEditSave(i) PROVE PlayInv'
  <1>1. Len(messages) \in Nat /\ DOMAIN messages = 1..Len(messages)
    BY Shown, Zenon DEF PlayInv
  <1>2. Calls /\ Flags /\ StoredStep
    BY DEF handleEditSave, User, Idle, Calls, Flags, StoredStep, netVars, fileVars
  <1>3. /\ messages' = messages /\ resend' = resend /\ stored' = stored
        /\ overwritten' = overwritten
    BY Zenon DEF handleEditSave, User, fileVars
  <1>4. CASE dialog' = [kind |-> "regenerate", list |-> messages, index |-> i]
             /\ i < Len(messages) /\ saves' = saves
    <2>1. DialogStep
      BY <1>1, <1>4 DEF DialogStep
    <2>2. QED
      BY <1>2, <1>3, <1>4, <2>1, SameKeeps, Zenon
  <1>5. CASE saves' = Append(saves, messages) /\ dialog' = dialog
    <2>1. Typed(messages', nextId, Sent) /\ DialogStep /\ saves' = Append(saves, messages')
      BY <1>3, <1>5, Zenon DEF PlayInv, PlayTypes, Lists, DialogStep
    <2>2. Making => OnlyLast(messages') /\ (resend' # NoTimer => Quiet(messages'))
      BY <1>3, Zenon DEF Making
    <2>3. QED
      BY <1>2, <2>1, <2>2, SavedKeeps, Zenon
  <1>6. QED
    BY <1>4, <1>5, Zenon DEF handleEditSave

LEMMA ActionsKeep ==
    ASSUME PlayInv, NEW i \in DOMAIN messages, Actions(i) PROVE PlayInv'
  BY AskAgainKeeps, DeleteKeeps, ToggleKeeps, EditKeeps, EditSaveKeeps, Zenon DEF Actions

\* The question goes on from where it was edited, or the conversation of that
\* moment comes back.
LEMMA EditAnsweredKeeps == ASSUME PlayInv, EditAnswered PROVE PlayInv'
  <1>1. /\ Typed(dialog.list, nextId, Sent)
        /\ dialog.index \in 1..Len(dialog.list) /\ dialog.index < Len(dialog.list)
    BY Zenon DEF PlayInv, PlayTypes, Lists, EditAnswered
  <1>2. revived \in BOOLEAN
    BY Zenon DEF PlayInv, PlayTypes, Page
  <1>3. Calls /\ Flags /\ StoredStep /\ DialogStep /\ saves' = Append(saves, messages')
    BY <1>2 DEF EditAnswered, Calls, Flags, StoredStep, DialogStep, netVars
  <1>4. CASE messages' = SubSeq(dialog.list, 1, dialog.index) /\ resend' = "edited"
    <2>1. PICK list \in Seq(Known(nextId, Sent)) :
             list = dialog.list /\ Len(list) <= MaxMessages
      BY <1>1, Zenon DEF Typed
    <2>2. PICK b \in Nat : b = dialog.index /\ 1 <= b /\ b < Len(list)
      BY <1>1, <2>1
    <2>3. /\ messages' \in Seq(Known(nextId, Sent)) /\ Len(messages') = b
          /\ \A j \in 1..b : messages'[j] = list[j]
      <3>1. messages' = SubSeq(list, 1, b)
        BY <1>4, <2>1, <2>2
      <3>2. \A j \in 1..b : list[j] \in Known(nextId, Sent)
        BY <2>1, <2>2
      <3>3. /\ SubSeq(list, 1, b) \in Seq(Known(nextId, Sent))
            /\ Len(SubSeq(list, 1, b)) = IF 1 <= b THEN b - 1 + 1 ELSE 0
            /\ \A j \in 1..b - 1 + 1 : SubSeq(list, 1, b)[j] = list[1 + j - 1]
        BY <3>2, SubSeqProperties
      <3>4. QED
        BY <2>2, <3>1, <3>3
    <2>4. Typed(messages', nextId, Sent)
      BY <2>1, <2>2, <2>3, PlaygroundAssumption DEF Typed
    <2>5. ASSUME Making PROVE Quiet(messages') /\ OnlyLast(messages')
      <3>1. OnlyLast(list)
        BY <1>1, <2>1, <2>5, Zenon DEF Making, EditAnswered
      <3>2. \A j \in 1..b : j \in DOMAIN list /\ j # Len(list)
        BY <2>1, <2>2
      <3>3. DOMAIN messages' = 1..b
        BY <2>3
      <3>4. Quiet(messages')
        BY <2>3, <3>1, <3>2, <3>3, Zenon DEF OnlyLast, Quiet
      <3>5. QED
        BY <3>4, QuietIsOnly
    <2>6. QED
      BY <1>3, <2>4, <2>5, SavedKeeps, Zenon
  <1>5. CASE messages' = dialog.list /\ resend' = resend
    <2>1. ASSUME ~Hasty, Making
          PROVE  OnlyLast(messages') /\ (resend' # NoTimer => Quiet(messages'))
      <3>1. resend = NoTimer
        BY <2>1, NobodyWaits, Zenon DEF EditAnswered
      <3>2. OnlyLast(dialog.list)
        BY <2>1, Zenon DEF Making, EditAnswered
      <3>3. QED
        BY <1>5, <3>1, <3>2, Zenon
    <2>2. Typed(messages', nextId, Sent)
      BY <1>1, <1>5, Zenon
    <2>3. QED
      BY <1>3, <2>1, <2>2, SavedKeeps, Zenon
  <1>6. QED
    BY <1>4, <1>5, Zenon DEF EditAnswered

-----------------------------------------------------------------------------
(* Questions, timers and reloads *)

\* The next request is one that was not sent yet.
LEMMA SentIs ==
    ASSUME PlayTypes, NEW stream \in BOOLEAN, Unsent # {}, sendRequest(stream)
    PROVE  Connections' /\ KindsStay
  <1>1. PICK r : r = CHOOSE q \in Unsent : \A p \in Unsent : q <= p
    OBVIOUS
  <1>2. r \in Unsent
    <2>1. Unsent \in SUBSET Nat
      BY PlaygroundAssumption DEF Unsent, Requests
    <2>2. \E q \in Unsent : \A p \in Unsent : q <= p
      BY <2>1, LeastOf
    <2>3. QED
      BY <1>1, <2>2, Zenon
  <1>3. r \in Requests /\ kind[r] = "none"
    BY <1>2 DEF Unsent
  <1>4. /\ kind' = [kind EXCEPT ![r] = IF stream THEN "stream" ELSE "plain"]
        /\ stream => streams' = streams \union {r} /\ current' = r /\ plains' = plains
        /\ ~stream => plains' = plains \union {r} /\ streams' = streams /\ current' = current
    BY <1>1, Zenon DEF sendRequest
  <1>5. Connections
    BY Zenon DEF PlayTypes, Page
  <1>6. Connections'
    BY <1>3, <1>4, <1>5 DEF Connections
  <1>7. KindsStay
    BY <1>3, <1>4, <1>5 DEF Connections, KindsStay, Sent
  <1>8. QED
    BY <1>6, <1>7

\* What a question adds: itself, and the answer that is awaited.
LEMMA NewMessages ==
    ASSUME NEW n \in Nat, FirstId <= n, NEW K
    PROVE  /\ Message(n, "user", "none") \in Known(n + 2, K)
           /\ Message(n + 1, "assistant", "loading") \in Known(n + 2, K)
           /\ Message(n, "assistant", "loading") \in Known(n + 1, K)
           /\ ~Generating(Message(n, "user", "none"))
           /\ ~Finished(Message(n, "assistant", "loading"))
  BY PlaygroundAssumption DEF Message, Known, Roles, Statuses, FirstId, Generating, Finished

LEMMA AskedKeeps ==
    ASSUME PlayInv, NEW stream \in BOOLEAN, onMessageSend(stream),
           Flags, StoredStep, DialogStep,
           ~Hasty /\ Making => Quiet(messages) /\ resend' = NoTimer
    PROVE  PlayInv'
  <1>1. PlayTypes /\ nextId \in Nat /\ FirstId <= nextId
    BY Zenon DEF PlayInv, PlayTypes, Page
  <1>2. nextId' = nextId + 2 /\ saves' = Append(saves, messages') /\ Len(messages) + 2 <= MaxMessages
    BY DEF onMessageSend
  <1>3. Connections' /\ KindsStay
    BY <1>1, SentIs, Zenon DEF onMessageSend
  <1>4. PICK a \in Known(nextId', Sent'), b \in Known(nextId', Sent') :
           messages' = messages \o <<a, b>> /\ ~Generating(a)
    <2>1. /\ Message(nextId, "user", "none") \in Known(nextId', Sent')
          /\ Message(nextId + 1, "assistant", "loading") \in Known(nextId', Sent')
          /\ ~Generating(Message(nextId, "user", "none"))
      BY <1>1, <1>2, NewMessages
    <2>2. QED
      BY <2>1, Zenon DEF onMessageSend
  <1>5. /\ messages \in Seq(Known(nextId', Sent')) /\ Len(messages) \in Nat
        /\ DOMAIN messages = 1..Len(messages)
    <2>1. nextId' \in Nat /\ nextId <= nextId' /\ Sent \subseteq Sent'
      BY <1>1, <1>2, <1>3 DEF KindsStay
    <2>2. Seq(Known(nextId, Sent)) \subseteq Seq(Known(nextId', Sent'))
      BY <1>1, <2>1, KnownGrows, Zenon
    <2>3. QED
      BY <1>1, <2>2, Shown
  <1>6. /\ messages' \in Seq(Known(nextId', Sent')) /\ Len(messages') = Len(messages) + 2
        /\ DOMAIN messages' = 1..Len(messages) + 2
        /\ \A i \in 1..Len(messages) : messages'[i] = messages[i]
        /\ messages'[Len(messages) + 1] = a
    BY <1>4, <1>5
  <1>7. Typed(messages', nextId', Sent')
    BY <1>2, <1>6 DEF Typed
  <1>8. Step
    <2>1. nextId' \in Nat /\ nextId <= nextId' /\ SavesStep
      BY <1>1, <1>2 DEF SavesStep
    <2>2. /\ resend' \in {NoTimer, "question", "edited", "defaults"}
          /\ overwritten' \in {"nobody", "import", "reset"}
          /\ fresh' \in BOOLEAN /\ broken' \in BOOLEAN /\ revived' \in BOOLEAN
          /\ editing' \in {editing, 0} \union 1..nextId
      BY <1>1, Zenon DEF Flags, PlayTypes, Page
    <2>3. QED
      BY <1>3, <1>7, <2>1, <2>2, Zenon DEF Step
  <1>9. ASSUME ~Hasty, Making
        PROVE  OnlyLast(messages') /\ resend' = NoTimer
    <2>1. Quiet(messages) /\ resend' = NoTimer
      BY <1>9, Zenon
    <2>2. \A i \in DOMAIN messages' : \/ i \in DOMAIN messages /\ messages'[i] = messages[i]
                                      \/ messages'[i] = a
                                      \/ i = Len(messages')
      BY <1>5, <1>6
    <2>3. OnlyLast(messages')
      BY <1>4, <2>1, <2>2, Zenon DEF OnlyLast, Quiet
    <2>4. QED
      BY <2>1, <2>3
  <1>10. Saving'
    BY <1>1, <1>2, <1>8, SavedAtOnce
  <1>11. QED
    BY <1>8, <1>9, <1>10, StepInv, Zenon

LEMMA SendKeeps ==
    ASSUME PlayInv, NEW stream \in BOOLEAN, Send(stream) PROVE PlayInv'
  <1>1. Flags /\ StoredStep /\ DialogStep /\ Calm /\ resend' = resend
    BY DEF Send, User, Idle, Flags, StoredStep, DialogStep, userVars, fileVars
  <1>2. ASSUME ~Hasty, Making
        PROVE  Quiet(messages) /\ resend' = NoTimer
    <2>1. resend' = NoTimer
      BY <1>1, <1>2, NobodyWaits, Zenon
    <2>2. OnlyLast(messages) /\ ~LastGenerating(messages)
      BY <1>2, Zenon DEF Making, Send
    <2>3. \A i \in DOMAIN messages : messages # <<>> /\ Last(messages) = messages[Len(messages)]
      BY Shown DEF PlayInv, Last
    <2>4. Quiet(messages)
      BY <2>2, <2>3, Zenon DEF OnlyLast, Quiet, LastGenerating
    <2>5. QED
      BY <2>1, <2>4
  <1>3. onMessageSend(stream)
    BY Zenon DEF Send
  <1>4. QED
    BY <1>1, <1>2, <1>3, AskedKeeps, Zenon

LEMMA EditedKeeps ==
    ASSUME PlayInv, NEW stream \in BOOLEAN, Resend(stream),
           Unsent # {}, Len(messages) < MaxMessages,
           messages' = Append(messages, Message(nextId, "assistant", "loading")),
           nextId' = nextId + 1, sendRequest(stream), saves' = saves
    PROVE  PlayInv'
  <1>1. PlayTypes /\ Saving /\ nextId \in Nat /\ FirstId <= nextId
    BY Zenon DEF PlayInv, PlayTypes, Page
  <1>2. Connections' /\ KindsStay
    BY <1>1, SentIs, Zenon
  <1>3. PICK m \in Known(nextId', Sent') : messages' = Append(messages, m) /\ ~Finished(m)
    <2>1. /\ Message(nextId, "assistant", "loading") \in Known(nextId', Sent')
          /\ ~Finished(Message(nextId, "assistant", "loading"))
      BY <1>1, NewMessages
    <2>2. QED
      BY <2>1, Zenon
  <1>4. /\ messages \in Seq(Known(nextId', Sent')) /\ Len(messages) \in Nat
        /\ DOMAIN messages = 1..Len(messages)
    <2>1. nextId' \in Nat /\ nextId <= nextId' /\ Sent \subseteq Sent'
      BY <1>1, <1>2 DEF KindsStay
    <2>2. Seq(Known(nextId, Sent)) \subseteq Seq(Known(nextId', Sent'))
      BY <1>1, <2>1, KnownGrows, Zenon
    <2>3. QED
      BY <1>1, <2>2, Shown
  <1>5. /\ messages' \in Seq(Known(nextId', Sent')) /\ Len(messages') = Len(messages) + 1
        /\ \A i \in DOMAIN messages' : \/ i \in DOMAIN messages /\ messages'[i] = messages[i]
                                       \/ messages'[i] = m /\ i = Len(messages')
    BY <1>3, <1>4
  <1>6. Typed(messages', nextId', Sent')
    BY <1>4, <1>5, PlaygroundAssumption DEF Typed
  <1>7. /\ resend' = NoTimer /\ stored' = stored /\ overwritten' = overwritten
        /\ Flags /\ StoredStep /\ DialogStep
    BY DEF Resend, Flags, StoredStep, DialogStep, fileVars
  <1>8. Step
    <2>1. nextId' \in Nat /\ nextId <= nextId' /\ SavesStep
      BY <1>1 DEF SavesStep
    <2>2. /\ resend' \in {NoTimer, "question", "edited", "defaults"}
          /\ overwritten' \in {"nobody", "import", "reset"}
          /\ fresh' \in BOOLEAN /\ broken' \in BOOLEAN /\ revived' \in BOOLEAN
          /\ editing' \in {editing, 0} \union 1..nextId
      BY <1>1, <1>7, Zenon DEF Flags, PlayTypes, Page
    <2>3. QED
      BY <1>2, <1>6, <1>7, <2>1, <2>2, Zenon DEF Step
  <1>9. ASSUME Making
        PROVE  OnlyLast(messages')
    <2>1. Quiet(messages)
      BY <1>9, Zenon DEF Making, Resend
    <2>2. QED
      BY <1>5, <2>1, Zenon DEF OnlyLast, Quiet
  <1>10. Saving'
    <2>1. \A i \in DOMAIN messages' : Ended(messages'[i], kind') =>
              \E j \in DOMAIN messages : messages'[i] = messages[j]
      BY <1>3, <1>5, Zenon DEF Ended
    <2>2. QED
      BY <1>1, <1>2, <1>7, <2>1, NothingNew, Zenon
  <1>11. QED
    BY <1>7, <1>8, <1>9, <1>10, StepInv, Zenon

LEMMA ResendKeeps ==
    ASSUME PlayInv, NEW stream \in BOOLEAN, Resend(stream) PROVE PlayInv'
  <1>1. Flags /\ StoredStep /\ DialogStep /\ resend' = NoTimer /\ resend # NoTimer
    BY DEF Resend, Flags, StoredStep, DialogStep, fileVars
  <1>2. CASE onMessageSend(stream)
    <2>1. Making => Quiet(messages)
      BY <1>1, Zenon DEF Making
    <2>2. QED
      BY <1>1, <1>2, <2>1, AskedKeeps, Zenon
  <1>3. CASE /\ Unsent # {} /\ Len(messages) < MaxMessages
             /\ messages' = Append(messages, Message(nextId, "assistant", "loading"))
             /\ nextId' = nextId + 1
             /\ sendRequest(stream) /\ UNCHANGED saves
    BY <1>3, EditedKeeps
  <1>4. CASE messages' = Defaults /\ UNCHANGED <<saves, netVars, nextId>>
    <2>1. Calls /\ SavesStep
      BY <1>4 DEF Calls, SavesStep, netVars
    <2>2. QED
      BY <1>1, <1>4, <2>1, ProvidedKeeps DEF Openings
  <1>5. QED
    BY <1>2, <1>3, <1>4, Zenon DEF Resend

\* What is stored next is the list that was saved first.
LEMMA SaveKeeps == ASSUME PlayInv, saveMessages PROVE PlayInv'
  <1>1. PlayTypes /\ Saving
    BY Zenon DEF PlayInv
  <1>2. /\ saves # <<>> /\ stored' = Head(saves) /\ saves' = Tail(saves)
        /\ messages' = messages /\ kind' = kind /\ resend' = resend
    BY Zenon DEF saveMessages, netVars, userVars
  <1>3. Calls /\ Flags /\ StoredStep /\ SavesStep /\ DialogStep
    BY DEF saveMessages, Calls, Flags, StoredStep, SavesStep, DialogStep, netVars, userVars
  <1>4. Typed(messages', nextId, Sent)
    BY <1>1, <1>2, Zenon DEF PlayTypes, Lists
  <1>5. Step
    BY <1>1, <1>3, <1>4, StepOf, Zenon
  <1>6. Making => OnlyLast(messages') /\ (resend' # NoTimer => Quiet(messages'))
    BY <1>2, Zenon DEF Making
  <1>7. Holds(Last(saves), messages', kind')
    BY <1>1, <1>2, Zenon DEF Saving
  <1>8. IF Tail(saves) = <<>> THEN Head(saves) = Last(saves) ELSE Last(Tail(saves)) = Last(saves)
    <2>1. PICK T : saves \in Seq(T)
      BY <1>1, Zenon DEF PlayTypes, Lists
    <2>2. PICK tail : /\ tail = Tail(saves) /\ tail \in Seq(T) /\ Len(tail) = Len(saves) - 1
                      /\ \A i \in 1..Len(tail) : tail[i] = saves[i + 1]
      BY <1>2, <2>1, HeadTailProperties
    <2>3. Len(saves) \in Nat /\ Len(saves) >= 1 /\ Head(saves) = saves[1]
      BY <1>2, <2>1, EmptySeq
    <2>4. CASE tail = <<>>
      <3>1. Len(saves) = 1
        <4>1. Len(<<>>) = 0
          OBVIOUS
        <4>2. Len(tail) = 0
          BY <2>4, <4>1, Zenon
        <4>3. Len(tail) = Len(saves) - 1
          BY <2>2
        <4>4. QED
          BY <2>3, <4>2, <4>3
      <3>2. QED
        BY <2>2, <2>3, <2>4, <3>1 DEF Last
    <2>5. CASE tail # <<>>
      <3>1. Len(tail) \in 1..Len(tail)
        BY <2>2, <2>5, EmptySeq
      <3>2. tail[Len(tail)] = saves[Len(saves)]
        BY <2>2, <2>3, <3>1
      <3>3. QED
        BY <2>2, <2>5, <3>2, Zenon DEF Last
    <2>6. QED
      BY <2>4, <2>5
  <1>9. Saving'
    BY <1>2, <1>7, <1>8, Zenon DEF Saving
  <1>10. QED
    BY <1>5, <1>6, <1>9, StepInv, Zenon

\* What is stored comes back; an answer left in the making is closed and saved.
LEMMA ReloadKeeps == ASSUME PlayInv, Reload PROVE PlayInv'
  <1>1. PlayTypes
    BY Zenon DEF PlayInv
  <1>2. fresh' = (stored = NoList)
    BY Zenon DEF Reload
  <1>3. fresh' \in BOOLEAN
    BY <1>2
  <1>4. /\ Calls /\ StoredStep /\ DialogStep
        /\ resend' = NoTimer /\ stored' = stored /\ overwritten' = overwritten
    BY DEF Reload, Calls, StoredStep, DialogStep, fileVars
  <1>5. Flags
    BY <1>3 DEF Reload, Flags, fileVars
  <1>6. CASE stored = NoList
    <2>1. messages' = Defaults /\ saves' = <<>>
      BY <1>2, <1>6, Zenon DEF Reload
    <2>2. SavesStep
      BY <2>1, Zenon DEF SavesStep
    <2>3. QED
      BY <1>4, <1>5, <2>1, <2>2, ProvidedKeeps DEF Openings
  <1>7. CASE stored # NoList /\ LastGenerating(stored)
    <2>1. messages' = Repaired(stored) /\ saves' = <<messages'>>
      BY <1>2, <1>7, Zenon DEF Reload
    <2>2. /\ stored \in Seq(Known(nextId, Sent)) /\ Len(stored) <= MaxMessages
          /\ stored # <<>>
      BY <1>1, <1>7, Zenon DEF PlayTypes, Lists, Typed, LastGenerating
    <2>3. PICK m : m = Mark(Last(stored), "complete")
      OBVIOUS
    <2>4. m \in Known(nextId, Sent) /\ ~Generating(m)
      <3>1. "complete" \in Statuses
        BY DEF Statuses
      <3>2. Last(stored) \in Known(nextId, Sent)
        BY <2>2, LastIn, Zenon
      <3>3. m \in Known(nextId, Sent) /\ m.status = "complete"
        BY <2>3, <3>1, <3>2, Marked, Zenon
      <3>4. QED
        BY <3>3 DEF Generating
    <2>5. messages' = WithLast(stored, m)
      BY <1>7, <2>1, <2>3, Zenon DEF Repaired, Mark
    <2>6. messages' \in Seq(Known(nextId, Sent)) /\ Replaced(messages', stored, m)
      BY <2>2, <2>4, <2>5, WithLastIs, Zenon
    <2>7. Typed(messages', nextId, Sent)
      BY <2>2, <2>6 DEF Typed, Replaced
    <2>8. ASSUME Making
          PROVE  OnlyLast(messages')
      <3>1. OnlyLast(stored)
        BY <1>7, <2>8, Zenon DEF Making
      <3>2. DOMAIN stored = 1..Len(stored) /\ DOMAIN messages' = 1..Len(stored)
        BY <2>2, <2>6 DEF Replaced
      <3>3. QED
        BY <2>6, <3>1, <3>2, Zenon DEF OnlyLast, Replaced
    <2>9. QED
      BY <1>4, <1>5, <2>1, <2>7, <2>8, SavedKeeps, Zenon
  <1>8. CASE stored # NoList /\ ~LastGenerating(stored)
    <2>1. messages' = stored /\ saves' = <<>>
      BY <1>2, <1>8, Zenon DEF Reload, Repaired
    <2>2. Typed(messages', nextId, Sent) /\ SavesStep
      BY <1>1, <1>8, <2>1, Zenon DEF PlayTypes, Lists, SavesStep
    <2>3. Step
      BY <1>1, <1>4, <1>5, <2>2, StepOf, Zenon
    <2>4. Making => OnlyLast(messages')
      BY <1>8, <2>1, Zenon DEF Making
    <2>5. Saving'
      BY <1>4, <1>8, <2>1, Zenon DEF Saving, Holds
    <2>6. QED
      BY <1>4, <2>3, <2>4, <2>5, StepInv, Zenon
  <1>9. QED
    BY <1>6, <1>7, <1>8

-----------------------------------------------------------------------------
(* The results *)

LEMMA PlayInit == Init => PlayInv
  <1> SUFFICES ASSUME Init
               PROVE  PlayInv
    OBVIOUS
  <1>1. nextId = FirstId /\ nextId \in Nat /\ FirstId <= nextId
    BY PlaygroundAssumption DEF Init, FirstId
  <1>2. /\ messages \in Openings /\ stored \in {NoList, <<>>}
        /\ saves = <<>> /\ resend = NoTimer /\ dialog = NoDialog
    BY DEF Init, Openings
  <1>3. Typed(messages, nextId, Sent) /\ Quiet(messages)
        /\ \A i \in DOMAIN messages : messages[i].text = {}
    BY <1>1, <1>2, Provided
  <1>4. Typed(<<>>, nextId, Sent) /\ Quiet(<<>>)
    BY <1>1, Provided DEF Openings
  <1>5. dialog.kind = "none"
    BY <1>2 DEF NoDialog
  <1>6. Lists
    <2>1. saves \in Seq(Seq(Known(nextId, Sent))) /\ DOMAIN saves = {}
      BY <1>2
    <2>2. stored = NoList \/ Typed(stored, nextId, Sent)
      BY <1>2, <1>4, Zenon
    <2>3. dialog.kind # "regenerate"
      BY <1>5
    <2>4. QED
      BY <1>3, <2>1, <2>2, <2>3, Zenon DEF Lists
  <1>7. Page
    <2>1. Connections
      BY DEF Init, Connections
    <2>2. fresh \in BOOLEAN
      <3>1. fresh = (stored = NoList)
        BY Zenon DEF Init
      <3>2. QED
        BY <3>1
    <2>3. QED
      BY <1>1, <1>2, <1>5, <2>1, <2>2 DEF Init, Page, NoTimer
  <1>8. Making
    <2>1. OnlyLast(messages) /\ OnlyLast(<<>>)
      BY <1>3, <1>4, QuietIsOnly
    <2>2. DOMAIN saves = {} /\ dialog.kind # "regenerate"
      BY <1>2, <1>5
    <2>3. stored # NoList => OnlyLast(stored)
      BY <1>2, <2>1, Zenon
    <2>4. QED
      BY <1>2, <2>1, <2>2, <2>3, Zenon DEF Making
  <1>9. Saving
    BY <1>2, <1>3, Zenon DEF Saving, Holds, Ended
  <1>10. QED
    BY <1>6, <1>7, <1>8, <1>9, Zenon DEF PlayInv, PlayTypes

LEMMA PlayStutter == ASSUME PlayInv, UNCHANGED vars PROVE PlayInv'
  <1>1. /\ messages' = messages /\ resend' = resend /\ saves' = saves /\ stored' = stored
        /\ overwritten' = overwritten
    BY Zenon DEF vars, userVars, fileVars
  <1>2. Calls /\ Flags /\ StoredStep /\ DialogStep
    BY DEF vars, userVars, fileVars, netVars, Calls, Flags, StoredStep, DialogStep
  <1>3. QED
    BY <1>1, <1>2, SameKeeps, Zenon

LEMMA PlayNext == PlayInv /\ [Next]_vars => PlayInv'
  BY NetworkKeeps, SendKeeps, ResendKeeps, ActionsKeep, StopKeeps, ClearKeeps, EditAnsweredKeeps,
     ImportAskKeeps, ImportKeeps, ResetKeeps, RebuiltKeeps, LanguageKeeps, SaveKeeps, ReloadKeeps, PlayStutter,
     Zenon DEF Next

\* The inductive invariant holds in every reachable state: every list is a
\* conversation, nothing is in the making while a timer is about to ask unless the
\* user was faster than it, and what is saved last holds every streamed answer.
THEOREM PlayInvariant == Spec => []PlayInv
  BY PlayInit, PlayNext, PTL DEF Spec

\* Every variable of the page keeps its type, whatever the user and the network do.
THEOREM PlayTyping == Spec => []TypeOK
  <1>1. PlayInv => TypeOK
    <2>1. SUFFICES ASSUME PlayInv
                   PROVE  TypeOK
      OBVIOUS
    <2>2. Known(nextId, Sent) \subseteq Messages
      BY DEF Known, Messages, Sent, Roles, Statuses
    <2>3. ASSUME NEW list, Typed(list, nextId, Sent)
          PROVE  IsList(list)
      BY <2>2, <2>3 DEF Typed, IsList
    <2>4. Lists /\ Page
      BY <2>1, Zenon DEF PlayInv, PlayTypes
    <2>5. IsList(messages) /\ (stored = NoList \/ IsList(stored))
          /\ \A i \in DOMAIN saves : IsList(saves[i])
      BY <2>3, <2>4, Zenon DEF Lists
    <2>6. dialog.kind = "regenerate" => IsList(dialog.list) /\ dialog.index \in DOMAIN dialog.list
      <3>1. SUFFICES ASSUME dialog.kind = "regenerate"
                     PROVE  IsList(dialog.list) /\ dialog.index \in DOMAIN dialog.list
        OBVIOUS
      <3>2. Typed(dialog.list, nextId, Sent) /\ dialog.index \in 1..Len(dialog.list)
        BY <2>4, <3>1, Zenon DEF Lists
      <3>3. QED
        BY <2>3, <3>2 DEF Typed
    <2>7. {fresh, broken, revived} \subseteq BOOLEAN
      BY <2>4, Zenon DEF Page
    <2>8. dialog.kind # "none" => IsList(dialog.list)
      <3>1. dialog.kind = "import" => IsList(dialog.list)
        BY <2>3, <2>4, Provided DEF Page
      <3>2. QED
        BY <2>4, <2>6, <3>1, Zenon DEF Page
    <2>9. QED
      BY <2>4, <2>5, <2>6, <2>7, <2>8, Zenon DEF TypeOK, Page, Connections
  <1>2. QED
    BY <1>1, PlayInvariant, PTL

\* A user who waits for the page's timers never gets two answers into the making,
\* or one that is not the last, in what is shown, stored or about to be stored.
THEOREM OnlyTheLast == ~Hasty => (Spec => []OnlyLastGenerates)
  <1> SUFFICES ASSUME ~Hasty
               PROVE  Spec => []OnlyLastGenerates
    OBVIOUS
  <1>1. PlayInv => OnlyLastGenerates
    BY Zenon DEF PlayInv, Making, OnlyLastGenerates
  <1>2. QED
    BY <1>1, PlayInvariant, PTL

\* A streamed answer that has ended is stored as it is shown once the timers have
\* run, also for a user who does not wait for them.
THEOREM StreamedStored == Spec => []StreamedIsStored
  <1>1. PlayInv => StreamedIsStored
    BY Zenon DEF PlayInv, Saving, Holds, Ended, StreamedIsStored, StoredAsShown, Streamed
  <1>2. QED
    BY <1>1, PlayInvariant, PTL

\* Nothing the network still delivers changes an answer that has ended.
THEOREM EndedAnswersStay == Spec => FinishedStays
  <1>1. PlayInv /\ [Next]_vars =>
            [(\E r \in Requests : NetworkOf(r)) =>
                \A i \in DOMAIN messages : Finished(messages[i]) =>
                    i \in DOMAIN messages' /\ messages'[i] = messages[i]]_vars
    BY NetworkLeaves, Zenon DEF PlayInv
  <1>2. QED
    BY <1>1, PlayInvariant, PTL DEF Spec, FinishedStays
=============================================================================
