---------------------------- MODULE ExampleProofs ----------------------------
(***************************************************************************)
(* Proofs about Persistence and Subscriber.                                *)
(*                                                                         *)
(* Persistence: a store answers as its return codes have promised, for any *)
(* keys, messages and encoding key, and any number of failures and         *)
(* crashes.  ReadsBack speaks of the answers.  Agrees says what the store  *)
(* has between them, through the calls that take several steps: the key    *)
(* that is being put is left out, and while clear() makes the directory    *)
(* again nothing is there.                                                 *)
(*                                                                         *)
(* Subscriber: no program misses a message or waits on a connection        *)
(* without its subscriptions, for any number of faults, attempts and runs  *)
(* and a queue of any length.  The programs do this in three ways, and the *)
(* inductive invariant has a conjunct for each.                            *)
(***************************************************************************)
EXTENDS Persistence, Subscriber, SequenceTheorems, TLAPS

\* What get() gives when nothing fails.
Decoded(k) ==
    IF k \in keys /\ store = "file" THEN encode(content[k]) ELSE content[k]

\* Store and C library agree on every key that no call is working on.
Agrees ==
    /\ store = "memory" => call.op \notin {"put", "recreate", "parent"}
    /\ call.op = "recreate" => content = Nothing
    /\ call.op # "recreate" =>
          \A k \in Keys \ doubtful :
              (call.op = "put" => k # call.key) => Decoded(k) = held[k]

PersistInv == TypeOK /\ Agrees /\ ReadsBack

-----------------------------------------------------------------------------
(* The encoding.                                                           *)

\* Adding a bit twice changes nothing.
LEMMA TwiceIsNone == \A a, b \in Bit : (a + b) % 2 \in Bit /\ (((a + b) % 2) + b) % 2 = a
  BY DEF Bit

\* encoded_file_persistence::encode() decodes, too, and keeps the length.
LEMMA EncodeTwice ==
    ASSUME NEW s \in Seq(Bit)
    PROVE  /\ encode(s) \in Seq(Bit)
           /\ Len(encode(s)) = Len(s)
           /\ encode(encode(s)) = s
  <1>1. CASE EncodeKey = <<>>
    BY <1>1 DEF encode
  <1>2. CASE EncodeKey # <<>>
    <2> DEFINE bit(i) == EncodeKey[1 + ((i - 1) % Len(EncodeKey))]
               once == [i \in 1 .. Len(s) |-> (s[i] + bit(i)) % 2]
    <2>1. Len(EncodeKey) \in Nat \ {0}
      BY <1>2, EncodingKey
    <2>2. ASSUME NEW i \in 1 .. Len(s) PROVE bit(i) \in Bit
      <3>1. (i - 1) % Len(EncodeKey) \in 0 .. Len(EncodeKey) - 1
        BY <2>1
      <3>2. 1 + ((i - 1) % Len(EncodeKey)) \in 1 .. Len(EncodeKey)
        BY <3>1, <2>1
      <3> QED
        BY <3>2, EncodingKey
    <2>3. encode(s) = once
      BY <1>2 DEF encode
    <2> HIDE DEF bit
    <2>4. \A i \in 1 .. Len(s) : once[i] \in Bit /\ (once[i] + bit(i)) % 2 = s[i]
      BY <2>2, TwiceIsNone
    <2>5. once \in Seq(Bit) /\ Len(once) = Len(s)
      BY <2>4
    <2>6. encode(once) = [i \in 1 .. Len(once) |-> (once[i] + bit(i)) % 2]
      BY <1>2 DEF encode, bit
    <2> HIDE DEF once
    <2>7. encode(once) = s
      BY <2>4, <2>5, <2>6
    <2> QED
      BY <2>3, <2>5, <2>7
  <1> QED
    BY <1>1, <1>2

\* The beginning of a file decodes to the beginning of what it decodes to.
LEMMA EncodeBeginning ==
    ASSUME NEW s \in Seq(Bit), NEW n \in 0 .. Len(s)
    PROVE  /\ SubSeq(s, 1, n) \in Seq(Bit)
           /\ encode(SubSeq(s, 1, n)) = SubSeq(encode(s), 1, n)
  <1>1. /\ SubSeq(s, 1, n) = [i \in 1 .. n |-> s[i]]
        /\ SubSeq(s, 1, n) \in Seq(Bit) /\ Len(SubSeq(s, 1, n)) = n
    BY SubSeqProperties
  <1>2. CASE EncodeKey = <<>>
    BY <1>1, <1>2 DEF encode
  <1>3. CASE EncodeKey # <<>>
    <2> DEFINE bit(i) == EncodeKey[1 + ((i - 1) % Len(EncodeKey))]
               part == SubSeq(s, 1, n)
    <2>1. encode(part) = [i \in 1 .. Len(part) |-> (part[i] + bit(i)) % 2]
      BY <1>3 DEF encode
    <2>2. encode(s) = [i \in 1 .. Len(s) |-> (s[i] + bit(i)) % 2]
      BY <1>3 DEF encode
    <2>3. encode(s) \in Seq(Bit) /\ Len(encode(s)) = Len(s)
      BY EncodeTwice
    <2>4. SubSeq(encode(s), 1, n) = [i \in 1 .. n |-> encode(s)[i]]
      BY <2>3, SubSeqProperties
    <2> HIDE DEF bit
    <2> QED
      BY <1>1, <2>1, <2>2, <2>4
  <1> QED
    BY <1>1, <1>2, <1>3

\* What a store makes of a message is a sequence, and can be read back.
LEMMA EncodedReadsBack ==
    ASSUME NEW msg \in Messages, store \in {"memory", "file"}
    PROVE  /\ Encoded(msg) \in Seq(Bit)
           /\ Encoded(msg) # Absent
           /\ store = "file" => encode(Encoded(msg)) = FlattenSeq(msg)
           /\ store = "memory" => Encoded(msg) = FlattenSeq(msg)
  <1>1. FlattenSeq(msg) \in Seq(Bit)
    BY StoredData
  <1> QED
    BY <1>1, EncodeTwice, AbsentIsNoData DEF Encoded, mem_put, file_put

\* A write that was cut short leaves a sequence behind.
LEMMA BegunIsSeq ==
    ASSUME TypeOK, NEW k \in Keys, NEW msg \in Messages, Begun(k, msg)
    PROVE  /\ content' \in [Keys -> Entry]
           /\ \A j \in Keys \ {k} : content'[j] = content[j]
  <1>1. PICK n \in 0 .. Len(Encoded(msg)) - 1 :
                 content' = [content EXCEPT ![k] = SubSeq(Encoded(msg), 1, n)]
    BY Zenon DEF Begun
  <1>2. Encoded(msg) \in Seq(Bit)
    BY EncodedReadsBack DEF TypeOK
  <1>3. SubSeq(Encoded(msg), 1, n) \in Seq(Bit)
    <2>1. \A i \in 1 .. n : i \in 1 .. Len(Encoded(msg))
      BY <1>2
    <2> QED
      BY <1>2, <2>1, SubSeqProperties
  <1> QED
    BY <1>1, <1>3 DEF TypeOK, Entry

-----------------------------------------------------------------------------
(* The steps.                                                              *)

\* The kinds of call in progress.
LEMMA CallKinds ==
    ASSUME TypeOK
    PROVE  /\ call = NoCall <=> call.op = "none"
           /\ call.op \in {"none", "put", "recreate", "parent", "get", "containskey", "keys"}
           /\ call.op = "put" => call.key \in Keys /\ call.msg \in Messages
  BY DEF TypeOK, NoCall, CallOf

\* A call of the file system.
LEMMA FsTyped == ASSUME TypeOK, FsWorks \/ FsFails PROVE failures' \in Nat /\ fault' \in BOOLEAN
  <1>1. failures' \in Nat
    BY DEF TypeOK, FsWorks, FsFails
  <1>2. fault' \in BOOLEAN
    BY Zenon DEF FsWorks, FsFails
  <1> QED
    BY <1>1, <1>2

\* A step after which no answer waits to be taken.
LEMMA NoAnswer ==
    ASSUME call'.op \notin {"get", "containskey", "keys"}
    PROVE  ReadsBack'
  BY DEF ReadsBack

\* The invariant holds in a store that was never used.
LEMMA PersistInit == Init => PersistInv
  <1> SUFFICES ASSUME Init PROVE PersistInv
    OBVIOUS
  <1>1. TypeOK
    BY Zenon DEF Init, TypeOK, Nothing, Entry
  <1>2. Agrees
    BY DEF Init, Agrees, NoCall, CallOf, Nothing, Decoded, keys
  <1>3. ReadsBack
    BY DEF Init, ReadsBack, NoCall, CallOf
  <1> QED
    BY <1>1, <1>2, <1>3 DEF PersistInv

\* open().
LEMMA OpenKeeps == ASSUME PersistInv, persistence_open PROVE PersistInv'
  <1>1. /\ call = NoCall /\ NoCall.op = "none"
        /\ before' = content /\ rc' \in {"success", "error"}
        /\ failures' \in Nat /\ fault' \in BOOLEAN
        /\ UNCHANGED <<store, content, call, held, doubtful, crashes>>
    BY FsTyped DEF persistence_open, PersistInv, NoCall, CallOf
  <1>2. dir' \in BOOLEAN /\ handle' \in BOOLEAN
    BY Zenon DEF persistence_open, PersistInv, TypeOK
  <1>3. TypeOK'
    BY <1>1, <1>2 DEF PersistInv, TypeOK
  <1>4. Agrees'
    BY <1>1 DEF PersistInv, Agrees, Decoded, keys
  <1>5. ReadsBack'
    BY <1>1, NoAnswer
  <1> QED
    BY <1>3, <1>4, <1>5 DEF PersistInv

\* close(), and the removal of the directory above.
LEMMA CloseKeeps == ASSUME PersistInv, persistence_close \/ RemoveParent PROVE PersistInv'
  <1>1. /\ UNCHANGED <<store, content, held, doubtful, crashes>>
        /\ call.op # "recreate" /\ call.op # "put"
        /\ call' \in {NoCall, call, CallOf("parent")}
        /\ call'.op = "parent" => store = "file"
        /\ store = "memory" => call'.op = "none"
    <2>1. CASE persistence_close
      BY <2>1 DEF persistence_close, Idle, NoCall, CallOf
    <2>2. CASE RemoveParent
      BY <2>2 DEF PersistInv, Agrees, RemoveParent, NoCall, CallOf, counters
    <2> QED
      BY <2>1, <2>2
  <1>2. TypeOK'
    <2>1. CASE persistence_close
      <3>1. failures' \in Nat /\ fault' \in BOOLEAN /\ rc' \in {"none", "success", "error"}
        BY <2>1, FsTyped DEF PersistInv, persistence_close
      <3>2. dir' \in BOOLEAN /\ handle' \in BOOLEAN /\ before' \in [Keys -> Entry]
        BY <2>1, Zenon DEF PersistInv, TypeOK, persistence_close
      <3> QED
        BY <3>1, <3>2, <1>1 DEF PersistInv, TypeOK, NoCall, CallOf
    <2>2. CASE RemoveParent
      BY <2>2 DEF PersistInv, TypeOK, RemoveParent, NoCall, CallOf, counters
    <2> QED
      BY <2>1, <2>2
  <1>3. Agrees'
    <2>1. \A k \in Keys : Decoded(k)' = Decoded(k)
      BY <1>1 DEF Decoded, keys
    <2> QED
      BY <1>1, <2>1 DEF PersistInv, Agrees, NoCall, CallOf
  <1>4. ReadsBack'
    BY NoAnswer DEF persistence_close, RemoveParent, Idle, NoCall, CallOf
  <1> QED
    BY <1>2, <1>3, <1>4 DEF PersistInv

\* The calls for one key, and the write that ends a put().
LEMMA PutKeeps ==
    ASSUME PersistInv, NEW k \in Keys, NEW msg \in Messages, persistence_put(k, msg)
    PROVE  PersistInv'
  <1> DEFINE data == Encoded(msg)
  <1>1. /\ data \in Seq(Bit) /\ data # Absent /\ FlattenSeq(msg) \in Seq(Bit)
        /\ store = "memory" => data = FlattenSeq(msg)
    BY EncodedReadsBack, StoredData DEF PersistInv, TypeOK
  <1> HIDE DEF data
  <1>2. /\ call = NoCall /\ NoCall.op = "none" /\ before' = content
        /\ UNCHANGED <<store, handle, dir, crashes>>
    BY DEF persistence_put, Idle, NoCall, CallOf
  <1>3. CASE /\ store = "memory" /\ FsWorks
             /\ content' = [content EXCEPT ![k] = data]
             /\ rc' = "success" /\ Believe(k, FlattenSeq(msg))
             /\ UNCHANGED <<call, doubtful>>
    <2>1. TypeOK'
      BY <1>1, <1>2, <1>3, FsTyped DEF PersistInv, TypeOK, Entry, Believe
    <2>2. Agrees'
      BY <1>1, <1>2, <1>3 DEF PersistInv, TypeOK, Agrees, Believe, Decoded, keys
    <2>3. ReadsBack'
      BY <1>2, <1>3, NoAnswer
    <2> QED
      BY <2>1, <2>2, <2>3 DEF PersistInv
  <1>4. CASE /\ store = "file" /\ dir /\ FsWorks
             /\ content' = [content EXCEPT ![k] = <<>>]
             /\ call' = [op |-> "put", key |-> k, msg |-> msg] /\ rc' = "none"
             /\ UNCHANGED <<held, doubtful>>
    <2>1. TypeOK'
      BY <1>2, <1>4, FsTyped DEF PersistInv, TypeOK, Entry
    <2>2. Agrees'
      BY <1>2, <1>4 DEF PersistInv, TypeOK, Agrees, Decoded, keys
    <2>3. ReadsBack'
      BY <1>2, <1>4, NoAnswer
    <2> QED
      BY <2>1, <2>2, <2>3 DEF PersistInv
  <1>5. CASE /\ store = "file" /\ (IF dir THEN FsFails ELSE FsWorks)
             /\ rc' = "error" /\ UNCHANGED <<content, call, held, doubtful>>
    <2>1. TypeOK'
      BY <1>2, <1>5, FsTyped DEF PersistInv, TypeOK
    <2>2. Agrees'
      BY <1>2, <1>5 DEF PersistInv, Agrees, Decoded, keys
    <2>3. ReadsBack'
      BY <1>2, <1>5, NoAnswer
    <2> QED
      BY <2>1, <2>2, <2>3 DEF PersistInv
  <1> QED
    BY <1>3, <1>4, <1>5 DEF persistence_put, data

\* The write that ends a put() in a file.
LEMMA WriteKeeps == ASSUME PersistInv, Write PROVE PersistInv'
  <1> DEFINE k == call.key
             data == Encoded(call.msg)
             text == FlattenSeq(call.msg)
  <1>1. k \in Keys /\ call.msg \in Messages /\ store = "file"
    BY CallKinds DEF PersistInv, TypeOK, Agrees, Write, NoCall, CallOf
  <1>2. data \in Seq(Bit) /\ data # Absent /\ encode(data) = text /\ text \in Seq(Bit)
    BY <1>1, EncodedReadsBack, StoredData
  <1>3. /\ \/ content' = [content EXCEPT ![k] = data] /\ doubtful' = doubtful \ {k}
           \/ Begun(k, call.msg) /\ doubtful' = doubtful \union {k}
        /\ held' = [held EXCEPT ![k] = text]
        /\ call.op = "put" /\ call' = NoCall /\ NoCall.op = "none" /\ rc' = "success"
        /\ failures' \in Nat /\ fault' \in BOOLEAN
        /\ UNCHANGED <<store, handle, dir, before, crashes>>
    BY FsTyped DEF Write, Believe, PersistInv, NoCall, CallOf
  <1> HIDE DEF k, data, text
  <1>4. /\ content' \in [Keys -> Entry]
        /\ \A j \in Keys \ {k} : content'[j] = content[j]
        /\ k \notin doubtful' => content'[k] = data
    <2>1. CASE content' = [content EXCEPT ![k] = data]
      BY <2>1, <1>1, <1>2 DEF PersistInv, TypeOK, Entry
    <2>2. CASE Begun(k, call.msg) /\ doubtful' = doubtful \union {k}
      BY <2>2, <1>1, BegunIsSeq DEF PersistInv
    <2> QED
      BY <2>1, <2>2, <1>3
  <1>5. TypeOK'
    BY <1>1, <1>2, <1>3, <1>4, Zenon DEF PersistInv, TypeOK, Entry
  <1>6. Agrees'
    <2>1. ASSUME NEW j \in Keys, j \notin doubtful' PROVE Decoded(j)' = held'[j]
      <3>1. CASE j = k
        BY <3>1, <2>1, <1>1, <1>2, <1>3, <1>4
           DEF PersistInv, TypeOK, Decoded, keys
      <3>2. CASE j # k
        BY <3>2, <2>1, <1>1, <1>3, <1>4
           DEF PersistInv, TypeOK, Agrees, Decoded, keys, k
      <3> QED
        BY <3>1, <3>2
    <2> QED
      BY <2>1, <1>3 DEF Agrees
  <1>7. ReadsBack'
    BY <1>3, NoAnswer
  <1> QED
    BY <1>5, <1>6, <1>7 DEF PersistInv

\* remove().
LEMMA RemoveKeeps ==
    ASSUME PersistInv, NEW k \in Keys, persistence_remove(k)
    PROVE  PersistInv'
  <1>1. /\ \/ /\ content' = [content EXCEPT ![k] = Absent] /\ doubtful' = doubtful \ {k}
              /\ held' = [held EXCEPT ![k] = Absent] /\ rc' = "success"
           \/ UNCHANGED <<content, held, doubtful>> /\ rc' = "error"
        /\ before' = content /\ failures' \in Nat /\ fault' \in BOOLEAN
        /\ call = NoCall /\ NoCall.op = "none"
        /\ UNCHANGED <<store, handle, dir, call, crashes>>
    BY FsTyped DEF persistence_remove, Idle, Believe, PersistInv, NoCall, CallOf
  <1>2. TypeOK'
    BY <1>1 DEF PersistInv, TypeOK, Entry
  <1>3. Agrees'
    BY <1>1 DEF PersistInv, TypeOK, Agrees, Decoded, keys
  <1>4. ReadsBack'
    BY <1>1, NoAnswer
  <1> QED
    BY <1>2, <1>3, <1>4 DEF PersistInv

\* clear(): all entries are gone, or some when it fails.
LEMMA ClearKeeps == ASSUME PersistInv, persistence_clear PROVE PersistInv'
  <1>1. /\ before' = content /\ call = NoCall /\ NoCall.op = "none"
        /\ UNCHANGED <<store, handle, crashes>>
    BY DEF persistence_clear, Idle, NoCall, CallOf
  <1>2. CASE /\ content' = Nothing /\ doubtful' = {} /\ FsWorks
             /\ rc' = "success" /\ held' = Nothing /\ UNCHANGED <<dir, call>>
    <2>1. TypeOK'
      BY <1>1, <1>2, FsTyped DEF PersistInv, TypeOK, Nothing, Entry
    <2>2. Agrees'
      BY <1>1, <1>2 DEF Agrees, Nothing, Decoded, keys
    <2>3. ReadsBack'
      BY <1>1, <1>2, NoAnswer
    <2> QED
      BY <2>1, <2>2, <2>3 DEF PersistInv
  <1>3. CASE /\ store = "file" /\ FsWorks
             /\ content' = Nothing /\ dir' = FALSE
             /\ call' = CallOf("recreate") /\ rc' = "none"
             /\ UNCHANGED <<held, doubtful>>
    <2>1. TypeOK'
      BY <1>1, <1>3, FsTyped, Zenon DEF PersistInv, TypeOK, Nothing, Entry, CallOf
    <2>2. Agrees'
      BY <1>1, <1>3 DEF Agrees, CallOf
    <2>3. ReadsBack'
      BY <1>1, <1>3, NoAnswer DEF CallOf
    <2> QED
      BY <2>1, <2>2, <2>3 DEF PersistInv
  <1>4. CASE /\ store = "file" /\ failures' \in Nat /\ fault' \in BOOLEAN
             /\ \E gone \in SUBSET keys :
                   /\ content' = [k \in Keys |-> IF k \in gone THEN Absent ELSE content[k]]
                   /\ doubtful' = doubtful \union gone
             /\ rc' = "error" /\ UNCHANGED <<dir, call, held>>
    <2>1. PICK gone \in SUBSET keys :
                   /\ content' = [k \in Keys |-> IF k \in gone THEN Absent ELSE content[k]]
                   /\ doubtful' = doubtful \union gone
      BY <1>4
    <2>2. TypeOK'
      BY <1>1, <1>4, <2>1 DEF PersistInv, TypeOK, Entry, keys
    <2>3. Agrees'
      BY <1>1, <1>4, <2>1 DEF PersistInv, TypeOK, Agrees, Decoded, keys
    <2>4. ReadsBack'
      BY <1>1, <1>4, <2>1, NoAnswer
    <2> QED
      BY <2>2, <2>3, <2>4 DEF PersistInv
  <1>5. CASE FsWorks /\ rc' = "error" /\ UNCHANGED <<content, dir, call, held, doubtful>>
    <2>1. TypeOK'
      BY <1>1, <1>5, FsTyped DEF PersistInv, TypeOK
    <2>2. Agrees'
      BY <1>1, <1>5 DEF PersistInv, Agrees, Decoded, keys
    <2>3. ReadsBack'
      BY <1>1, <1>5, NoAnswer
    <2> QED
      BY <2>1, <2>2, <2>3 DEF PersistInv
  <1>6. FsFails => failures' \in Nat /\ fault' \in BOOLEAN
    BY FsTyped DEF PersistInv
  <1> QED
    BY <1>2, <1>3, <1>4, <1>5, <1>6, Zenon DEF persistence_clear

\* The directory is made again, or not.
LEMMA RecreateKeeps == ASSUME PersistInv, Recreate PROVE PersistInv'
  <1>1. /\ content = Nothing /\ store = "file" /\ call' = NoCall /\ NoCall.op = "none"
        /\ \/ dir' = TRUE /\ rc' = "success" /\ doubtful' = {} /\ held' = Nothing
           \/ rc' = "error" /\ doubtful' = Keys /\ UNCHANGED <<dir, held>>
        /\ failures' \in Nat /\ fault' \in BOOLEAN
        /\ UNCHANGED <<store, handle, content, before, crashes>>
    BY FsTyped DEF Recreate, PersistInv, TypeOK, Agrees, NoCall, CallOf
  <1>2. TypeOK'
    BY <1>1, Zenon DEF PersistInv, TypeOK, Nothing, Entry
  <1>3. Agrees'
    BY <1>1 DEF Agrees, Nothing, Decoded, keys
  <1>4. ReadsBack'
    BY <1>1, NoAnswer
  <1> QED
    BY <1>2, <1>3, <1>4 DEF PersistInv

\* A crash, wherever it comes.
LEMMA CrashKeeps == ASSUME PersistInv, Crash PROVE PersistInv'
  <1>1. /\ crashes' = crashes + 1 /\ handle' = FALSE
        /\ call' = NoCall /\ NoCall.op = "none" /\ rc' = "none" /\ before' = content'
        /\ UNCHANGED <<store, dir, fault, failures>>
    BY DEF Crash, NoCall, CallOf
  <1>2. /\ content' \in [Keys -> Entry] /\ held' \in [Keys -> Entry] /\ doubtful' \subseteq Keys
        /\ \A k \in Keys \ doubtful' : Decoded(k)' = held'[k]
    <2>1. CASE store = "memory" /\ content' = Nothing /\ held' = Nothing /\ UNCHANGED doubtful
      BY <2>1, <1>1 DEF PersistInv, TypeOK, Nothing, Entry, Decoded, keys
    <2>2. CASE /\ store = "file" /\ call.op = "put"
               /\ Begun(call.key, call.msg) /\ doubtful' = doubtful \union {call.key}
               /\ UNCHANGED held
      <3>1. call.key \in Keys /\ call.msg \in Messages
        BY <2>2, CallKinds DEF PersistInv
      <3>2. /\ content' \in [Keys -> Entry]
            /\ \A j \in Keys \ {call.key} : content'[j] = content[j]
        BY <2>2, <3>1, BegunIsSeq DEF PersistInv
      <3> QED
        BY <2>2, <3>1, <3>2, <1>1
           DEF PersistInv, TypeOK, Agrees, Decoded, keys
    <2>3. CASE /\ store = "file" /\ call.op # "put"
               /\ doubtful' = IF call.op = "recreate" THEN Keys ELSE doubtful
               /\ UNCHANGED <<content, held>>
      BY <2>3, <1>1 DEF PersistInv, TypeOK, Agrees, Decoded, keys
    <2> QED
      BY <2>1, <2>2, <2>3 DEF Crash
  <1>3. TypeOK'
    <2>1. content' \in [Keys -> Entry] /\ held' \in [Keys -> Entry] /\ doubtful' \subseteq Keys
      BY <1>2
    <2>2. before' \in [Keys -> Entry] /\ call' = NoCall /\ handle' = FALSE /\ rc' = "none"
      BY <1>1, <2>1
    <2>3. /\ store' \in {"memory", "file"} /\ dir' \in BOOLEAN
          /\ fault' \in BOOLEAN /\ failures' \in Nat /\ crashes' \in Nat
      BY <1>1 DEF PersistInv, TypeOK
    <2> QED
      BY <2>1, <2>2, <2>3, Zenon DEF TypeOK
  <1>4. Agrees'
    BY <1>1, <1>2 DEF Agrees
  <1>5. ReadsBack'
    BY <1>1, NoAnswer
  <1> QED
    BY <1>3, <1>4, <1>5 DEF PersistInv

\* The answer is the only thing that a call that reads the store changes.
LEMMA ReadKeeps ==
    ASSUME PersistInv, call = NoCall,
           UNCHANGED <<store, handle, dir, content, held, doubtful, crashes>>,
           before' = content, rc' \in {"success", "error"}, FsWorks \/ FsFails,
           call' \in [op : {"get", "containskey"}, key : Keys, msg : Entry]
                      \union [op : {"keys"}, key : {Absent}, msg : SUBSET Keys],
           ReadsBack'
    PROVE  PersistInv'
  <1>1. failures' \in Nat /\ fault' \in BOOLEAN
    BY FsTyped DEF PersistInv
  <1>2. TypeOK'
    BY <1>1 DEF PersistInv, TypeOK
  <1>3. NoCall.op = "none" /\ call'.op \in {"get", "containskey", "keys"}
    BY DEF NoCall, CallOf
  <1>4. Agrees'
    BY <1>3 DEF PersistInv, Agrees, Decoded, keys
  <1> QED
    BY <1>2, <1>4 DEF PersistInv

\* Between two calls store and C library agree on what is there, and what it is.
LEMMA IdleAgrees ==
    ASSUME PersistInv, call = NoCall, NEW k \in Keys \ doubtful
    PROVE  /\ k \in keys <=> k \in Held
           /\ Decoded(k) = held[k]
  <1>1. Decoded(k) = held[k]
    BY DEF PersistInv, Agrees, NoCall, CallOf
  <1>2. k \in keys => content[k] \in Seq(Bit)
    BY DEF PersistInv, TypeOK, Entry, keys
  <1>3. k \in keys => Decoded(k) # Absent
    BY <1>2, EncodeTwice, AbsentIsNoData DEF Decoded, keys
  <1>4. k \notin keys => Decoded(k) = Absent
    BY DEF Decoded, keys
  <1> QED
    BY <1>1, <1>3, <1>4 DEF Held

\* get(), which reads all, or a part when the file system fails.
LEMMA GetKeeps ==
    ASSUME PersistInv, NEW k \in Keys, persistence_get(k)
    PROVE  PersistInv'
  <1>1. /\ call = NoCall /\ before' = content /\ (mem_get(k) \/ file_get(k))
        /\ UNCHANGED <<store, handle, dir, content, held, doubtful, crashes>>
    BY DEF persistence_get, Idle
  <1>2. content[k] \in Entry /\ (k \in keys => content[k] \in Seq(Bit))
    BY DEF PersistInv, TypeOK, Entry, keys
  <1>3. Held' = Held
    BY <1>1 DEF Held
  <1>4. k \notin doubtful => (k \in keys <=> k \in Held) /\ Decoded(k) = held[k]
    BY <1>1, IdleAgrees
  <1>5. CASE k \notin keys
    <2>1. /\ rc' = "error" /\ fault' = FALSE /\ FsWorks
          /\ call' = [op |-> "get", key |-> k, msg |-> Absent]
      BY <1>1, <1>5 DEF mem_get, file_get, FsWorks, keys
    <2>2. ReadsBack'
      BY <2>1, <1>1, <1>3, <1>4, <1>5 DEF ReadsBack
    <2> QED
      BY <2>1, <2>2, <1>1, ReadKeeps DEF Entry
  <1>6. CASE /\ k \in keys /\ FsWorks /\ rc' = "success"
             /\ call' = [op |-> "get", key |-> k, msg |-> Decoded(k)]
    <2>1. fault' = FALSE /\ Decoded(k) \in Entry
      BY <1>2, <1>6, EncodeTwice DEF FsWorks, Decoded, Entry
    <2>2. ReadsBack'
      BY <2>1, <1>1, <1>3, <1>4, <1>6 DEF ReadsBack
    <2> QED
      BY <2>1, <2>2, <1>1, <1>6, ReadKeeps
  <1>7. CASE /\ k \in keys /\ FsFails /\ rc' = "success" /\ store = "file"
             /\ \E n \in 0 .. Len(content[k]) - 1 :
                   call' = [op |-> "get", key |-> k, msg |-> encode(SubSeq(content[k], 1, n))]
    <2>1. PICK n \in 0 .. Len(content[k]) - 1 :
                   call' = [op |-> "get", key |-> k, msg |-> encode(SubSeq(content[k], 1, n))]
      BY <1>7
    <2>2. /\ n \in 0 .. Len(content[k])
          /\ encode(SubSeq(content[k], 1, n)) = SubSeq(encode(content[k]), 1, n)
          /\ encode(SubSeq(content[k], 1, n)) \in Seq(Bit)
          /\ Len(encode(content[k])) = Len(content[k])
      <3>1. PICK s \in Seq(Bit) : s = content[k]
        BY <1>2, <1>7
      <3>2. n \in 0 .. Len(s)
        BY <3>1
      <3>3. SubSeq(s, 1, n) \in Seq(Bit) /\ encode(SubSeq(s, 1, n)) = SubSeq(encode(s), 1, n)
        BY <3>2, EncodeBeginning
      <3> QED
        BY <3>1, <3>2, <3>3, EncodeTwice
    <2>3. fault' = TRUE /\ Decoded(k) = encode(content[k])
      BY <1>7 DEF FsFails, Decoded
    <2>4. ReadsBack'
      BY <2>1, <2>2, <2>3, <1>1, <1>3, <1>4, <1>7 DEF ReadsBack
    <2> QED
      BY <2>1, <2>2, <2>4, <1>1, <1>7, ReadKeeps DEF Entry
  <1>8. CASE /\ k \in keys /\ FsFails /\ rc' = "error"
             /\ call' = [op |-> "get", key |-> k, msg |-> Absent]
    <2>1. fault' = TRUE
      BY <1>8 DEF FsFails
    <2>2. ReadsBack'
      BY <2>1, <1>1, <1>8 DEF ReadsBack
    <2> QED
      BY <2>2, <1>1, <1>8, ReadKeeps DEF Entry
  <1> QED
    BY <1>1, <1>5, <1>6, <1>7, <1>8 DEF mem_get, file_get, Decoded

\* containskey() and keys().
LEMMA FindKeeps ==
    ASSUME PersistInv, persistence_keys \/ \E k \in Keys : persistence_containskey(k)
    PROVE  PersistInv'
  <1>1. /\ call = NoCall /\ before' = content /\ Held' = Held /\ keys \subseteq Keys
        /\ UNCHANGED <<store, handle, dir, content, held, doubtful, crashes>>
    BY DEF persistence_keys, persistence_containskey, Idle, Held, keys
  <1>2. CASE persistence_keys
    <2>1. keys \ doubtful = Held \ doubtful
      BY <1>1, IdleAgrees DEF keys, Held
    <2>2. ReadsBack'
      BY <1>1, <1>2, <2>1 DEF persistence_keys, ReadsBack
    <2> QED
      BY <1>1, <1>2, <2>2, ReadKeeps DEF persistence_keys
  <1>3. ASSUME NEW k \in Keys, persistence_containskey(k) PROVE PersistInv'
    <2>1. k \notin doubtful => (k \in keys <=> k \in Held)
      BY <1>1, IdleAgrees
    <2>2. ReadsBack'
      BY <1>1, <1>3, <2>1 DEF persistence_containskey, ReadsBack, FsWorks, FsFails
    <2>3. /\ rc' \in {"success", "error"} /\ (FsWorks \/ FsFails)
          /\ call' = [op |-> "containskey", key |-> k, msg |-> Absent]
      BY <1>3 DEF persistence_containskey
    <2> QED
      BY <1>1, <2>2, <2>3, ReadKeeps DEF Entry
  <1> QED
    BY <1>2, <1>3

\* The answer is taken.
LEMMA AnsweredKeeps == ASSUME PersistInv, Answered PROVE PersistInv'
  <1>1. /\ call' = NoCall /\ NoCall.op = "none" /\ call.op \in {"get", "containskey", "keys"}
        /\ UNCHANGED <<store, handle, dir, content, rc, before, held, doubtful, fault, failures,
                       crashes>>
    BY DEF Answered, NoCall, CallOf, counters
  <1>2. TypeOK'
    BY <1>1, Zenon DEF PersistInv, TypeOK
  <1>3. Agrees'
    BY <1>1 DEF PersistInv, Agrees, Decoded, keys
  <1>4. ReadsBack'
    BY <1>1, NoAnswer
  <1> QED
    BY <1>2, <1>3, <1>4 DEF PersistInv

-----------------------------------------------------------------------------
\* The invariant, in every state of every store.
THEOREM PersistInvariant == Spec => []PersistInv
  <1>1. PersistInv /\ [Next]_vars => PersistInv'
    <2> SUFFICES ASSUME PersistInv, [Next]_vars PROVE PersistInv'
      OBVIOUS
    <2>1. CASE UNCHANGED vars
      <3>1. UNCHANGED <<keys, Held>>
        BY <2>1 DEF keys, Held, vars
      <3>2. TypeOK'
        BY <2>1, Zenon DEF PersistInv, TypeOK, vars, counters
      <3>3. Agrees'
        BY <2>1, <3>1, Zenon DEF PersistInv, Agrees, Decoded, vars
      <3>4. ReadsBack'
        BY <2>1, <3>1, Zenon DEF PersistInv, ReadsBack, vars, counters
      <3> QED
        BY <3>2, <3>3, <3>4 DEF PersistInv
    <2> QED
      BY <2>1, OpenKeeps, CloseKeeps, PutKeeps, WriteKeeps, RemoveKeeps, ClearKeeps,
         RecreateKeeps, CrashKeeps, GetKeeps, FindKeeps, AnsweredKeeps DEF Next
  <1> QED
    BY <1>1, PersistInit, PTL DEF Spec

\* get(), containskey() and keys() answer as the return codes of put(), remove() and
\* clear() have told the C library, after a crash, too, and a read that fails gives the
\* beginning of what was put: encode() is its own inverse, over the whole message and
\* not buffer by buffer.
THEOREM StoreReadsBack == Spec => []ReadsBack
  BY PersistInvariant, PTL DEF PersistInv

-----------------------------------------------------------------------------
(* The programs that subscribe.                                            *)

\* What the programs have in common.  One that skips its subscriptions keeps its session
\* and leaves it to the client to connect again; one that does not asks with a single
\* request, and connects again itself or not at all.
ProgramKind ==
    /\ prog.requests \in {1, 2} /\ (~prog.skips \/ ~prog.waits => prog.requests = 1)
    /\ prog.skips => prog.keeps /\ prog.onLost \in {"poll", "ignore", "exit"}
    /\ ~prog.skips => ~prog.auto /\ (prog.onLost # "callback" => prog.waits)
    /\ prog.stops # "no" => prog.skips

\* The events in the queue.
Event == {"connected", "lost", "failed", "message"}

\* Types, without bounds.
Types ==
    /\ prog \in Programs
    /\ pc \in {"off", "start_consuming", "connect", "connecting", "subscribe", "subscribing",
               "consume", "poll", "retry", "reconnecting", "stopping"}
    /\ made \in Nat
    /\ answer \in {"none", "new", "present", "granted", "failed"}
    /\ queue \in Seq(Event)
    /\ wire \in Seq(Nat)

\* A session that is there has all its subscriptions, or was cut off.
Stored == session => cut \/ subs = Wanted

\* The program has not tried to connect.
Before == {"off", "start_consuming", "connect"}

\* The consumer is there from before connect() until it is stopped; nothing is left of a
\* program that has ended.
Ready ==
    /\ subs \subseteq Wanted
    /\ pc \notin {"off", "start_consuming", "stopping"} => consuming
    /\ pc \in Before => ~link /\ wire = <<>> /\ queue = <<>> /\ made = 0 /\ answer = "none"
    /\ pc = "stopping" => prog.stops # "no"

\* A program that skips its subscriptions when the server has its session: a session
\* that it comes back to has them all or was cut, and in a new one it has asked for all
\* up to the one it waits for.
Skipping ==
    prog.skips =>
        /\ pc \notin {"retry", "reconnecting"}
        /\ pc \in Before => Stored
        /\ pc = "connecting" =>
              /\ made = 0 /\ wire = IF answer = "none" THEN <<0>> ELSE <<>>
              /\ \/ answer \in {"none", "failed"} /\ Stored /\ ~link
                 \/ answer = "present" /\ session /\ Stored
                 \/ answer = "new" /\ session
        /\ pc = "subscribe" => session /\ made < prog.requests /\ 1 .. made \subseteq subs /\ wire = <<>>
        /\ pc = "subscribing" =>
              /\ session /\ made \in Wanted /\ 1 .. made - 1 \subseteq subs
              /\ wire \in {<<>>, <<made>>}
              /\ answer = "granted" => made \in subs /\ wire = <<>>
        /\ pc \in {"consume", "poll", "stopping"} =>
              /\ session
              /\ wire = <<>> \/ (wire = <<1>> /\ prog.requests = 1)
              /\ wire = <<>> => cut \/ subs = Wanted

\* A program that asks in every connection: it gets to waiting for messages only when
\* the request of this connection is granted, and does not connect again from there.
Asking ==
    ~prog.skips /\ prog.onLost # "callback" =>
        /\ wire \in {<<>>, <<0>>, <<1>>}
        /\ pc \in {"connecting", "retry", "reconnecting"} => wire # <<1>>
        /\ pc = "connecting" => made = 0 /\ answer # "granted"
        /\ pc \in {"connecting", "reconnecting"} /\ answer \in {"new", "present"} => wire = <<>>
        /\ pc = "subscribe" => made = 0 /\ wire = <<>>
        /\ pc = "subscribing" =>
              /\ made = 1 /\ wire \in {<<>>, <<1>>}
              /\ answer = "granted" => subs = Wanted /\ wire = <<>>
        /\ pc \in {"consume", "poll"} => subs = Wanted /\ wire = <<>>

\* A program that asks in its callback: after an event that tells of a lost or a failed
\* connection nothing happens until that event is handled, and with a connection the
\* request is granted, on its way, or the event that causes it is in the queue.
Calling ==
    prog.onLost = "callback" =>
        /\ pc \in Before \union {"consume"}
        /\ wire = <<0>> => ~link
        /\ wire # <<0>> => \A i \in 1 .. Len(wire) : wire[i] = 1
        /\ \A i \in 1 .. Len(queue) :
              queue[i] \in {"lost", "failed"} => i = Len(queue) /\ ~link /\ wire = <<>>
        /\ link => subs = Wanted \/ wire # <<>> \/ \E i \in 1 .. Len(queue) : queue[i] = "connected"

\* The inductive invariant.
SubInv == Types /\ Ready /\ Skipping /\ Asking /\ Calling

-----------------------------------------------------------------------------
(* The programs and the sequences.                                         *)

\* Every program is of one of the kinds.
LEMMA Kinds == Types => ProgramKind
<1> USE DEF ProgramKind, sync_consume, async_consume, async_message_consume
<1>1. CASE prog = sync_consume
    BY <1>1
<1>2. CASE prog = sync_consume_v5
    BY <1>2 DEF sync_consume_v5
<1>3. CASE prog \in {async_consume, async_message_consume}
    BY <1>3, Zenon
<1>4. CASE prog \in {async_consume_v5, async_message_consume_v5, multithr_pub_sub, rpc_math_srvr}
    BY <1>4, Zenon
    DEF async_consume_v5, async_message_consume_v5, multithr_pub_sub, rpc_math_srvr
<1>5. CASE prog \in {mqttpp_chat, rpc_math_cli}
    BY <1>5, Zenon DEF mqttpp_chat, rpc_math_cli, async_message_consume_v5
<1>6. CASE prog \in {async_subscribe, async_subscribe_v5}
    BY <1>6, Zenon DEF async_subscribe, async_subscribe_v5
<1> HIDE DEF ProgramKind, sync_consume, async_consume, async_message_consume
<1>7. QED
    BY <1>1, <1>2, <1>3, <1>4, <1>5, <1>6, Zenon DEF Types, Programs

\* A sequence with one more element, and with one less.
Added(q, e, r) ==
    /\ r \in Seq(Event) /\ Len(r) = Len(q) + 1 /\ r[Len(r)] = e
    /\ \A i \in 1 .. Len(q) : r[i] = q[i]

Taken(q, r) ==
    /\ r \in Seq(Event) /\ Len(q) = Len(r) + 1 /\ Head(q) = q[1]
    /\ \A i \in 1 .. Len(r) : r[i] = q[i + 1]

\* An event is passed on, and taken.
LEMMA Events ==
    ASSUME NEW q \in Seq(Event)
    PROVE  /\ \A e \in Event : Added(q, e, Append(q, e))
           /\ q # <<>> => Taken(q, Tail(q))
<1>1. ASSUME NEW e \in Event PROVE Added(q, e, Append(q, e))
    BY AppendProperties DEF Added
<1>2. ASSUME q # <<>> PROVE Taken(q, Tail(q))
    BY <1>2, EmptySeq, HeadTailProperties DEF Taken
<1>3. QED
    BY <1>1, <1>2

\* The wire with one request.
LEMMA Wires ==
    /\ \A a \in Nat : /\ <<a>> # <<>> /\ Head(<<a>>) = a /\ Tail(<<a>>) = <<>>
                      /\ Append(<<>>, a) = <<a>> /\ <<a>> \in Seq(Nat)
                      /\ Len(<<a>>) = 1 /\ <<a>>[1] = a
    /\ <<0>> # <<1>> /\ <<0>> # <<2>> /\ Len(<<>>) = 0
OBVIOUS

-----------------------------------------------------------------------------
(* One lemma for each action: it keeps the invariant.                      *)

USE DEF Before

\* The program ends: Exit, and Crash.
LEMMA ExitStep == SubInv /\ (Exit \/ ProgramCrash) => SubInv'
<1> SUFFICES ASSUME SubInv, Exit \/ ProgramCrash PROVE SubInv'
    OBVIOUS
<1>1. /\ pc' = "off" /\ made' = 0 /\ answer' = "none" /\ queue' = <<>> /\ wire' = <<>>
      /\ ~link' /\ cut' = (cut \/ (session /\ subs # Wanted))
      /\ prog' = prog /\ session' = session /\ subs' = subs
    BY DEF Exit, ProgramCrash, Leave, server, Wanted
<1>2. Wanted' = Wanted
    BY <1>1 DEF Wanted
<1>3. Types'
    BY <1>1, EmptySeq DEF SubInv, Types
<1>4. Ready'
    BY <1>1, <1>2 DEF SubInv, Ready
<1>5. Skipping'
    BY <1>1, <1>2, Zenon DEF Skipping, Stored
<1>6. Asking'
    BY <1>1 DEF Asking
<1>7. Calling'
    BY <1>1, Wires DEF Calling
<1>8. QED
    BY <1>3, <1>4, <1>5, <1>6, <1>7 DEF SubInv

\* The server answers a connect request: a kept session has its subscriptions, a new one has none.
LEMMA ServerConnectStep == SubInv /\ ServerConnect => SubInv'
<1> SUFFICES ASSUME SubInv, ServerConnect PROVE SubInv'
    OBVIOUS
<1>1. /\ wire # <<>> /\ Head(wire) = 0
      /\ wire' = Tail(wire) /\ link' /\ session'
      /\ subs' = IF session /\ prog.keeps THEN subs ELSE {}
      /\ cut' = (cut /\ session /\ prog.keeps)
      /\ answer' = IF session /\ prog.keeps THEN "present" ELSE "new"
      /\ queue' = IF consuming THEN Append(queue, "connected") ELSE queue
      /\ prog' = prog /\ pc' = pc /\ made' = made /\ consuming' = consuming
    BY DEF ServerConnect, Present, Pass, CONNECT
<1>2. Types /\ ProgramKind /\ Wanted' = Wanted
    BY <1>1, Kinds DEF SubInv, Wanted
<1>3. pc \notin {"off", "start_consuming", "connect", "stopping"} /\ consuming
    BY <1>1, <1>2, Wires DEF SubInv, Ready, Types, Skipping, ProgramKind
<1>4. Added(queue, "connected", queue')
    BY <1>1, <1>2, <1>3, Events DEF Types, Event
<1>5. Types'
    BY <1>1, <1>2, <1>4 DEF Types, Added
<1>6. Ready'
    BY <1>1, <1>2, <1>3 DEF SubInv, Ready
<1>7. Skipping'
  <2>1. CASE prog.skips
    <3>1. pc = "connecting" /\ answer = "none" /\ wire = <<0>>
        BY <2>1, <1>1, <1>2, <1>3, Wires DEF SubInv, Skipping, Types, Wanted, ProgramKind
    <3>2. wire' = <<>>
        BY <1>1, <3>1, Wires
    <3>3. QED
        BY <2>1, <1>1, <1>2, <3>1, <3>2, Zenon DEF SubInv, Skipping, Stored, ProgramKind
  <2>2. QED
    BY <2>1, <1>1 DEF Skipping
<1>8. Asking'
  <2>1. CASE ~prog.skips /\ prog.onLost # "callback"
    <3>1. wire = <<0>>
        BY <2>1, <1>1, Wires DEF SubInv, Asking
    <3>2. wire' = <<>> /\ pc \in {"connecting", "retry", "reconnecting"}
        BY <2>1, <1>1, <1>2, <1>3, <3>1, Wires DEF SubInv, Asking, Types
    <3>3. QED
        BY <2>1, <1>1, <1>2, <3>1, <3>2, Wires DEF SubInv, Asking
  <2>2. QED
    BY <2>1, <1>1 DEF Asking
<1>9. Calling'
  <2>1. CASE prog.onLost = "callback"
    <3>1. wire = <<0>>
      <4>1. 1 \in 1 .. Len(wire) /\ wire[1] = 0
        BY <1>1, <1>2, EmptySeq, HeadTailProperties DEF Types
      <4>2. QED
        BY <2>1, <4>1 DEF SubInv, Calling
    <3>2. wire' = <<>> /\ wire # <<>>
        BY <1>1, <3>1, Wires
    <3>3. \A i \in 1 .. Len(queue) : queue[i] \notin {"lost", "failed"}
        BY <2>1, <3>2 DEF SubInv, Calling
    <3>4. /\ \A i \in 1 .. Len(queue') : i \in 1 .. Len(queue) \/ i = Len(queue')
          /\ Len(queue') \in 1 .. Len(queue')
        BY <1>2, <1>4 DEF Added, Types
    <3>5. /\ \A i \in 1 .. Len(queue') : queue'[i] \notin {"lost", "failed"}
          /\ \E i \in 1 .. Len(queue') : queue'[i] = "connected"
        BY <1>4, <3>3, <3>4 DEF Added
    <3>6. \A i : i \notin 1 .. Len(wire')
        BY <3>2, Wires
    <3>7. QED
        BY <2>1, <1>1, <3>2, <3>5, <3>6, Wires, Zenon DEF SubInv, Calling
  <2>2. QED
    BY <2>1, <1>1 DEF Calling
<1>10. QED
    BY <1>5, <1>6, <1>7, <1>8, <1>9 DEF SubInv

\* The connect request fails; the callback's listener is told.
LEMMA ConnectFailsStep == SubInv /\ ConnectFails => SubInv'
<1> SUFFICES ASSUME SubInv, ConnectFails PROVE SubInv'
    OBVIOUS
<1>1. /\ wire # <<>> /\ Head(wire) = 0
      /\ wire' = Tail(wire) /\ answer' = "failed"
      /\ queue' = IF prog.onLost = "callback" /\ consuming THEN Append(queue, "failed") ELSE queue
      /\ prog' = prog /\ pc' = pc /\ made' = made /\ consuming' = consuming /\ link' = link
      /\ session' = session /\ subs' = subs /\ cut' = cut
    BY DEF ConnectFails, CONNECT, Callback, Pass, server
<1>2. Types /\ ProgramKind /\ Wanted' = Wanted
    BY <1>1, Kinds DEF SubInv, Wanted
<1>3. pc \notin {"off", "start_consuming", "connect", "stopping"} /\ consuming
    BY <1>1, <1>2, Wires DEF SubInv, Ready, Types, Skipping, ProgramKind
<1>4. prog.onLost = "callback" => Added(queue, "failed", queue')
    BY <1>1, <1>2, <1>3, Events DEF Types, Event
<1>5. wire' \in Seq(Nat)
    BY <1>1, <1>2, HeadTailProperties DEF Types
<1>11. Types'
    BY <1>1, <1>2, <1>4, <1>5 DEF Types, Added
<1>12. Ready'
    BY <1>1, <1>2, <1>3 DEF SubInv, Ready
<1>13. Skipping'
  <2>1. CASE prog.skips
    <3>1. pc = "connecting" /\ answer = "none" /\ wire = <<0>>
        BY <2>1, <1>1, <1>2, <1>3, Wires DEF SubInv, Skipping, Types, Wanted, ProgramKind
    <3>2. wire' = <<>>
        BY <1>1, <3>1, Wires
    <3>3. QED
        BY <2>1, <1>1, <1>2, <3>1, <3>2 DEF SubInv, Skipping, Stored, ProgramKind
  <2>2. QED
    BY <2>1, <1>1 DEF Skipping
<1>14. Asking'
  <2>1. CASE ~prog.skips /\ prog.onLost # "callback"
    <3>1. wire = <<0>>
        BY <2>1, <1>1, Wires DEF SubInv, Asking
    <3>2. wire' = <<>> /\ pc \in {"connecting", "retry", "reconnecting"}
        BY <2>1, <1>1, <1>2, <1>3, <3>1, Wires DEF SubInv, Asking, Types
    <3>3. QED
        BY <2>1, <1>1, <1>2, <3>1, <3>2, Wires DEF SubInv, Asking
  <2>2. QED
    BY <2>1, <1>1 DEF Asking
<1>15. Calling'
  <2>1. CASE prog.onLost = "callback"
    <3>1. wire = <<0>>
      <4>1. 1 \in 1 .. Len(wire) /\ wire[1] = 0
        BY <1>1, <1>2, EmptySeq, HeadTailProperties DEF Types
      <4>2. QED
        BY <2>1, <4>1 DEF SubInv, Calling
    <3>2. wire' = <<>> /\ wire # <<>> /\ ~link
        BY <2>1, <1>1, <3>1, Wires DEF SubInv, Calling
    <3>3. \A i \in 1 .. Len(queue) : queue[i] \notin {"lost", "failed"}
        BY <2>1, <3>2 DEF SubInv, Calling
    <3>4. \A i \in 1 .. Len(queue') : i \in 1 .. Len(queue) \/ i = Len(queue')
        BY <2>1, <1>2, <1>4 DEF Added, Types
    <3>5. \A i \in 1 .. Len(queue') : queue'[i] \in {"lost", "failed"} => i = Len(queue')
        BY <2>1, <1>4, <3>3, <3>4 DEF Added
    <3>6. \A i : i \notin 1 .. Len(wire')
        BY <3>2, Wires
    <3>7. QED
        BY <2>1, <1>1, <3>2, <3>5, <3>6, Wires DEF SubInv, Calling
  <2>2. QED
    BY <2>1, <1>1 DEF Calling
<1>16. QED
    BY <1>11, <1>12, <1>13, <1>14, <1>15 DEF SubInv

\* A subscription is granted.
LEMMA ServerSubscribeStep == SubInv /\ ServerSubscribe => SubInv'
<1> SUFFICES ASSUME SubInv, ServerSubscribe PROVE SubInv'
    OBVIOUS
<1>1. /\ wire # <<>> /\ Head(wire) # 0
      /\ wire' = Tail(wire) /\ answer' = "granted"
      /\ subs' = subs \union {Head(wire)} /\ cut' = (cut /\ subs' # Wanted)
      /\ prog' = prog /\ pc' = pc /\ made' = made /\ consuming' = consuming /\ queue' = queue
      /\ link' = link /\ session' = session
    BY DEF ServerSubscribe, CONNECT, Wanted
<1>2. Types /\ ProgramKind /\ Wanted' = Wanted
    BY <1>1, Kinds DEF SubInv, Wanted
<1>3. pc \notin Before
    BY <1>1, <1>2 DEF SubInv, Ready
<1>4. prog.skips => \/ pc = "subscribing" /\ made \in Wanted /\ wire = <<made>>
                    \/ /\ pc \in {"consume", "poll", "stopping"}
                       /\ wire = <<1>> /\ prog.requests = 1
    BY <1>1, <1>2, <1>3, Wires DEF SubInv, Skipping, Types, ProgramKind
<1>5. ~prog.skips /\ prog.onLost # "callback" => pc = "subscribing" /\ wire = <<1>> /\ prog.requests = 1
    BY <1>1, <1>2, <1>3, Wires DEF SubInv, Ready, Asking, Types, ProgramKind
<1>6. /\ wire' \in Seq(Nat) /\ Len(wire') = Len(wire) - 1 /\ Len(wire) \in Nat \ {0}
      /\ Head(wire) = wire[1] /\ \A i \in 1 .. Len(wire') : wire'[i] = wire[i + 1]
    BY <1>1, <1>2, EmptySeq, HeadTailProperties DEF Types
<1>7. prog.onLost = "callback" => ~prog.skips /\ prog.requests = 1 /\ \A i \in 1 .. Len(wire) : wire[i] = 1
  <2>1. wire # <<0>>
    BY <1>1, Wires
  <2>2. QED
    BY <1>2, <2>1 DEF SubInv, Calling, ProgramKind
<1>8. Head(wire) \in Wanted
    BY <1>2, <1>4, <1>5, <1>6, <1>7, Wires DEF Wanted, Types
<1>11. Types'
    BY <1>1, <1>2, <1>6 DEF Types
<1>12. Ready'
    BY <1>1, <1>2, <1>3, <1>8 DEF SubInv, Ready
<1>13. Skipping'
  <2>1. CASE prog.skips
    <3>1. CASE pc = "subscribing" /\ made \in Wanted /\ wire = <<made>>
      <4>1. wire' = <<>> /\ made \in subs'
        BY <1>1, <1>2, <3>1, Wires DEF Types
      <4>2. QED
        BY <2>1, <1>1, <1>2, <3>1, <4>1, Zenon DEF SubInv, Skipping
    <3>2. CASE pc \in {"consume", "poll", "stopping"} /\ wire = <<1>> /\ prog.requests = 1
      <4>1. wire' = <<>> /\ 1 \in subs' /\ Wanted = {1}
        BY <1>1, <1>2, <3>2, Wires DEF Types, Wanted
      <4>2. subs' = Wanted
        BY <4>1, <1>12, <1>2, Zenon DEF Ready
      <4>3. QED
        BY <2>1, <1>1, <1>2, <3>2, <4>1, <4>2 DEF SubInv, Skipping
    <3>3. QED
        BY <2>1, <1>4, <3>1, <3>2
  <2>2. QED
    BY <2>1, <1>1, Zenon DEF Skipping
<1>14. Asking'
  <2>1. CASE ~prog.skips /\ prog.onLost # "callback"
    <3>1. wire' = <<>> /\ 1 \in subs' /\ Wanted = {1} /\ pc = "subscribing"
        BY <2>1, <1>1, <1>5, Wires DEF Wanted
    <3>2. subs' = Wanted
        BY <3>1, <1>12, <1>2, Zenon DEF Ready
    <3>3. QED
        BY <2>1, <1>1, <1>2, <3>1, <3>2 DEF SubInv, Asking
  <2>2. QED
    BY <2>1, <1>1 DEF Asking
<1>15. Calling'
  <2>1. CASE prog.onLost = "callback"
    <3>1. \A i \in 1 .. Len(wire') : wire'[i] = 1
        BY <2>1, <1>6, <1>7
    <3>2. wire' # <<0>>
        BY <3>1, Wires
    <3>3. Wanted = {1} /\ Head(wire) = 1
        BY <2>1, <1>6, <1>7 DEF Wanted
    <3>4. subs' = Wanted
        BY <1>1, <1>12, <1>2, <3>3 DEF Ready
    <3>5. \A i \in 1 .. Len(queue) : queue[i] \notin {"lost", "failed"}
        BY <2>1, <1>1 DEF SubInv, Calling
    <3>6. QED
        BY <2>1, <1>1, <1>2, <3>1, <3>2, <3>4, <3>5 DEF SubInv, Calling
  <2>2. QED
    BY <2>1, <1>1 DEF Calling
<1>16. QED
    BY <1>11, <1>12, <1>13, <1>14, <1>15 DEF SubInv

\* The connection is lost: the session is cut if it lacks a subscription.
LEMMA LostStep == SubInv /\ Lost => SubInv'
<1> SUFFICES ASSUME SubInv, Lost PROVE SubInv'
    OBVIOUS
<1>1. /\ link /\ ~link' /\ wire' = <<>>
      /\ answer' \in IF wire = <<>> THEN {answer} ELSE {answer, "failed"}
      /\ queue' = IF consuming THEN Append(queue, "lost") ELSE queue
      /\ cut' = (cut \/ (session /\ subs # Wanted))
      /\ prog' = prog /\ pc' = pc /\ made' = made /\ consuming' = consuming /\ session' = session
      /\ subs' = subs
    BY DEF Lost, Pass, Leave, Wanted, server
<1>2. Types /\ ProgramKind /\ Wanted' = Wanted
    BY <1>1, Kinds DEF SubInv, Wanted
<1>3. pc \notin Before /\ (pc # "stopping" => consuming)
    BY <1>1 DEF SubInv, Ready
<1>4. /\ consuming => Added(queue, "lost", queue')
      /\ queue' \in Seq(Event)
    BY <1>1, <1>2, Events DEF Types, Event, Added
<1>11. Types'
    BY <1>1, <1>2, <1>4, EmptySeq DEF Types, Added
<1>12. Ready'
    BY <1>1, <1>2, <1>3 DEF SubInv, Ready
<1>13. Skipping'
  <2>1. CASE prog.skips
    <3>1. CASE pc = "connecting"
      <4>1. answer' = answer /\ answer \in {"new", "present"}
        BY <2>1, <1>1, <3>1 DEF SubInv, Skipping
      <4>2. QED
        BY <2>1, <1>1, <1>2, <3>1, <4>1, Zenon DEF SubInv, Skipping, Stored
    <3>2. CASE pc # "connecting"
        BY <2>1, <1>1, <1>2, <1>3, <3>2, Zenon DEF SubInv, Skipping
    <3>3. QED
        BY <3>1, <3>2
  <2>2. QED
    BY <2>1, <1>1, Zenon DEF Skipping
<1>14. Asking'
    BY <1>1, <1>2, Wires DEF SubInv, Asking, ProgramKind
<1>15. Calling'
  <2>1. CASE prog.onLost = "callback"
    <3>2. Added(queue, "lost", queue')
        BY <2>1, <1>3, <1>4 DEF SubInv, Calling
    <3>3. \A i \in 1 .. Len(queue) : queue[i] \notin {"lost", "failed"}
        BY <2>1, <1>1 DEF SubInv, Calling
    <3>4. \A i \in 1 .. Len(queue') : i \in 1 .. Len(queue) \/ i = Len(queue')
        BY <1>2, <3>2 DEF Added, Types
    <3>5. \A i \in 1 .. Len(queue') : queue'[i] \in {"lost", "failed"} => i = Len(queue')
        BY <3>2, <3>3, <3>4 DEF Added
    <3>6. \A i : i \notin 1 .. Len(wire')
        BY <1>1, Wires
    <3>7. QED
        BY <2>1, <1>1, <3>5, <3>6, Wires DEF SubInv, Calling
  <2>2. QED
    BY <2>1, <1>1 DEF Calling
<1>16. QED
    BY <1>11, <1>12, <1>13, <1>14, <1>15 DEF SubInv

\* The client connects again by itself.
LEMMA AutoReconnectStep == SubInv /\ AutoReconnect => SubInv'
<1> SUFFICES ASSUME SubInv, AutoReconnect PROVE SubInv'
    OBVIOUS
<1>1. /\ prog.auto /\ link' /\ pc # "off"
      /\ pc \in {"start_consuming", "connect", "connecting"} => answer \in {"new", "present"}
      /\ subs' = IF prog.keeps THEN subs ELSE {}
      /\ queue' = IF consuming THEN Append(queue, "connected") ELSE queue
      /\ prog' = prog /\ pc' = pc /\ made' = made /\ answer' = answer /\ consuming' = consuming
      /\ wire' = wire /\ session' = session /\ cut' = cut
    BY DEF AutoReconnect, Pass
<1>2. Types /\ ProgramKind /\ Wanted' = Wanted
    BY <1>1, Kinds DEF SubInv, Wanted
<1>3. pc \notin Before /\ prog.skips /\ prog.keeps /\ prog.onLost # "callback"
    BY <1>1, <1>2 DEF SubInv, Ready, ProgramKind
<1>4. queue' \in Seq(Event)
    BY <1>1, <1>2, Events DEF Types, Event, Added
<1>11. Types'
    BY <1>1, <1>2, <1>4 DEF Types
<1>12. Ready'
    BY <1>1, <1>2, <1>3 DEF SubInv, Ready
<1>13. Skipping'
    BY <1>1, <1>2, <1>3, Zenon DEF SubInv, Skipping, Stored
<1>14. Asking'
    BY <1>1, <1>3 DEF Asking
<1>15. Calling'
    BY <1>1, <1>3 DEF Calling
<1>16. QED
    BY <1>11, <1>12, <1>13, <1>14, <1>15 DEF SubInv

\* A message comes: the consumer is there.
LEMMA MessageStep == SubInv /\ Message => SubInv'
<1> SUFFICES ASSUME SubInv, Message PROVE SubInv'
    OBVIOUS
<1>1. /\ link
      /\ queue' = IF consuming THEN Append(queue, "message") ELSE queue
      /\ prog' = prog /\ pc' = pc /\ made' = made /\ answer' = answer /\ consuming' = consuming
      /\ link' = link /\ wire' = wire /\ session' = session /\ subs' = subs /\ cut' = cut
    BY DEF Message, Pass, server
<1>2. Types /\ ProgramKind /\ Wanted' = Wanted
    BY <1>1, Kinds DEF SubInv, Wanted
<1>3. pc \notin Before /\ (pc # "stopping" => consuming)
    BY <1>1 DEF SubInv, Ready
<1>4. /\ consuming => Added(queue, "message", queue')
      /\ queue' \in Seq(Event)
    BY <1>1, <1>2, Events DEF Types, Event, Added
<1>11. Types'
    BY <1>1, <1>2, <1>4 DEF Types, Added
<1>12. Ready'
    BY <1>1, <1>2, <1>3, Zenon DEF SubInv, Ready
<1>13. Skipping'
    BY <1>1, <1>2, Zenon DEF SubInv, Skipping, Stored, ProgramKind
<1>14. Asking'
    BY <1>1, <1>2 DEF SubInv, Asking, ProgramKind
<1>15. Calling'
  <2>1. CASE prog.onLost = "callback"
    <3>2. Added(queue, "message", queue')
        BY <2>1, <1>3, <1>4 DEF SubInv, Calling
    <3>3. \A i \in 1 .. Len(queue) : queue[i] \notin {"lost", "failed"}
        BY <2>1, <1>1 DEF SubInv, Calling
    <3>4. \A i \in 1 .. Len(queue') : i \in 1 .. Len(queue) \/ i = Len(queue')
        BY <1>2, <3>2 DEF Added, Types
    <3>5. \A i \in 1 .. Len(queue') : queue'[i] \notin {"lost", "failed"}
        BY <3>2, <3>3, <3>4 DEF Added
    <3>6. (\E i \in 1 .. Len(queue) : queue[i] = "connected") =>
             \E i \in 1 .. Len(queue') : queue'[i] = "connected"
        BY <1>2, <3>2 DEF Added, Types
    <3>7. QED
        BY <2>1, <1>1, <1>2, <3>5, <3>6 DEF SubInv, Calling
  <2>2. QED
    BY <2>1, <1>1 DEF Calling
<1>16. QED
    BY <1>11, <1>12, <1>13, <1>14, <1>15 DEF SubInv

\* main() begins.
LEMMA StartStep == SubInv /\ Start => SubInv'
<1> SUFFICES ASSUME SubInv, Start PROVE SubInv'
    OBVIOUS
<1>1. /\ pc = "off" /\ pc' = "start_consuming"
      /\ prog' = prog /\ made' = made /\ answer' = answer /\ consuming' = consuming
      /\ queue' = queue /\ link' = link /\ wire' = wire /\ session' = session /\ subs' = subs
      /\ cut' = cut
    BY DEF Start, Opening, server
<1>2. Types /\ Wanted' = Wanted
    BY <1>1 DEF SubInv, Wanted
<1>11. Types'
    BY <1>1, <1>2 DEF Types
<1>12. Ready'
    BY <1>1, <1>2 DEF SubInv, Ready
<1>13. Skipping'
    BY <1>1, <1>2, Zenon DEF SubInv, Skipping, Stored
<1>14. Asking'
    BY <1>1, <1>2 DEF SubInv, Asking
<1>15. Calling'
    BY <1>1, <1>2 DEF SubInv, Calling
<1>16. QED
    BY <1>11, <1>12, <1>13, <1>14, <1>15 DEF SubInv

\* The consumer is started: connect() comes next.
LEMMA start_consumingStep == SubInv /\ start_consuming => SubInv'
<1> SUFFICES ASSUME SubInv, start_consuming PROVE SubInv'
    OBVIOUS
<1>1. /\ pc = "start_consuming" /\ pc' = "connect" /\ consuming'
      /\ prog' = prog /\ made' = made /\ answer' = answer /\ queue' = queue /\ link' = link
      /\ wire' = wire /\ session' = session /\ subs' = subs /\ cut' = cut
    BY DEF start_consuming, After, Opening, server
<1>2. Types /\ Wanted' = Wanted
    BY <1>1 DEF SubInv, Wanted
<1>11. Types'
    BY <1>1, <1>2 DEF Types
<1>12. Ready'
    BY <1>1, <1>2 DEF SubInv, Ready
<1>13. Skipping'
    BY <1>1, <1>2, Zenon DEF SubInv, Skipping, Stored
<1>14. Asking'
    BY <1>1, <1>2 DEF SubInv, Asking
<1>15. Calling'
    BY <1>1, <1>2 DEF SubInv, Calling
<1>16. QED
    BY <1>11, <1>12, <1>13, <1>14, <1>15 DEF SubInv

\* The connect request is sent when the consumer is there.
LEMMA connectStep == SubInv /\ connect => SubInv'
<1> SUFFICES ASSUME SubInv, connect PROVE SubInv'
    OBVIOUS
<1>0. \/ Exit
      \/ /\ pc = "connect" /\ wire' = <<0>>
         /\ pc' = IF prog.onLost = "callback" THEN "consume" ELSE "connecting"
         /\ prog' = prog /\ made' = made /\ answer' = answer /\ consuming' = consuming
         /\ queue' = queue /\ link' = link /\ session' = session /\ subs' = subs /\ cut' = cut
    BY DEF connect, After, Opening, CONNECT, Callback, server
<1> SUFFICES ASSUME ~Exit PROVE SubInv'
    BY ExitStep
<1>1. /\ pc = "connect" /\ wire' = <<0>>
      /\ pc' = IF prog.onLost = "callback" THEN "consume" ELSE "connecting"
      /\ prog' = prog /\ made' = made /\ answer' = answer /\ consuming' = consuming
      /\ queue' = queue /\ link' = link /\ session' = session /\ subs' = subs /\ cut' = cut
    BY <1>0
<1>2. Types /\ ProgramKind /\ Wanted' = Wanted
    BY <1>1, Kinds DEF SubInv, Wanted
<1>3. ~link /\ queue = <<>> /\ made = 0 /\ answer = "none" /\ consuming
    BY <1>1 DEF SubInv, Ready
<1>11. Types'
    BY <1>1, <1>2, Wires DEF Types
<1>12. Ready'
    BY <1>1, <1>2, <1>3 DEF SubInv, Ready
<1>13. Skipping'
    BY <1>1, <1>2, <1>3, Zenon DEF SubInv, Skipping, Stored, ProgramKind
<1>14. Asking'
    BY <1>1, <1>2, <1>3, Wires DEF SubInv, Asking
<1>15. Calling'
    BY <1>1, <1>2, <1>3, Wires DEF SubInv, Calling
<1>16. QED
    BY <1>11, <1>12, <1>13, <1>14, <1>15 DEF SubInv

\* The connect response is read: to consume only with a session that was kept.
LEMMA ConnectedStep == SubInv /\ Connected => SubInv'
<1> SUFFICES ASSUME SubInv, Connected PROVE SubInv'
    OBVIOUS
<1>0. \/ Exit
      \/ /\ pc = "connecting" /\ answer \notin {"none", "failed"}
         /\ pc' = IF prog.skips /\ answer = "present" THEN "consume" ELSE "subscribe"
         /\ prog' = prog /\ made' = made /\ answer' = answer /\ consuming' = consuming /\ queue' = queue
         /\ link' = link /\ wire' = wire /\ session' = session /\ subs' = subs /\ cut' = cut
    BY DEF Connected, server
<1> SUFFICES ASSUME ~Exit PROVE SubInv'
    BY ExitStep
<1>1. /\ pc = "connecting" /\ answer \notin {"none", "failed"}
      /\ pc' = IF prog.skips /\ answer = "present" THEN "consume" ELSE "subscribe"
      /\ prog' = prog /\ made' = made /\ answer' = answer /\ consuming' = consuming /\ queue' = queue
      /\ link' = link /\ wire' = wire /\ session' = session /\ subs' = subs /\ cut' = cut
    BY <1>0
<1>2. Types /\ ProgramKind /\ Wanted' = Wanted
    BY <1>1, Kinds DEF SubInv, Wanted
<1>3. prog.onLost # "callback"
    BY <1>1, <1>2 DEF SubInv, Calling
<1>11. Types'
    BY <1>1, <1>2 DEF Types
<1>12. Ready'
    BY <1>1, <1>2 DEF SubInv, Ready
<1>13. Skipping'
  <2>1. CASE prog.skips
    <3>1. CASE answer = "present"
        BY <2>1, <1>1, <1>2, <3>1, Zenon DEF SubInv, Skipping, Stored
    <3>2. CASE answer # "present"
      <4>1. session /\ wire = <<>> /\ made = 0 /\ pc' = "subscribe"
        BY <2>1, <1>1, <3>2 DEF SubInv, Skipping
      <4>2. 1 .. made \subseteq subs /\ made < prog.requests
        BY <1>2, <4>1 DEF ProgramKind
      <4>3. QED
        BY <2>1, <1>1, <4>1, <4>2 DEF Skipping
    <3>3. QED
        BY <3>1, <3>2
  <2>2. QED
    BY <2>1, <1>1, Zenon DEF Skipping
<1>14. Asking'
    BY <1>1, <1>2 DEF SubInv, Asking, Types
<1>15. Calling'
    BY <1>1, <1>3 DEF Calling
<1>16. QED
    BY <1>11, <1>12, <1>13, <1>14, <1>15 DEF SubInv

\* A request is made.
LEMMA SubscribeStep == SubInv /\ Subscribe => SubInv'
<1> SUFFICES ASSUME SubInv, Subscribe PROVE SubInv'
    OBVIOUS
<1>0. \/ Exit
      \/ /\ pc = "subscribe" /\ link /\ answer' = "none"
         /\ wire' = Append(wire, made + 1) /\ made' = made + 1
         /\ pc' = IF prog.waits THEN "subscribing" ELSE "consume"
         /\ prog' = prog /\ consuming' = consuming /\ queue' = queue /\ link' = link /\ session' = session
         /\ subs' = subs /\ cut' = cut
    BY DEF Subscribe, server
<1> SUFFICES ASSUME ~Exit PROVE SubInv'
    BY ExitStep
<1>1. /\ pc = "subscribe" /\ link /\ answer' = "none"
      /\ wire' = Append(wire, made + 1) /\ made' = made + 1
      /\ pc' = IF prog.waits THEN "subscribing" ELSE "consume"
      /\ prog' = prog /\ consuming' = consuming /\ queue' = queue /\ link' = link /\ session' = session
      /\ subs' = subs /\ cut' = cut
    BY <1>0
<1>2. Types /\ ProgramKind /\ Wanted' = Wanted
    BY <1>1, Kinds DEF SubInv, Wanted
<1>3. prog.onLost # "callback"
    BY <1>1, <1>2 DEF SubInv, Calling
<1>4. wire = <<>>
    BY <1>1, <1>2, <1>3 DEF SubInv, Skipping, Asking
<1>5. wire' = <<made + 1>> /\ made \in Nat
    BY <1>1, <1>2, <1>4 DEF Types
<1>11. Types'
    BY <1>1, <1>2, <1>5 DEF Types
<1>12. Ready'
    BY <1>1, <1>2 DEF SubInv, Ready
<1>13. Skipping'
  <2>1. CASE prog.skips
    <3>1. session /\ made < prog.requests /\ 1 .. made \subseteq subs
        BY <2>1, <1>1 DEF SubInv, Skipping
    <3>2. made' \in Wanted /\ 1 .. made' - 1 \subseteq subs /\ wire' = <<made'>>
      <4>1. made' - 1 = made /\ made' \in 1 .. prog.requests
        BY <1>1, <1>2, <1>5, <3>1 DEF ProgramKind
      <4>2. wire' = <<made'>>
        BY <1>1, <1>5, Zenon
      <4>3. QED
        BY <3>1, <4>1, <4>2, Zenon DEF Wanted
    <3>3. CASE prog.waits
      <4>1. pc' = "subscribing" /\ answer' = "none"
        BY <1>1, <3>3
      <4>2. QED
        BY <2>1, <1>1, <1>2, <3>1, <3>2, <4>1, Zenon DEF Skipping
    <3>4. CASE ~prog.waits
      <4>1. prog.requests = 1 /\ made' = 1
        BY <1>1, <1>2, <1>5, <3>1, <3>4 DEF ProgramKind
      <4>2. pc' = "consume" /\ wire' = <<1>> /\ wire' # <<>>
        BY <1>1, <3>2, <3>4, <4>1, Wires, Zenon
      <4>3. QED
        BY <2>1, <1>1, <3>1, <4>1, <4>2, Zenon DEF Skipping
    <3>5. QED
        BY <3>3, <3>4
  <2>2. QED
    BY <2>1, <1>1, Zenon DEF Skipping
<1>14. Asking'
  <2>1. CASE ~prog.skips /\ prog.onLost # "callback"
    <3>1. made' = 1 /\ wire' = <<1>> /\ pc' = "subscribing" /\ answer' = "none"
      <4>1. made + 1 = 1
        BY <2>1, <1>1 DEF SubInv, Asking
      <4>2. wire' = <<1>>
        BY <4>1, <1>5, Zenon
      <4>3. QED
        BY <2>1, <1>1, <1>2, <4>1, <4>2, Zenon DEF ProgramKind
    <3>2. QED
        BY <2>1, <1>1, <3>1, Zenon DEF Asking
  <2>2. QED
    BY <2>1, <1>1 DEF Asking
<1>15. Calling'
    BY <1>1, <1>3 DEF Calling
<1>16. QED
    BY <1>11, <1>12, <1>13, <1>14, <1>15 DEF SubInv

\* The last grant leads to consume.
LEMMA SubscribedStep == SubInv /\ Subscribed => SubInv'
<1> SUFFICES ASSUME SubInv, Subscribed PROVE SubInv'
    OBVIOUS
<1>0. \/ Exit
      \/ /\ pc = "subscribing" /\ answer = "granted"
         /\ pc' = IF made = prog.requests THEN "consume" ELSE "subscribe"
         /\ prog' = prog /\ made' = made /\ answer' = answer /\ consuming' = consuming /\ queue' = queue
         /\ link' = link /\ wire' = wire /\ session' = session /\ subs' = subs /\ cut' = cut
    BY DEF Subscribed, server
<1> SUFFICES ASSUME ~Exit PROVE SubInv'
    BY ExitStep
<1>1. /\ pc = "subscribing" /\ answer = "granted"
      /\ pc' = IF made = prog.requests THEN "consume" ELSE "subscribe"
      /\ prog' = prog /\ made' = made /\ answer' = answer /\ consuming' = consuming /\ queue' = queue
      /\ link' = link /\ wire' = wire /\ session' = session /\ subs' = subs /\ cut' = cut
    BY <1>0
<1>2. Types /\ ProgramKind /\ Wanted' = Wanted
    BY <1>1, Kinds DEF SubInv, Wanted
<1>3. prog.onLost # "callback"
    BY <1>1, <1>2 DEF SubInv, Calling
<1>11. Types'
    BY <1>1, <1>2 DEF Types
<1>12. Ready'
    BY <1>1, <1>2 DEF SubInv, Ready
<1>13. Skipping'
  <2>1. CASE prog.skips
    <3>1. session /\ wire = <<>> /\ made \in Wanted /\ made \in subs /\ 1 .. made - 1 \subseteq subs
        BY <2>1, <1>1 DEF SubInv, Skipping
    <3>2. 1 .. made \subseteq subs
        BY <1>2, <3>1 DEF Types
    <3>3. CASE made = prog.requests
      <4>1. subs = Wanted
        BY <3>2, <3>3, Zenon DEF SubInv, Ready, Wanted
      <4>2. QED
        BY <2>1, <1>1, <1>2, <3>1, <3>3, <4>1, Zenon DEF Skipping
    <3>4. CASE made # prog.requests
      <4>1. made < prog.requests
        BY <1>2, <3>1, <3>4 DEF Wanted, ProgramKind
      <4>2. QED
        BY <2>1, <1>1, <3>1, <3>2, <3>4, <4>1 DEF Skipping
    <3>5. QED
        BY <3>3, <3>4
  <2>2. QED
    BY <2>1, <1>1, Zenon DEF Skipping
<1>14. Asking'
    BY <1>1, <1>2 DEF SubInv, Asking, ProgramKind
<1>15. Calling'
    BY <1>1, <1>3 DEF Calling
<1>16. QED
    BY <1>11, <1>12, <1>13, <1>14, <1>15 DEF SubInv

\* An event is handled.
LEMMA ConsumeStep == SubInv /\ Consume => SubInv'
<1> SUFFICES ASSUME SubInv, Consume PROVE SubInv'
    OBVIOUS
<1>1. /\ pc = "consume" /\ queue # <<>> /\ queue' = Tail(queue)
      /\ Head(queue) = "message" \/ prog.onLost # "callback"
      /\ prog' = prog /\ pc' = pc /\ made' = made /\ answer' = answer /\ consuming' = consuming
      /\ link' = link /\ wire' = wire /\ session' = session /\ subs' = subs /\ cut' = cut
    BY DEF Consume, Take, server, Callback
<1>2. Types /\ ProgramKind /\ Wanted' = Wanted
    BY <1>1, Kinds DEF SubInv, Wanted
<1>3. Taken(queue, queue')
    BY <1>1, <1>2, Events DEF Types
<1>11. Types'
    BY <1>1, <1>2, <1>3 DEF Types, Taken
<1>12. Ready'
    BY <1>1, <1>2 DEF SubInv, Ready
<1>13. Skipping'
    BY <1>1, <1>2, Zenon DEF SubInv, Skipping, Stored, ProgramKind
<1>14. Asking'
    BY <1>1, <1>2 DEF SubInv, Asking, ProgramKind
<1>15. Calling'
  <2>1. CASE prog.onLost = "callback"
    <3>1. Len(queue') \in Nat /\ Len(queue) = Len(queue') + 1
        BY <1>2, <1>3 DEF Types, Taken
    <3>2. \A i \in 1 .. Len(queue') :
             /\ i + 1 \in 1 .. Len(queue) /\ queue'[i] = queue[i + 1]
             /\ i + 1 = Len(queue) => i = Len(queue')
        BY <1>3, <3>1 DEF Taken
    <3>3. \A i \in 1 .. Len(queue') :
             queue'[i] \in {"lost", "failed"} => i = Len(queue') /\ ~link /\ wire = <<>>
        BY <2>1, <3>2 DEF SubInv, Calling
    <3>4. (\E i \in 1 .. Len(queue) : queue[i] = "connected") =>
             \E i \in 1 .. Len(queue') : queue'[i] = "connected"
      <4> SUFFICES ASSUME NEW i \in 1 .. Len(queue), queue[i] = "connected"
                   PROVE  \E j \in 1 .. Len(queue') : queue'[j] = "connected"
        OBVIOUS
      <4>1. i # 1
        BY <2>1, <1>1, <1>3 DEF Taken
      <4>2. i - 1 \in 1 .. Len(queue') /\ (i - 1) + 1 = i
        BY <3>1, <4>1
      <4>3. queue'[i - 1] = "connected"
        BY <3>2, <4>2
      <4>4. QED
        BY <4>2, <4>3
    <3>5. QED
        BY <2>1, <1>1, <1>2, <3>3, <3>4 DEF SubInv, Calling
  <2>2. QED
    BY <2>1, <1>1 DEF Calling
<1>16. QED
    BY <1>11, <1>12, <1>13, <1>14, <1>15 DEF SubInv

\* The consumer is stopped.
LEMMA stop_consumingStep == SubInv /\ stop_consuming => SubInv'
<1> SUFFICES ASSUME SubInv, stop_consuming PROVE SubInv'
    OBVIOUS
<1>1. /\ pc = "consume" /\ prog.stops # "no" /\ pc' = "stopping"
      /\ prog' = prog /\ made' = made /\ answer' = answer /\ queue' = queue /\ link' = link
      /\ wire' = wire /\ session' = session /\ subs' = subs /\ cut' = cut
    BY DEF stop_consuming, server
<1>2. Types /\ ProgramKind /\ Wanted' = Wanted
    BY <1>1, Kinds DEF SubInv, Wanted
<1>3. prog.skips /\ prog.onLost # "callback"
    BY <1>1, <1>2 DEF ProgramKind
<1>11. Types'
    BY <1>1, <1>2 DEF Types
<1>12. Ready'
    BY <1>1, <1>2 DEF SubInv, Ready
<1>13. Skipping'
    BY <1>1, <1>2, <1>3, Zenon DEF SubInv, Skipping
<1>14. Asking'
    BY <1>1, <1>3 DEF Asking
<1>15. Calling'
    BY <1>1, <1>3 DEF Calling
<1>16. QED
    BY <1>11, <1>12, <1>13, <1>14, <1>15 DEF SubInv

\* What the stopped consumer has left is taken.
LEMMA DrainStep == SubInv /\ Drain => SubInv'
<1> SUFFICES ASSUME SubInv, Drain PROVE SubInv'
    OBVIOUS
<1>0. \/ Exit
      \/ /\ pc = "stopping" /\ queue # <<>> /\ queue' = Tail(queue)
         /\ prog' = prog /\ pc' = pc /\ made' = made /\ answer' = answer /\ consuming' = consuming
         /\ link' = link /\ wire' = wire /\ session' = session /\ subs' = subs /\ cut' = cut
    BY DEF Drain, Take, server
<1> SUFFICES ASSUME ~Exit PROVE SubInv'
    BY ExitStep
<1>1. /\ pc = "stopping" /\ queue # <<>> /\ queue' = Tail(queue)
      /\ prog' = prog /\ pc' = pc /\ made' = made /\ answer' = answer /\ consuming' = consuming
      /\ link' = link /\ wire' = wire /\ session' = session /\ subs' = subs /\ cut' = cut
    BY <1>0
<1>2. Types /\ ProgramKind /\ Wanted' = Wanted
    BY <1>1, Kinds DEF SubInv, Wanted
<1>3. prog.skips /\ prog.onLost # "callback"
    BY <1>1, <1>2 DEF SubInv, Ready, ProgramKind
<1>4. Taken(queue, queue')
    BY <1>1, <1>2, Events DEF Types
<1>11. Types'
    BY <1>1, <1>2, <1>4 DEF Types, Taken
<1>12. Ready'
    BY <1>1, <1>2 DEF SubInv, Ready
<1>13. Skipping'
    BY <1>1, <1>2, <1>3, Zenon DEF SubInv, Skipping
<1>14. Asking'
    BY <1>1, <1>3 DEF Asking
<1>15. Calling'
    BY <1>1, <1>3 DEF Calling
<1>16. QED
    BY <1>11, <1>12, <1>13, <1>14, <1>15 DEF SubInv

\* The queue tells that the connection was lost.
LEMMA ConsumeLostStep == SubInv /\ ConsumeLost => SubInv'
<1> SUFFICES ASSUME SubInv, ConsumeLost PROVE SubInv'
    OBVIOUS
<1>0. \/ Exit
      \/ /\ pc = "consume" /\ queue # <<>> /\ queue' = Tail(queue)
         /\ prog.onLost \in {"ignore", "poll", "reconnect"}
         /\ pc' \in {"consume", "poll"} \/ (pc' = "retry" /\ prog.onLost = "reconnect")
         /\ prog' = prog /\ made' = made /\ answer' = answer /\ consuming' = consuming /\ link' = link
         /\ wire' = wire /\ session' = session /\ subs' = subs /\ cut' = cut
    BY DEF ConsumeLost, Take, server
<1> SUFFICES ASSUME ~Exit PROVE SubInv'
    BY ExitStep
<1>1. /\ pc = "consume" /\ queue # <<>> /\ queue' = Tail(queue)
      /\ prog.onLost \in {"ignore", "poll", "reconnect"}
      /\ pc' \in {"consume", "poll"} \/ (pc' = "retry" /\ prog.onLost = "reconnect")
      /\ prog' = prog /\ made' = made /\ answer' = answer /\ consuming' = consuming /\ link' = link
      /\ wire' = wire /\ session' = session /\ subs' = subs /\ cut' = cut
    BY <1>0
<1>2. Types /\ ProgramKind /\ Wanted' = Wanted
    BY <1>1, Kinds DEF SubInv, Wanted
<1>3. Taken(queue, queue')
    BY <1>1, <1>2, Events DEF Types
<1>11. Types'
    BY <1>1, <1>2, <1>3 DEF Types, Taken
<1>12. Ready'
    BY <1>1, <1>2 DEF SubInv, Ready
<1>13. Skipping'
    BY <1>1, <1>2, Zenon DEF SubInv, Skipping, ProgramKind
<1>14. Asking'
    BY <1>1, <1>2, Wires, Zenon DEF SubInv, Asking
<1>15. Calling'
    BY <1>1 DEF Calling
<1>16. QED
    BY <1>11, <1>12, <1>13, <1>14, <1>15 DEF SubInv

\* The connection is back.
LEMMA PollStep == SubInv /\ Poll => SubInv'
<1> SUFFICES ASSUME SubInv, Poll PROVE SubInv'
    OBVIOUS
<1>1. /\ pc = "poll" /\ pc' = "consume"
      /\ prog' = prog /\ made' = made /\ answer' = answer /\ consuming' = consuming /\ queue' = queue
      /\ link' = link /\ wire' = wire /\ session' = session /\ subs' = subs /\ cut' = cut
    BY DEF Poll, server
<1>2. Types /\ ProgramKind /\ Wanted' = Wanted
    BY <1>1, Kinds DEF SubInv, Wanted
<1>3. prog.onLost # "callback"
    BY <1>1, <1>2 DEF SubInv, Calling
<1>11. Types'
    BY <1>1, <1>2 DEF Types
<1>12. Ready'
    BY <1>1, <1>2 DEF SubInv, Ready
<1>13. Skipping'
    BY <1>1, <1>2, Zenon DEF SubInv, Skipping, Stored, ProgramKind
<1>14. Asking'
    BY <1>1, <1>2, Zenon DEF SubInv, Asking, ProgramKind
<1>15. Calling'
    BY <1>1, <1>3 DEF Calling
<1>16. QED
    BY <1>11, <1>12, <1>13, <1>14, <1>15 DEF SubInv

\* An attempt to connect again.
LEMMA TryReconnectStep == SubInv /\ TryReconnect => SubInv'
<1> SUFFICES ASSUME SubInv, TryReconnect PROVE SubInv'
    OBVIOUS
<1>0. \/ Exit
      \/ /\ pc = "retry" /\ pc' = "reconnecting"
         /\ answer' = "none" /\ wire' = <<0>>
         /\ prog' = prog /\ made' = made /\ consuming' = consuming /\ queue' = queue /\ link' = link
         /\ session' = session /\ subs' = subs /\ cut' = cut
    BY DEF TryReconnect, server, CONNECT
<1> SUFFICES ASSUME ~Exit PROVE SubInv'
    BY ExitStep
<1>1. /\ pc = "retry" /\ pc' = "reconnecting"
      /\ answer' = "none" /\ wire' = <<0>>
      /\ prog' = prog /\ made' = made /\ consuming' = consuming /\ queue' = queue /\ link' = link
      /\ session' = session /\ subs' = subs /\ cut' = cut
    BY <1>0
<1>2. Types /\ ProgramKind /\ Wanted' = Wanted
    BY <1>1, Kinds DEF SubInv, Wanted
<1>3. prog.onLost # "callback"
    BY <1>1, <1>2 DEF SubInv, Calling
<1>4. ~prog.skips
    BY <1>1 DEF SubInv, Skipping
<1>11. Types'
    BY <1>1, <1>2, Wires DEF Types
<1>12. Ready'
    BY <1>1, <1>2 DEF SubInv, Ready
<1>13. Skipping'
    BY <1>1, <1>4, Zenon DEF Skipping
<1>14. Asking'
    BY <1>1, <1>2, Wires, Zenon DEF SubInv, Asking
<1>15. Calling'
    BY <1>1, <1>3 DEF Calling
<1>16. QED
    BY <1>11, <1>12, <1>13, <1>14, <1>15 DEF SubInv

\* The attempt succeeded: the program subscribes again.
LEMMA ReconnectedStep == SubInv /\ Reconnected => SubInv'
<1> SUFFICES ASSUME SubInv, Reconnected PROVE SubInv'
    OBVIOUS
<1>1. /\ pc = "reconnecting" /\ answer \in {"new", "present"}
      /\ pc' = "subscribe" /\ made' = 0
      /\ prog' = prog /\ answer' = answer /\ consuming' = consuming /\ queue' = queue /\ link' = link
      /\ wire' = wire /\ session' = session /\ subs' = subs /\ cut' = cut
    BY DEF Reconnected, server
<1>2. Types /\ ProgramKind /\ Wanted' = Wanted
    BY <1>1, Kinds DEF SubInv, Wanted
<1>3. prog.onLost # "callback"
    BY <1>1, <1>2 DEF SubInv, Calling
<1>4. ~prog.skips
    BY <1>1 DEF SubInv, Skipping
<1>11. Types'
    BY <1>1, <1>2 DEF Types
<1>12. Ready'
    BY <1>1, <1>2 DEF SubInv, Ready
<1>13. Skipping'
    BY <1>1, <1>4 DEF Skipping
<1>14. Asking'
    BY <1>1, <1>2 DEF SubInv, Asking
<1>15. Calling'
    BY <1>1, <1>3 DEF Calling
<1>16. QED
    BY <1>11, <1>12, <1>13, <1>14, <1>15 DEF SubInv

\* The attempt failed or timed out.
LEMMA ReconnectFailsStep == SubInv /\ ReconnectFails => SubInv'
<1> SUFFICES ASSUME SubInv, ReconnectFails PROVE SubInv'
    OBVIOUS
<1>1. /\ pc = "reconnecting" /\ pc' = "retry"
      /\ prog' = prog /\ made' = made /\ answer' = answer /\ consuming' = consuming /\ queue' = queue
      /\ link' = link /\ wire' = wire /\ session' = session /\ subs' = subs /\ cut' = cut
    BY DEF ReconnectFails, server
<1>2. Types /\ ProgramKind /\ Wanted' = Wanted
    BY <1>1, Kinds DEF SubInv, Wanted
<1>3. prog.onLost # "callback"
    BY <1>1, <1>2 DEF SubInv, Calling
<1>4. ~prog.skips
    BY <1>1 DEF SubInv, Skipping
<1>11. Types'
    BY <1>1, <1>2 DEF Types
<1>12. Ready'
    BY <1>1, <1>2 DEF SubInv, Ready
<1>13. Skipping'
    BY <1>1, <1>4 DEF Skipping
<1>14. Asking'
    BY <1>1, <1>2 DEF SubInv, Asking
<1>15. Calling'
    BY <1>1, <1>3 DEF Calling
<1>16. QED
    BY <1>11, <1>12, <1>13, <1>14, <1>15 DEF SubInv

\* The callback connected() subscribes.
LEMMA connectedStep == SubInv /\ connected => SubInv'
<1> SUFFICES ASSUME SubInv, connected PROVE SubInv'
    OBVIOUS
<1>0. \/ Exit
      \/ /\ prog.onLost = "callback" /\ pc = "consume" /\ queue # <<>> /\ queue' = Tail(queue)
         /\ link /\ wire' = Append(wire, 1)
         /\ prog' = prog /\ pc' = pc /\ made' = made /\ answer' = answer /\ consuming' = consuming
         /\ link' = link /\ session' = session /\ subs' = subs /\ cut' = cut
    BY DEF connected, Callback, Take, server
<1> SUFFICES ASSUME ~Exit PROVE SubInv'
    BY ExitStep
<1>1. /\ prog.onLost = "callback" /\ pc = "consume" /\ queue # <<>> /\ queue' = Tail(queue)
      /\ link /\ wire' = Append(wire, 1)
      /\ prog' = prog /\ pc' = pc /\ made' = made /\ answer' = answer /\ consuming' = consuming
      /\ link' = link /\ session' = session /\ subs' = subs /\ cut' = cut
    BY <1>0
<1>2. Types /\ ProgramKind /\ Wanted' = Wanted
    BY <1>1, Kinds DEF SubInv, Wanted
<1>3. Taken(queue, queue')
    BY <1>1, <1>2, Events DEF Types
<1>4. ~prog.skips
    BY <1>1, <1>2 DEF ProgramKind
<1>5. /\ wire' \in Seq(Nat) /\ Len(wire') = Len(wire) + 1 /\ Len(wire) \in Nat
      /\ wire'[Len(wire')] = 1 /\ \A i \in 1 .. Len(wire) : wire'[i] = wire[i]
    BY <1>1, <1>2, AppendProperties DEF Types
<1>11. Types'
    BY <1>1, <1>2, <1>3, <1>5 DEF Types, Taken
<1>12. Ready'
    BY <1>1, <1>2 DEF SubInv, Ready
<1>13. Skipping'
    BY <1>1, <1>4 DEF Skipping
<1>14. Asking'
    BY <1>1 DEF Asking
<1>15. Calling'
  <2>1. \A i \in 1 .. Len(wire) : wire[i] = 1
    BY <1>1 DEF SubInv, Calling
  <2>2. \A i \in 1 .. Len(wire') : wire'[i] = 1
    BY <1>5, <2>1
  <2>3. wire' # <<0>> /\ wire' # <<>>
    BY <1>5, <2>2, Wires
  <2>4. \A i \in 1 .. Len(queue) : queue[i] \notin {"lost", "failed"}
    BY <1>1 DEF SubInv, Calling
  <2>5. \A i \in 1 .. Len(queue') : i + 1 \in 1 .. Len(queue) /\ queue'[i] = queue[i + 1]
    BY <1>2, <1>3 DEF Types, Taken
  <2>6. \A i \in 1 .. Len(queue') : queue'[i] \notin {"lost", "failed"}
    BY <2>4, <2>5
  <2>7. QED
    BY <1>1, <2>2, <2>3, <2>6 DEF Calling
<1>16. QED
    BY <1>11, <1>12, <1>13, <1>14, <1>15 DEF SubInv

\* The callback connection_lost() connects again.
LEMMA connection_lostStep == SubInv /\ connection_lost => SubInv'
<1> SUFFICES ASSUME SubInv, connection_lost PROVE SubInv'
    OBVIOUS
<1>0. \/ Exit
      \/ /\ prog.onLost = "callback" /\ pc = "consume" /\ queue # <<>> /\ queue' = Tail(queue)
         /\ Head(queue) = "lost" /\ wire' = <<0>>
         /\ prog' = prog /\ pc' = pc /\ made' = made /\ answer' = answer /\ consuming' = consuming
         /\ link' = link /\ session' = session /\ subs' = subs /\ cut' = cut
    BY DEF connection_lost, Callback, Take, server, CONNECT
<1> SUFFICES ASSUME ~Exit PROVE SubInv'
    BY ExitStep
<1>1. /\ prog.onLost = "callback" /\ pc = "consume" /\ queue # <<>> /\ queue' = Tail(queue)
      /\ Head(queue) = "lost" /\ wire' = <<0>>
      /\ prog' = prog /\ pc' = pc /\ made' = made /\ answer' = answer /\ consuming' = consuming
      /\ link' = link /\ session' = session /\ subs' = subs /\ cut' = cut
    BY <1>0
<1>2. Types /\ ProgramKind /\ Wanted' = Wanted
    BY <1>1, Kinds DEF SubInv, Wanted
<1>3. Taken(queue, queue')
    BY <1>1, <1>2, Events DEF Types
<1>4. ~prog.skips
    BY <1>1, <1>2 DEF ProgramKind
<1>11. Types'
    BY <1>1, <1>2, <1>3, Wires DEF Types, Taken
<1>12. Ready'
    BY <1>1, <1>2 DEF SubInv, Ready
<1>13. Skipping'
    BY <1>1, <1>4 DEF Skipping
<1>14. Asking'
    BY <1>1 DEF Asking
<1>15. Calling'
  <2>1. queue[1] = "lost" /\ Len(queue) = Len(queue') + 1 /\ Len(queue') \in Nat
    BY <1>1, <1>2, <1>3 DEF Types, Taken
  <2>2. 1 \in 1 .. Len(queue)
    BY <2>1
  <2>3. 1 = Len(queue) /\ ~link
    BY <1>1, <2>1, <2>2, Zenon DEF SubInv, Calling
  <2>4. \A i : i \notin 1 .. Len(queue')
    BY <2>1, <2>3
  <2>5. QED
    BY <1>1, <2>3, <2>4 DEF Calling
<1>16. QED
    BY <1>11, <1>12, <1>13, <1>14, <1>15 DEF SubInv

\* The listener's on_failure() connects again.
LEMMA on_failureStep == SubInv /\ on_failure => SubInv'
<1> SUFFICES ASSUME SubInv, on_failure PROVE SubInv'
    OBVIOUS
<1>0. \/ Exit
      \/ /\ prog.onLost = "callback" /\ pc = "consume" /\ queue # <<>> /\ queue' = Tail(queue)
         /\ Head(queue) = "failed" /\ wire' = <<0>>
         /\ prog' = prog /\ pc' = pc /\ made' = made /\ answer' = answer /\ consuming' = consuming
         /\ link' = link /\ session' = session /\ subs' = subs /\ cut' = cut
    BY DEF on_failure, Callback, Take, server, CONNECT
<1> SUFFICES ASSUME ~Exit PROVE SubInv'
    BY ExitStep
<1>1. /\ prog.onLost = "callback" /\ pc = "consume" /\ queue # <<>> /\ queue' = Tail(queue)
      /\ Head(queue) = "failed" /\ wire' = <<0>>
      /\ prog' = prog /\ pc' = pc /\ made' = made /\ answer' = answer /\ consuming' = consuming
      /\ link' = link /\ session' = session /\ subs' = subs /\ cut' = cut
    BY <1>0
<1>2. Types /\ ProgramKind /\ Wanted' = Wanted
    BY <1>1, Kinds DEF SubInv, Wanted
<1>3. Taken(queue, queue')
    BY <1>1, <1>2, Events DEF Types
<1>4. ~prog.skips
    BY <1>1, <1>2 DEF ProgramKind
<1>11. Types'
    BY <1>1, <1>2, <1>3, Wires DEF Types, Taken
<1>12. Ready'
    BY <1>1, <1>2 DEF SubInv, Ready
<1>13. Skipping'
    BY <1>1, <1>4 DEF Skipping
<1>14. Asking'
    BY <1>1 DEF Asking
<1>15. Calling'
  <2>1. queue[1] = "failed" /\ Len(queue) = Len(queue') + 1 /\ Len(queue') \in Nat
    BY <1>1, <1>2, <1>3 DEF Types, Taken
  <2>2. 1 \in 1 .. Len(queue)
    BY <2>1
  <2>3. 1 = Len(queue) /\ ~link
    BY <1>1, <2>1, <2>2, Zenon DEF SubInv, Calling
  <2>4. \A i : i \notin 1 .. Len(queue')
    BY <2>1, <2>3
  <2>5. QED
    BY <1>1, <2>3, <2>4 DEF Calling
<1>16. QED
    BY <1>11, <1>12, <1>13, <1>14, <1>15 DEF SubInv

-----------------------------------------------------------------------------

\* SubInv holds of every program of examples/ that subscribes, however often it loses its
\* connection, crashes and is started again.
THEOREM SubscriberInvariant == SubscriberSpec => []SubInv
<1>1. SubscriberInit => SubInv
  <2> SUFFICES ASSUME SubscriberInit PROVE SubInv
    OBVIOUS
  <2> USE DEF SubscriberInit
  <2>1. Types
    BY EmptySeq DEF Types
  <2>2. Ready
    BY DEF Ready
  <2>3. Skipping
    BY Zenon DEF Skipping, Stored
  <2>4. Asking
    BY Zenon DEF Asking
  <2>5. Calling
    <3>1. /\ <<>> # <<0>> /\ Len(wire) = 0 /\ Len(queue) = 0
          /\ 1 .. 0 = {}
        BY Wires
    <3>2. QED
        BY <3>1, Zenon DEF Calling
  <2>6. QED
    BY <2>1, <2>2, <2>3, <2>4, <2>5, Zenon DEF SubInv
<1>2. SubInv /\ [SubscriberNext]_subscriberVars => SubInv'
  <2> SUFFICES ASSUME SubInv, [SubscriberNext]_subscriberVars PROVE SubInv'
    OBVIOUS
  <2>1. CASE Program
    <3>1. CASE Handlers
        BY <3>1, connectedStep, connection_lostStep, on_failureStep, Zenon DEF Handlers
    <3>2. CASE TimesOut \/ GiveUp
        BY <3>2, ExitStep, Zenon DEF TimesOut, GiveUp
    <3>3. QED
        BY <2>1, <3>1, <3>2, start_consumingStep, connectStep, ConnectedStep, SubscribeStep,
           SubscribedStep, ConsumeStep, DrainStep, ConsumeLostStep, PollStep, TryReconnectStep,
           ReconnectedStep, ReconnectFailsStep, Zenon DEF Program
  <2>2. CASE Requests
    BY <2>2, ServerConnectStep, ConnectFailsStep, ServerSubscribeStep, Zenon DEF Requests
  <2>3. CASE Quit
    BY <2>3, ExitStep, Zenon DEF Quit
  <2>4. CASE UNCHANGED subscriberVars
    <3>1. /\ prog' = prog /\ pc' = pc /\ made' = made /\ answer' = answer /\ consuming' = consuming
          /\ queue' = queue /\ link' = link /\ wire' = wire /\ session' = session /\ subs' = subs
          /\ cut' = cut
        BY <2>4 DEF subscriberVars, client, server, bounds
    <3>2. Wanted' = Wanted
        BY <3>1 DEF Wanted
    <3>3. Types' /\ Ready'
        BY <3>1, <3>2 DEF SubInv, Types, Ready
    <3>4. Skipping'
        BY <3>1, <3>2, Zenon DEF SubInv, Skipping, Stored
    <3>5. Asking'
        BY <3>1, <3>2, Zenon DEF SubInv, Asking
    <3>6. Calling'
        BY <3>1, <3>2 DEF SubInv, Calling
    <3>7. QED
        BY <3>3, <3>4, <3>5, <3>6 DEF SubInv
  <2>5. QED
    BY <2>1, <2>2, <2>3, <2>4, StartStep, stop_consumingStep, LostStep, AutoReconnectStep, MessageStep,
       ExitStep, Zenon
    DEF SubscriberNext
<1>3. QED
    BY <1>1, <1>2, PTL DEF SubscriberSpec

\* "Start consumer before connecting": whenever the server can send a message, of a
\* session kept from an earlier run too, the consumer or the callback is there, up to a
\* stop_consuming() of the program itself.
THEOREM ConsumerMissesNothing == SubscriberSpec => []NothingMissed
<1>1. SubInv => NothingMissed
    BY DEF SubInv, Ready, NothingMissed
<1>2. QED
    BY <1>1, SubscriberInvariant, PTL

\* A program that waits for messages on a connection has its subscriptions; a program
\* that relies on is_session_present() does unless its session was cut off.
THEOREM SubscriberNeverDeaf == SubscriberSpec => []NeverDeaf
<1>1. SubInv => NeverDeaf
  <2> SUFFICES ASSUME SubInv, Listening, prog.skips => ~cut PROVE subs = Wanted
    BY DEF NeverDeaf, Wanted
  <2>1. /\ pc = "consume" /\ link /\ wire = <<>>
        /\ \A i \in DOMAIN queue : queue[i] \notin {"lost", "connected"}
    BY DEF Listening
  <2>2. \A i \in 1 .. Len(queue) : queue[i] # "connected"
    BY <2>1, LenProperties DEF SubInv, Types
  <2>3. CASE prog.skips
    BY <2>1, <2>3 DEF SubInv, Skipping
  <2>4. CASE ~prog.skips /\ prog.onLost # "callback"
    BY <2>1, <2>4 DEF SubInv, Asking
  <2>5. CASE prog.onLost = "callback"
    BY <2>1, <2>2, <2>5 DEF SubInv, Calling
  <2>6. QED
    BY <2>3, <2>4, <2>5
<1>2. QED
    BY <1>1, SubscriberInvariant, PTL

=============================================================================
