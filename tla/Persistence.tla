---------------------------- MODULE Persistence ----------------------------
(***************************************************************************)
(* The store that the C library keeps messages in while they are in        *)
(* flight: the adapter that turns the C library's calls into calls of an   *)
(* iclient_persistence object and its exceptions into return codes, over   *)
(* one of the two stores of examples/: the map of sample_mem_persistence,  *)
(* and the directory of encoded_file_persistence, one file for each key.   *)
(*                                                                         *)
(* Every call of the file system may fail, and the process may crash       *)
(* between two of them.  The C library makes one call at a time.           *)
(***************************************************************************)
EXTENDS Naturals, Sequences

CONSTANTS
    Keys,           \* the keys of the C library
    Messages,       \* what it stores: sequences of buffers, a buffer of bits
    EncodeKey,      \* encodeKey_, bits
    Absent,         \* no entry with this key
    MaxFailures,    \* bound on failing calls of the file system
    MaxCrashes      \* bound on crashes

Bit == {0, 1}

\* The buffers one after the other; SequencesExt has this too, but all of it would be part
\* of every proof obligation.
FlattenSeq(bufs) ==
    LET upto[i \in 0 .. Len(bufs)] == IF i = 0 THEN <<>> ELSE upto[i - 1] \o bufs[i]
    IN upto[Len(bufs)]

ASSUME StoredData == \A m \in Messages : FlattenSeq(m) \in Seq(Bit) /\ FlattenSeq(m) # <<>>
ASSUME EncodingKey == EncodeKey \in Seq(Bit)
ASSUME AbsentIsNoData == Absent \notin Seq(Bit)
ASSUME FaultBounds == MaxFailures \in Nat /\ MaxCrashes \in Nat

VARIABLES
    store,          \* "memory" or "file"
    handle,         \* the C library has the store open
    dir,            \* the directory exists
    content,        \* what the store has for each key
    call,           \* the call in progress: operation, key, and message or answer
    rc,             \* the return code of the last call
    fault,          \* the file system failed in the last call
    before,         \* the content when the last call began
    held,           \* what the return codes have told the C library of the store
    doubtful,       \* keys of a call that a crash or a failure cut short
    failures, crashes

counters == <<fault, failures, crashes>>
vars == <<store, handle, dir, content, call, rc, before, held, doubtful, counters>>

CallOf(op) == [op |-> op, key |-> Absent, msg |-> Absent]
NoCall == CallOf("none")
Nothing == [k \in Keys |-> Absent]
Entry == Seq(Bit) \union {Absent}

\* Types.
TypeOK ==
    /\ store \in {"memory", "file"}
    /\ handle \in BOOLEAN /\ dir \in BOOLEAN
    /\ content \in [Keys -> Entry] /\ before \in [Keys -> Entry] /\ held \in [Keys -> Entry]
    /\ call \in {NoCall} \union [op : {"put"}, key : Keys, msg : Messages]
                    \union [op : {"recreate", "parent"}, key : {Absent}, msg : {Absent}]
                    \union [op : {"get", "containskey"}, key : Keys, msg : Entry]
                    \union [op : {"keys"}, key : {Absent}, msg : SUBSET Keys]
    /\ rc \in {"none", "success", "error"}
    /\ doubtful \subseteq Keys
    /\ fault \in BOOLEAN /\ failures \in Nat /\ crashes \in Nat

Init ==
    /\ store \in {"memory", "file"}
    /\ handle = FALSE /\ dir = FALSE
    /\ content = Nothing /\ before = Nothing /\ held = Nothing
    /\ call = NoCall /\ rc = "none" /\ doubtful = {}
    /\ fault = FALSE /\ failures = 0 /\ crashes = 0

-----------------------------------------------------------------------------
(* What the stores make of the data.                                       *)

\* XOR with the key, as often as it takes; its own inverse.
encode(s) ==
    IF EncodeKey = <<>> THEN s
    ELSE [i \in 1 .. Len(s) |-> (s[i] + EncodeKey[1 + ((i - 1) % Len(EncodeKey))]) % 2]

\* Mutant: each buffer is encoded by itself.
Encoded_EachBuffer(msg) ==
    IF store = "memory" THEN FlattenSeq(msg)
    ELSE FlattenSeq([i \in 1 .. Len(msg) |-> encode(msg[i])])

\* put() of the map: the buffers in one string.
mem_put(msg) == FlattenSeq(msg)

\* put() of the files: the string is encoded, "so that the encoding key lines up".
file_put(msg) == encode(FlattenSeq(msg))

Encoded(msg) == IF store = "memory" THEN mem_put(msg) ELSE file_put(msg)

keys == {k \in Keys : content[k] # Absent}

-----------------------------------------------------------------------------
(* The calls.  A call of one step begins and ends in it.                   *)

\* After a success the C library takes the entry to be put, or removed; after an
\* error it takes it to be as before.
Believe(k, entry) == held' = [held EXCEPT ![k] = entry]

Idle == handle /\ call = NoCall

FsFails == failures < MaxFailures /\ failures' = failures + 1 /\ fault' = TRUE
FsWorks == UNCHANGED failures /\ fault' = FALSE

persistence_open ==
    /\ ~handle /\ call = NoCall
    /\ before' = content
    /\ \/ handle' = TRUE /\ dir' = (store = "file") /\ rc' = "success" /\ FsWorks
       \/ store = "file" /\ FsFails /\ rc' = "error" /\ UNCHANGED <<handle, dir>>
    /\ UNCHANGED <<store, content, call, held, doubtful, crashes>>

\* Removes the directory if it is empty, then the one above, which may hold the
\* directories of others; the map stays.
persistence_close ==
    /\ Idle
    /\ before' = content
    /\ handle' = FALSE
    /\ \/ /\ store = "memory" /\ rc' = "success" /\ FsWorks /\ UNCHANGED <<dir, call>>
       \/ /\ store = "file" /\ keys = {} /\ FsWorks
          /\ dir' = FALSE /\ call' = CallOf("parent") /\ rc' = "none"
       \/ /\ store = "file" /\ rc' = "error" /\ UNCHANGED <<dir, call>>
          /\ IF keys = {} THEN FsFails ELSE FsWorks
    /\ UNCHANGED <<store, content, held, doubtful, crashes>>

RemoveParent ==
    /\ call.op = "parent"
    /\ call' = NoCall /\ rc' \in {"success", "error"}
    /\ UNCHANGED <<store, handle, dir, content, before, held, doubtful, counters>>

\* put() in memory; put() in a file up to its opening, which truncates it.
persistence_put(k, msg) ==
    /\ Idle
    /\ before' = content
    /\ \/ /\ store = "memory" /\ FsWorks
          /\ content' = [content EXCEPT ![k] = Encoded(msg)]
          /\ rc' = "success" /\ Believe(k, FlattenSeq(msg))
          /\ UNCHANGED <<call, doubtful>>
       \/ /\ store = "file" /\ dir /\ FsWorks
          /\ content' = [content EXCEPT ![k] = <<>>]
          /\ call' = [op |-> "put", key |-> k, msg |-> msg] /\ rc' = "none"
          /\ UNCHANGED <<held, doubtful>>
       \/ /\ store = "file" /\ (IF dir THEN FsFails ELSE FsWorks)
          /\ rc' = "error" /\ UNCHANGED <<content, call, held, doubtful>>
    /\ UNCHANGED <<store, handle, dir, crashes>>

\* A write that was cut short.
Begun(k, msg) ==
    \E n \in 0 .. Len(Encoded(msg)) - 1 :
        content' = [content EXCEPT ![k] = SubSeq(Encoded(msg), 1, n)]

\* The write and the end of put(), which does not look at the stream again: a write
\* that fails is reported as a success.
Write ==
    /\ call.op = "put"
    /\ call' = NoCall /\ rc' = "success"
    /\ \/ /\ FsWorks /\ content' = [content EXCEPT ![call.key] = Encoded(call.msg)]
          /\ doubtful' = doubtful \ {call.key}
       \/ FsFails /\ doubtful' = doubtful \union {call.key} /\ Begun(call.key, call.msg)
    /\ Believe(call.key, FlattenSeq(call.msg))
    /\ UNCHANGED <<store, handle, dir, before, crashes>>

\* A key without an entry is an error in the map, and none in the directory.
persistence_remove(k) ==
    /\ Idle
    /\ before' = content
    /\ \/ /\ store = "file" \/ k \in keys
          /\ content' = [content EXCEPT ![k] = Absent]
          /\ doubtful' = doubtful \ {k}
          /\ rc' = "success" /\ Believe(k, Absent) /\ FsWorks
       \/ /\ store = "memory" /\ k \notin keys /\ FsWorks
          /\ rc' = "error" /\ UNCHANGED <<content, held, doubtful>>
       \/ /\ store = "file" /\ FsFails
          /\ rc' = "error" /\ UNCHANGED <<content, held, doubtful>>
    /\ UNCHANGED <<store, handle, dir, call, crashes>>

\* The directory is removed with all its files, and made again.  When that fails on
\* the way, some files are gone.
persistence_clear ==
    /\ Idle
    /\ before' = content
    /\ \/ /\ store = "memory" \/ (dir /\ keys = {})
          /\ content' = Nothing /\ doubtful' = {} /\ FsWorks
          /\ rc' = "success" /\ held' = Nothing
          /\ UNCHANGED <<dir, call>>
       \/ /\ store = "file" /\ dir /\ keys # {} /\ FsWorks
          /\ content' = Nothing /\ dir' = FALSE
          /\ call' = CallOf("recreate") /\ rc' = "none"
          /\ UNCHANGED <<held, doubtful>>
       \/ /\ store = "file" /\ dir /\ FsFails
          /\ \E gone \in SUBSET keys :
                /\ content' = [k \in Keys |-> IF k \in gone THEN Absent ELSE content[k]]
                /\ doubtful' = doubtful \union gone
          /\ rc' = "error" /\ UNCHANGED <<dir, call, held>>
       \/ /\ store = "file" /\ ~dir /\ FsWorks
          /\ rc' = "error" /\ UNCHANGED <<content, dir, call, held, doubtful>>
    /\ UNCHANGED <<store, handle, crashes>>

Recreate ==
    /\ call.op = "recreate"
    /\ call' = NoCall
    /\ \/ /\ FsWorks /\ dir' = TRUE /\ rc' = "success" /\ doubtful' = {}
          /\ held' = Nothing
       \/ FsFails /\ rc' = "error" /\ doubtful' = Keys /\ UNCHANGED <<dir, held>>
    /\ UNCHANGED <<store, handle, content, before, crashes>>

\* get() of the map, and of the files.  A file that is there may not open, which is an
\* error; a read that stops short of its end is none, and what was read is decoded.
mem_get(k) ==
    /\ store = "memory" /\ FsWorks
    /\ rc' = IF k \in keys THEN "success" ELSE "error"
    /\ call' = [op |-> "get", key |-> k, msg |-> content[k]]

file_get(k) ==
    /\ store = "file"
    /\ \/ /\ k \in keys /\ FsWorks /\ rc' = "success"
          /\ call' = [op |-> "get", key |-> k, msg |-> encode(content[k])]
       \/ /\ k \in keys /\ FsFails /\ rc' = "success"
          /\ \E n \in 0 .. Len(content[k]) - 1 :
                call' = [op |-> "get", key |-> k, msg |-> encode(SubSeq(content[k], 1, n))]
       \/ /\ IF k \in keys THEN FsFails ELSE FsWorks
          /\ rc' = "error" /\ call' = [op |-> "get", key |-> k, msg |-> Absent]

persistence_get(k) ==
    /\ Idle
    /\ before' = content
    /\ mem_get(k) \/ file_get(k)
    /\ UNCHANGED <<store, handle, dir, content, held, doubtful, crashes>>

\* No entry with the key, and a directory that cannot be read, are an error alike.
persistence_containskey(k) ==
    /\ Idle
    /\ before' = content
    /\ \/ rc' = (IF k \in keys THEN "success" ELSE "error") /\ FsWorks
       \/ store = "file" /\ rc' = "error" /\ FsFails
    /\ call' = [op |-> "containskey", key |-> k, msg |-> Absent]
    /\ UNCHANGED <<store, handle, dir, content, held, doubtful, crashes>>

persistence_keys ==
    /\ Idle
    /\ before' = content
    /\ \/ call' = [op |-> "keys", key |-> Absent, msg |-> keys] /\ rc' = "success" /\ FsWorks
       \/ /\ store = "file" /\ FsFails
          /\ call' = [op |-> "keys", key |-> Absent, msg |-> {}] /\ rc' = "error"
    /\ UNCHANGED <<store, handle, dir, content, held, doubtful, crashes>>

\* The C library has taken the answer.
Answered ==
    /\ call.op \in {"get", "containskey", "keys"}
    /\ call' = NoCall
    /\ UNCHANGED <<store, handle, dir, content, rc, before, held, doubtful, counters>>

\* The process is gone, and the map with it; the files stay as they are.
Crash ==
    /\ crashes < MaxCrashes
    /\ crashes' = crashes + 1
    /\ handle' = FALSE /\ call' = NoCall /\ rc' = "none"
    /\ \/ /\ store = "memory"
          /\ content' = Nothing /\ held' = Nothing /\ UNCHANGED doubtful
       \/ /\ store = "file" /\ call.op = "put"
          /\ Begun(call.key, call.msg) /\ doubtful' = doubtful \union {call.key}
          /\ UNCHANGED held
       \/ /\ store = "file" /\ call.op # "put"
          /\ doubtful' = IF call.op = "recreate" THEN Keys ELSE doubtful
          /\ UNCHANGED <<content, held>>
    /\ before' = content'
    /\ UNCHANGED <<store, dir, fault, failures>>

Next ==
    \/ persistence_open \/ persistence_close \/ RemoveParent
    \/ \E k \in Keys : \/ persistence_remove(k) \/ persistence_get(k) \/ persistence_containskey(k)
                        \/ \E msg \in Messages : persistence_put(k, msg)
    \/ persistence_keys \/ Answered
    \/ Write
    \/ persistence_clear \/ Recreate
    \/ Crash

Spec == Init /\ [][Next]_vars

-----------------------------------------------------------------------------
(* Properties.                                                             *)

\* The keys that the C library was told are there.
Held == {k \in Keys : held[k] # Absent}

\* The store answers as the return codes have told the C library, after crashes and
\* failures, too: get() gives byte for byte what put() took, in one piece and decoded,
\* or the beginning of it when the read fails; get(), containskey() and keys() find what
\* is there and only that, or return an error when the file system fails.  The exceptions
\* are the key of a put() that crashed or could not write, until it is put or removed
\* again, and the keys of a clear() that crashed or failed.
ReadsBack ==
    /\ call.op = "get" /\ call.key \notin doubtful =>
          /\ ~fault => rc = IF call.key \in Held THEN "success" ELSE "error"
          /\ rc = "success" => call.key \in Held
          /\ rc = "success" /\ ~fault => call.msg = held[call.key]
          /\ rc = "success" /\ fault => \E n \in 0 .. Len(held[call.key]) :
                                           call.msg = SubSeq(held[call.key], 1, n)
    /\ call.op = "containskey" /\ call.key \notin doubtful =>
          rc = "success" <=> call.key \in Held /\ ~fault
    /\ call.op = "keys" /\ rc = "success" => call.msg \ doubtful = Held \ doubtful

\* "If the methods defined throw [...] then the state of the data persisted should
\* remain as prior to the method being called".  (Not so for a clear() of
\* encoded_file_persistence that fails when some of the files are gone.)
ErrorChangesNothing == rc = "error" => content = before

=============================================================================
