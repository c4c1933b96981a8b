------------------------------- MODULE Options -------------------------------
(***************************************************************************)
(* The option, message and collection classes.  Each one wraps a C struct  *)
(* (opts_, msg_, cArr_) whose pointers must lead to data that the C++      *)
(* object itself keeps (its strings, vectors, properties, nested options). *)
(* The compiler copies the struct pointer for pointer, so every copy, move *)
(* and assignment has to set the pointers again.                           *)
(*                                                                         *)
(* A behaviour follows ONE pointer of ONE class, `field', through any      *)
(* sequence of operations on a few objects of that class.  A pointer       *)
(* stands for itself and its length: one with length zero is Null.         *)
(***************************************************************************)
EXTENDS Naturals, FiniteSets

CONSTANTS
    Objects,    \* the C++ objects, and the addresses of what lies inside them
    Buffers,    \* addresses of heap and of reference-counted data
    Null,       \* nullptr
    Values,     \* the contents a member may be given; 0 is the empty one
    Fields      \* the pointers that are followed

Connect == {"userName", "password", "token", "serverURIs", "httpHeaders",
            "httpProxy", "connectProperties", "will", "ssl"}
Ssl == {"trustStore", "errHandler", "protos"}
Will == {"topic", "payload"}
Response == {"responseToken", "responseProperties", "subscribeOptionsList"}
Disconnect == {"disconnectToken", "disconnectProperties"}
Message == {"messagePayload", "messageProperties"}
Collection == {"cArr"}
Property == {"propertyData"}

\* The pointers that the builder of a class has a method for.  One of a kind stands for
\* its like: "trustStore" for every string of ssl_options, "httpProxy" for both proxies.
connect_options_builder == {"will", "ssl", "token", "serverURIs"}
connect_options_builder_login == {"userName", "password"}
connect_options_builder_web == {"connectProperties", "httpHeaders", "httpProxy"}
ssl_options_builder == {"trustStore"}
ssl_options_builder_handlers == {"errHandler", "protos"}
response_options_builder == Response
disconnect_options_builder == {"disconnectProperties"}
message_ptr_builder == {"messagePayload"}
message_ptr_builder_properties == {"messageProperties"}
Buildable == connect_options_builder \cup connect_options_builder_login
                 \cup connect_options_builder_web
                 \cup ssl_options_builder \cup ssl_options_builder_handlers
                 \cup response_options_builder \cup disconnect_options_builder
                 \cup message_ptr_builder \cup message_ptr_builder_properties

\* string_ref, binary_ref and shared_ptr members: a copy shares the data.
Shared == {"userName", "password", "token", "serverURIs", "topic", "payload",
           "responseToken", "disconnectToken", "messagePayload"}
\* Members that lie inside the object, or whose holder is handed out as `this'.
Inline == {"httpProxy", "connectProperties", "will", "ssl", "trustStore",
           "errHandler"}
\* Vectors and property arrays: a copy allocates, a move hands over.
Heap == {"httpHeaders", "protos", "responseProperties", "subscribeOptionsList",
         "disconnectProperties", "messageProperties", "cArr", "propertyData"}
\* Options inside options.
Nested == {"will", "ssl"}
\* Classes with a get_properties() that returns a reference the application
\* may write through.
Editable == {"connectProperties", "disconnectProperties"}

ASSUME OptionsAssumption ==
    /\ Objects \cap Buffers = {} /\ Null \notin Objects \cup Buffers
    /\ 0 \in Values /\ Values \subseteq Nat
    /\ Fields \subseteq Shared \cup Inline \cup Heap

VARIABLES
    field,      \* the pointer this behaviour follows
    obj         \* for each object, or builder of one: life, version, member, C pointer

vars == <<field, obj>>

\* Storage that holds no object.
NoObject == [life |-> "none", v5 |-> FALSE, val |-> 0, at |-> Null,
             ptr |-> Null, fresh |-> TRUE]

\* An object in use, be it inside a builder.
Usable == {"live", "builder"}

\* Addresses of data, as opposed to of nothing.
Address == Objects \cup Buffers

\* The types, and that storage without an object keeps nothing allocated.
TypeOK ==
    /\ field \in Fields
    /\ obj \in [Objects -> [life : {"none", "live", "builder", "moved"}, v5 : BOOLEAN,
                            val : Values, at : Address \cup {Null},
                            ptr : Address \cup {Null}, fresh : BOOLEAN]]
    /\ \A o \in Objects : obj[o].life = "none" => obj[o] = NoObject

-----------------------------------------------------------------------------
(* Pointers *)

\* c_str(), data() and the like: nullptr for an empty member.
c_str(r) == IF r.val = 0 THEN Null ELSE r.at

\* An address an allocation may return: one nobody keeps data at.
Free == {b \in Buffers : \A o \in Objects : obj[o].at # b}

\* Where an object keeps a member of content v, when new data lands at b.
\* set_topic and set_payload of will_options keep even empty data.
Placed(o, v, b) ==
    IF field \in Inline THEN o
    ELSE IF v = 0 /\ field \notin Will THEN Null ELSE b

\* What the C library reads through an object's pointer: one content, or none
\* if the data is gone.
View(o) ==
    LET p == obj[o].ptr
    IN  IF p = Null THEN {0}
        ELSE {obj[k].val : k \in {k \in Objects : obj[k].life # "none"
                                                 /\ obj[k].at = p}}

-----------------------------------------------------------------------------
(* The pointer after update_c_struct, for an object whose members are in   *)
(* place and whose struct was copied.                                      *)

\* Mutant: the proxy is forgotten, as the HTTP headers are in the code.
UpdateConnect_NoProxy(r) ==
    IF field \in {"userName", "password", "serverURIs"} THEN c_str(r)
    ELSE IF field = "connectProperties" /\ r.v5 THEN r.at ELSE r.ptr

\* connect_options: neither the context (the token is shared, its address
\* does not change) nor the HTTP headers are set again; connectProperties is,
\* for an MQTT v5 connection.
UpdateConnect(r) ==
    IF field \in {"userName", "password", "serverURIs", "httpProxy"} THEN c_str(r)
    ELSE IF field = "connectProperties" /\ r.v5 THEN r.at ELSE r.ptr

\* ssl_options sets every pointer, the two handler contexts included.
UpdateSsl(r) == c_str(r)

\* will_options goes through set_topic and set_payload, never to nullptr.
UpdateWill(r) == r.at

\* Mutant: the list is left as the struct copy made it.
UpdateResponse_NoList(r) ==
    IF field = "responseProperties" THEN c_str(r) ELSE r.ptr

\* response_options leaves the context alone, as connect_options does, and sets
\* the list only if the copied count is not zero.
UpdateResponse(r) ==
    IF field = "responseProperties" THEN c_str(r)
    ELSE IF field = "responseToken" THEN r.ptr
    ELSE IF r.ptr # Null THEN r.at ELSE Null

UpdateDisconnect(r) == c_str(r)

\* message: set_payload, and msg_.properties from the object's own.
UpdateMessage(r) == c_str(r)

\* string_collection and name_value_collection rebuild cArr_.
update_c_arr(r) == c_str(r)

\* property: its only member is the C struct, whose data copy() allocates anew.
UpdateProperty(r) == c_str(r)

Update(r) ==
    CASE field \in Connect -> UpdateConnect(r)
      [] field \in Ssl -> UpdateSsl(r)
      [] field \in Will -> UpdateWill(r)
      [] field \in Response -> UpdateResponse(r)
      [] field \in Disconnect -> UpdateDisconnect(r)
      [] field \in Message -> UpdateMessage(r)
      [] field \in Collection -> update_c_arr(r)
      [] field \in Property -> UpdateProperty(r)

-----------------------------------------------------------------------------
(* The operations *)

Init ==
    /\ field \in Fields
    /\ obj = [o \in Objects |-> NoObject]

\* A default constructor, for either protocol version, of an object or of a
\* builder.  will_options() sets its topic, not its payload.
Construct(o) ==
    /\ obj[o].life = "none"
    /\ \E v5 \in BOOLEAN, life \in Usable, b \in Free :
           LET at == IF field = "payload" THEN Null ELSE Placed(o, 0, b)
           IN  /\ v5 => field = "connectProperties"
               /\ life = "builder" => field \in Buildable
               /\ obj' = [obj EXCEPT ![o] =
                    [NoObject EXCEPT !.life = life, !.v5 = v5, !.at = at,
                         !.ptr = IF field = "topic" THEN at ELSE Null]]
    /\ UNCHANGED field

\* Mutant: the setter stores the member and leaves the C struct alone.
SetConnect_MemberOnly(r) == r.ptr

\* The pointer a setter of connect_options stores.  set_will, set_ssl and
\* set_properties point at the member even if it is empty.
SetConnect(r) ==
    IF field \in Nested \cup {"connectProperties"} THEN r.at ELSE c_str(r)

\* ... and one of ssl_options.
SetSsl(r) == c_str(r)

\* set_topic and set_payload of will_options are what its copies use, too.
SetPointer(r) ==
    CASE field \in Connect -> SetConnect(r)
      [] field \in Ssl -> SetSsl(r)
      [] field \in Will -> UpdateWill(r)
      [] OTHER -> c_str(r)

\* An object whose member was set; set_properties of connect_options switches
\* to MQTT v5.
Assigned(o, v, b, life) ==
    LET r == [obj[o] EXCEPT !.life = life, !.val = v, !.at = Placed(o, v, b),
                            !.v5 = @ \/ field = "connectProperties"]
    IN  [r EXCEPT !.ptr = SetPointer(r), !.fresh = TRUE]

\* A setter, which may also bring a moved-from object back into use.  A property
\* has none: it is assigned a new one.
Set(o, v) ==
    /\ obj[o].life \in {"live", "moved"}
    /\ \E b \in Free : obj' = [obj EXCEPT ![o] = Assigned(o, v, b, "live")]
    /\ UNCHANGED field

\* A method of a builder calls the setter of the object inside.
Build(o, v) ==
    /\ obj[o].life = "builder" /\ field \in Buildable
    /\ \E b \in Free : obj' = [obj EXCEPT ![o] = Assigned(o, v, b, "builder")]
    /\ UNCHANGED field

\* set_mqtt_version of connect_options does not touch connectProperties.
set_mqtt_version(o) ==
    /\ field = "connectProperties"
    /\ obj[o].life \in Usable
    /\ obj' = [obj EXCEPT ![o].v5 = ~@, ![o].fresh = FALSE]
    /\ UNCHANGED field

\* get_properties().add(...) or .clear(): the member changes, and its array
\* may move, behind the back of the C struct.
EditProperties(o, v) ==
    /\ field \in Editable
    /\ obj[o].life = "live"
    /\ \E b \in Free :
           obj' = [obj EXCEPT ![o].val = v, ![o].at = Placed(o, v, b),
                              ![o].fresh = FALSE]
    /\ UNCHANGED field

\* Mutant: a struct copy of the member, so that two objects free one array.
Copied_Shallow(o, s, b) ==
    LET r == [obj[s] EXCEPT !.at = IF field \in Inline THEN o ELSE @,
                            !.fresh = TRUE]
    IN  [r EXCEPT !.ptr = Update(r)]

\* Object o after it was copied from s: the struct as it is, every member,
\* then update_c_struct.  Nested options are copied through set_will and
\* set_ssl, if the struct says that there are any; if not, the member of o
\* keeps what it had.
Copied(o, s, b) ==
    LET unset == field \in Nested /\ obj[s].ptr = Null
        v == IF unset THEN obj[o].val ELSE obj[s].val
        at == IF field \in Shared /\ obj[s].at # Null THEN obj[s].at
              ELSE Placed(o, v, b)
        p == IF field \in Nested /\ ~unset THEN o ELSE obj[s].ptr
        r == [obj[s] EXCEPT !.val = v, !.at = at, !.ptr = p, !.fresh = TRUE]
    IN  [r EXCEPT !.ptr = Update(r)]

CopyConstruct(o, s) ==
    /\ obj[o].life = "none" /\ obj[s].life = "live"
    /\ \E b \in Free : obj' = [obj EXCEPT ![o] = Copied(o, s, b)]
    /\ UNCHANGED field

\* finalize() copies the object inside the builder, which may go on building;
\* that of message_ptr_builder hands out the message itself.
Finalize(o, s) ==
    /\ field \notin Message
    /\ obj[o].life = "none" /\ obj[s].life = "builder"
    /\ \E b \in Free :
           obj' = [obj EXCEPT ![o] = [Copied(o, s, b) EXCEPT !.life = "live"]]
    /\ UNCHANGED field

FinalizeMessage(o) ==
    /\ field \in Message
    /\ obj[o].life = "builder"
    /\ obj' = [obj EXCEPT ![o].life = "live"]
    /\ UNCHANGED field

\* A builder of connect_options that starts from finished ones.
BuildFrom(o, s) ==
    /\ field \in Connect
    /\ obj[o].life = "none" /\ obj[s].life = "live"
    /\ \E b \in Free :
           obj' = [obj EXCEPT ![o] = [Copied(o, s, b) EXCEPT !.life = "builder"]]
    /\ UNCHANGED field

CopyAssign(o, s) ==
    /\ o # s /\ obj[o].life \in {"live", "moved"} /\ obj[s].life = "live"
    /\ \E b \in Free : obj' = [obj EXCEPT ![o] = Copied(o, s, b)]
    /\ UNCHANGED field

\* Mutant: the nested options move, the pointers to them do not.
Moved_NestedKept(o, s, b) ==
    LET at == IF field \in Inline THEN o
              ELSE IF field = "payload" /\ obj[s].at = Null THEN b ELSE obj[s].at
        r == [obj[s] EXCEPT !.at = at, !.fresh = TRUE]
    IN  [r EXCEPT !.ptr = Update(r)]

\* Object o after it was constructed by moving s: the member changes hands,
\* pointers to nested options are set if they were, then update_c_struct.
Moved(o, s, b) ==
    LET at == IF field \in Inline THEN o
              ELSE IF field = "payload" /\ obj[s].at = Null THEN b ELSE obj[s].at
        p == IF field \in Nested /\ obj[s].ptr # Null THEN o ELSE obj[s].ptr
        r == [obj[s] EXCEPT !.at = at, !.ptr = p, !.fresh = TRUE]
    IN  [r EXCEPT !.ptr = Update(r)]

\* What a move leaves behind: an empty member under a C struct that still
\* holds the old pointer, except where message and property clear it.
Remains(s, cleared) ==
    [obj[s] EXCEPT !.life = "moved", !.val = 0,
                   !.at = IF field \in Inline THEN s ELSE Null,
                   !.ptr = IF field \in cleared THEN Null ELSE @]

MoveConstruct(o, s) ==
    /\ obj[o].life = "none" /\ obj[s].life = "live"
    /\ \E b \in Free :
           obj' = [obj EXCEPT ![o] = Moved(o, s, b),
                              ![s] = Remains(s, {"messagePayload", "propertyData"})]
    /\ UNCHANGED field

\* Move assignment.  connect_options hands nested options to set_will(&&)
\* and set_ssl(&&), which copy them.
MoveAssign(o, s) ==
    /\ o # s /\ obj[o].life \in {"live", "moved"} /\ obj[s].life = "live"
    /\ \E b \in Free :
           obj' = IF field \in Nested
                  THEN [obj EXCEPT ![o] = Copied(o, s, b), ![s].life = "moved"]
                  ELSE [obj EXCEPT ![o] = Moved(o, s, b),
                                   ![s] = Remains(s, Message \cup Property)]
    /\ UNCHANGED field

\* Assignment of an object to itself: disconnect_options has no test for it
\* and sets its pointers again; the other options and message return at once,
\* and the collections rebuild what they had.
SelfAssign(o) ==
    /\ field \in Disconnect
    /\ obj[o].life = "live"
    /\ obj' = [obj EXCEPT ![o].ptr = UpdateDisconnect(obj[o]), ![o].fresh = TRUE]
    /\ UNCHANGED field

\* Mutant: a destructor that does not free the member.
Destroy_Leaks(o) ==
    /\ obj[o].life # "none"
    /\ obj' = [obj EXCEPT ![o].life = "none"]
    /\ UNCHANGED field

Destroy(o) ==
    /\ obj[o].life # "none"
    /\ obj' = [obj EXCEPT ![o] = NoObject]
    /\ UNCHANGED field

Next ==
    \/ \E o \in Objects : Construct(o) \/ set_mqtt_version(o)
                              \/ SelfAssign(o) \/ FinalizeMessage(o) \/ Destroy(o)
    \/ \E o \in Objects, v \in Values : Set(o, v) \/ Build(o, v) \/ EditProperties(o, v)
    \/ \E o, s \in Objects : \/ CopyConstruct(o, s) \/ CopyAssign(o, s)
                             \/ MoveConstruct(o, s) \/ MoveAssign(o, s)
                             \/ Finalize(o, s) \/ BuildFrom(o, s)

Spec == Init /\ [][Next]_vars

-----------------------------------------------------------------------------
(* Properties *)

\* An object as the client hands it to the C library: it was set, copied or
\* moved into place after the last edit behind the struct's back (connect and
\* disconnect take their options by value).  The connect properties matter to
\* an MQTT v5 connection only.
Ready(o) ==
    /\ obj[o].life \in Usable /\ obj[o].fresh
    /\ field = "connectProperties" => obj[o].v5

\* Every heap array has one owner: no two objects will free the same one.
OneOwner ==
    field \in Heap =>
        \A o, k \in Objects : o # k /\ obj[o].at = obj[k].at => obj[o].at = Null

\* The C struct of an object points at that object's own data or at nothing,
\* whatever copies, moves, assignments and destructions came before: never at
\* the data of the object it was copied from.
OwnData ==
    \A o \in Objects : Ready(o) => obj[o].ptr \in {Null, obj[o].at}

\* The C library reads through the struct what the C++ getters return: "the
\* underlying C structure matches our strings".  Nested options count as set
\* only if the struct points at them.
MatchesMembers ==
    \A o \in Objects : Ready(o) =>
        \/ View(o) = {obj[o].val}
        \/ field \in Nested /\ obj[o].ptr = Null

\* A true copy, not linked to the original: no operation on other objects
\* changes what the C library reads through an object.
Independent ==
    [][\A o \in Objects :
          Ready(o) /\ obj'[o] = obj[o] => View(o)' = View(o)]_vars

\* A copy, a move or finalize() carries over what the C library would have read through
\* its source: nothing set is lost and nothing unset appears on the way.
Faithful ==
    [][\A o, s \in Objects :
          Ready(s) /\ obj'[o] # obj[o]
          /\ \/ CopyConstruct(o, s) \/ CopyAssign(o, s)
             \/ MoveConstruct(o, s) \/ MoveAssign(o, s)
             \/ Finalize(o, s) \/ BuildFrom(o, s)
          => View(o)' = View(s)]_vars
=============================================================================
