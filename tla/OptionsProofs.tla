---------------------------- MODULE OptionsProofs ----------------------------
(***************************************************************************)
(* Proofs about Options, for any number of objects, addresses and          *)
(* contents.  First the types, that arrays have one owner, and that C      *)
(* structs point at their own object's data.  Then, from these: what the C *)
(* library reads through a struct is what the C++ members hold, no         *)
(* operation on another object changes it, and copies and moves carry it   *)
(* over.                                                                   *)
(***************************************************************************)
EXTENDS Options, TLAPS

\* What one object looks like.
Record == [life : {"none", "live", "builder", "moved"}, v5 : BOOLEAN, val : Values,
           at : Address \cup {Null}, ptr : Address \cup {Null}, fresh : BOOLEAN]

\* The class a field belongs to, and its storage, are fixed and disjoint.
LEMMA Storage ==
    ASSUME TypeOK
    PROVE  /\ field \in Shared \cup Inline \cup Heap
           /\ field \in Heap => field \notin Shared \cup Inline
           /\ field \in Nested => field \in Inline \cap Connect
           /\ field \in Connect \cup Ssl \cup Will \cup Response \cup Disconnect
                        \cup Message \cup Collection \cup Property
BY OptionsAssumption DEF TypeOK, Shared, Inline, Heap, Nested, Connect, Ssl,
    Will, Response, Disconnect, Message, Collection, Property

\* The inductive invariant: a struct is right unless the object was edited
\* behind its back, which only two classes allow, or holds the properties of
\* a connection that is not MQTT v5.
Sound(r) ==
    r.life \in Usable =>
        /\ field \notin Editable => r.fresh
        /\ r.fresh /\ (field = "connectProperties" => r.v5) => r.ptr \in {Null, r.at}

Inv ==
    /\ TypeOK
    /\ OneOwner
    /\ \A o \in Objects : Sound(obj[o])

\* update_c_struct leaves a pointer to the object's own member or nullptr,
\* provided the pointers it does not set were already right.
LEMMA UpdateOwn ==
    ASSUME TypeOK, "httpHeaders" \notin Fields, NEW r \in Record,
           field \in {"token", "responseToken", "will", "ssl"} => r.ptr \in {Null, r.at}
    PROVE  /\ Update(r) \in Address \cup {Null}
           /\ (field = "connectProperties" => r.v5) => Update(r) \in {Null, r.at}
<1>1. CASE field \in Connect
  <2>1. Update(r) = UpdateConnect(r)
    BY <1>1 DEF Update, Connect, Ssl, Will, Response, Disconnect, Message, Collection,
        Property
  <2>2. QED
    BY <1>1, <2>1, SMT DEF UpdateConnect, c_str, Connect, Record, TypeOK
<1>2. CASE field \in Response
  <2>1. Update(r) = UpdateResponse(r)
    BY <1>2 DEF Update, Connect, Ssl, Will, Response, Disconnect, Message, Collection,
        Property
  <2>2. QED
    BY <2>1, SMT DEF UpdateResponse, c_str, Record
<1>3. CASE field \in Will
  <2>1. Update(r) = r.at
    BY <1>3 DEF Update, UpdateWill, Connect, Ssl, Will, Response, Disconnect,
        Message, Collection, Property
  <2>2. QED
    BY <2>1, SMT DEF Record
<1>4. CASE field \in Ssl \cup Disconnect \cup Message \cup Collection \cup Property
  <2>1. Update(r) = c_str(r)
    BY <1>4 DEF Update, UpdateSsl, UpdateDisconnect, UpdateMessage, update_c_arr,
        UpdateProperty, Connect, Ssl, Will, Response, Disconnect, Message, Collection, Property
  <2>2. QED
    BY <2>1, SMT DEF c_str, Record
<1>5. QED
    BY <1>1, <1>2, <1>3, <1>4, Storage

\* So does every setter.
LEMMA SetPointerOwn ==
    ASSUME NEW r \in Record
    PROVE  SetPointer(r) \in {Null, r.at}
<1>1. SetConnect(r) \in {Null, r.at} /\ c_str(r) \in {Null, r.at}
    BY DEF SetConnect, c_str
<1>2. QED
    BY <1>1 DEF SetPointer, SetSsl, UpdateWill

LEMMA PlacedType ==
    ASSUME NEW o \in Objects, NEW v, NEW b \in Free
    PROVE  /\ Placed(o, v, b) \in Address \cup {Null}
           /\ field \in Heap /\ field \notin Inline => Placed(o, v, b) \in {b, Null}
           /\ field \in Inline => Placed(o, v, b) = o
BY DEF Placed, Free, Address

\* An object that was copied into place is sound, and an array it keeps is new.
LEMMA CopiedSound ==
    ASSUME Inv, "httpHeaders" \notin Fields,
           NEW o \in Objects, NEW s \in Objects, NEW b \in Free,
           obj[s].life \in Usable
    PROVE  /\ Copied(o, s, b) \in Record
           /\ Copied(o, s, b).life = obj[s].life
           /\ Sound(Copied(o, s, b))
           /\ field \in Heap => Copied(o, s, b).at \in {b, Null}
<1> DEFINE unset == field \in Nested /\ obj[s].ptr = Null
           v == IF unset THEN obj[o].val ELSE obj[s].val
           at == IF field \in Shared /\ obj[s].at # Null THEN obj[s].at
                 ELSE Placed(o, v, b)
           p == IF field \in Nested /\ ~unset THEN o ELSE obj[s].ptr
           r == [obj[s] EXCEPT !.val = v, !.at = at, !.ptr = p, !.fresh = TRUE]
<1>1. obj[s] \in Record /\ obj[o] \in Record /\ TypeOK /\ Sound(obj[s])
    BY DEF Inv, TypeOK, Record
<1>2. v \in Values
    BY <1>1 DEF Record
<1>3. at \in Address \cup {Null}
    BY <1>1, PlacedType DEF Record
<1>4. p \in Address \cup {Null}
    BY <1>1 DEF Record, Address
<1>5. /\ r \in Record /\ r.life = obj[s].life /\ r.at = at /\ r.ptr = p /\ r.fresh
      /\ r.v5 = obj[s].v5
  <2> HIDE DEF v, at, p
  <2>1. QED
    BY <1>1, <1>2, <1>3, <1>4 DEF Record
<1>6. field \in {"will", "ssl"} => p \in {Null, at}
    BY <1>1, Storage, PlacedType DEF Nested, Inline, Shared
<1>7. field \in {"token", "responseToken"} => p \in {Null, at}
  <2>1. field \in {"token", "responseToken"} =>
            obj[s].ptr \in {Null, obj[s].at} /\ p = obj[s].ptr
    BY <1>1 DEF Sound, Editable, Nested
  <2>2. QED
    BY <2>1 DEF Shared
<1>8. /\ Update(r) \in Address \cup {Null}
      /\ (field = "connectProperties" => r.v5) => Update(r) \in {Null, r.at}
  <2> HIDE DEF v, at, p, r
  <2>1. field \in {"token", "responseToken", "will", "ssl"} => r.ptr \in {Null, r.at}
    BY <1>5, <1>6, <1>7
  <2>2. QED
    BY <1>1, <1>5, <2>1, UpdateOwn
<1>9. field \in Heap => at \in {b, Null}
    BY <1>1, Storage, PlacedType
<1>10. Copied(o, s, b) = [r EXCEPT !.ptr = Update(r)]
    BY DEF Copied
<1>11. QED
  <2> HIDE DEF v, at, p, r
  <2>1. QED
    BY <1>5, <1>8, <1>9, <1>10 DEF Record, Sound

\* An object that was moved into place is sound, and took over the source's
\* array.
LEMMA MovedSound ==
    ASSUME Inv, "httpHeaders" \notin Fields,
           NEW o \in Objects, NEW s \in Objects, NEW b \in Free,
           obj[s].life = "live"
    PROVE  /\ Moved(o, s, b) \in Record
           /\ Moved(o, s, b).life = "live"
           /\ Sound(Moved(o, s, b))
           /\ field \in Heap => Moved(o, s, b).at = obj[s].at
<1> DEFINE at == IF field \in Inline THEN o
                 ELSE IF field = "payload" /\ obj[s].at = Null THEN b ELSE obj[s].at
           p == IF field \in Nested /\ obj[s].ptr # Null THEN o ELSE obj[s].ptr
           r == [obj[s] EXCEPT !.at = at, !.ptr = p, !.fresh = TRUE]
<1>1. obj[s] \in Record /\ TypeOK /\ Sound(obj[s])
    BY DEF Inv, TypeOK, Record
<1>2. at \in Address \cup {Null} /\ p \in Address \cup {Null}
    BY <1>1 DEF Record, Address, Free
<1>3. r \in Record /\ r.life = "live" /\ r.at = at /\ r.ptr = p /\ r.fresh
  <2> HIDE DEF at, p
  <2>1. QED
    BY <1>1, <1>2 DEF Record
<1>4. field \in {"will", "ssl"} => p \in {Null, at}
    BY DEF Nested, Inline
<1>5. field \in {"token", "responseToken"} => p \in {Null, at}
  <2>1. field \in {"token", "responseToken"} => obj[s].ptr \in {Null, obj[s].at}
    BY <1>1 DEF Sound, Editable, Usable
  <2>2. QED
    BY <2>1 DEF Nested, Inline
<1>6. /\ Update(r) \in Address \cup {Null}
      /\ (field = "connectProperties" => r.v5) => Update(r) \in {Null, r.at}
  <2> HIDE DEF at, p, r
  <2>1. field \in {"token", "responseToken", "will", "ssl"} => r.ptr \in {Null, r.at}
    BY <1>3, <1>4, <1>5
  <2>2. QED
    BY <1>1, <1>3, <2>1, UpdateOwn
<1>7. field \in Heap => at = obj[s].at
    BY <1>1, Storage DEF Heap
<1>8. Moved(o, s, b) = [r EXCEPT !.ptr = Update(r)]
    BY DEF Moved
<1>9. QED
  <2> HIDE DEF at, p, r
  <2>1. QED
    BY <1>3, <1>6, <1>7, <1>8 DEF Record, Sound

\* A step that puts one sound object in place keeps the invariant, if the
\* array it keeps is nobody else's.
LEMMA PutOne ==
    ASSUME Inv, NEW o \in Objects, NEW r \in Record,
           obj' = [obj EXCEPT ![o] = r], field' = field,
           r.life = "none" => r = NoObject,
           Sound(r),
           field \in Heap => \A k \in Objects \ {o} :
                                 r.at = obj[k].at => r.at = Null
    PROVE  Inv'
<1>1. obj \in [Objects -> Record] /\ obj' \in [Objects -> Record]
    BY DEF Inv, TypeOK, Record
<1>2. obj'[o] = r /\ \A k \in Objects \ {o} : obj'[k] = obj[k]
    BY <1>1
<1>3. TypeOK'
    BY <1>1, <1>2 DEF Inv, TypeOK, Record
<1>4. OneOwner'
    BY <1>2 DEF Inv, OneOwner
<1>5. \A k \in Objects : Sound(obj[k])'
    BY <1>2 DEF Inv, Sound
<1>6. QED
    BY <1>3, <1>4, <1>5 DEF Inv

\* A step that moves s into o keeps it, if what remains of s keeps no array.
LEMMA PutTwo ==
    ASSUME Inv, NEW o \in Objects, NEW s \in Objects, o # s,
           NEW r \in Record, NEW q \in Record,
           obj' = [obj EXCEPT ![o] = r, ![s] = q], field' = field,
           r.life = "live", q.life = "moved", Sound(r),
           field \in Heap => r.at = obj[s].at /\ q.at = Null
    PROVE  Inv'
<1>1. obj \in [Objects -> Record] /\ obj' \in [Objects -> Record]
    BY DEF Inv, TypeOK, Record
<1>2. /\ obj'[o] = r /\ obj'[s] = q
      /\ \A k \in Objects \ {o, s} : obj'[k] = obj[k]
    BY <1>1
<1>3. TypeOK'
    BY <1>1, <1>2 DEF Inv, TypeOK, Record
<1>4. OneOwner'
  <2>1. SUFFICES ASSUME field \in Heap, NEW x \in Objects, NEW y \in Objects,
                        x # y, obj'[x].at = obj'[y].at, obj'[x].at # Null
                 PROVE  FALSE
    BY DEF OneOwner
  <2>2. x # s /\ y # s
    BY <1>2, <2>1
  <2>3. CASE x = o
    <3>1. y \in Objects \ {o, s} /\ obj[y].at = obj[s].at /\ obj[s].at # Null
      BY <1>2, <2>1, <2>2, <2>3
    <3>2. QED
      BY <2>1, <3>1 DEF Inv, OneOwner
  <2>4. CASE y = o
    <3>1. x \in Objects \ {o, s} /\ obj[x].at = obj[s].at /\ obj[s].at # Null
      BY <1>2, <2>1, <2>2, <2>4
    <3>2. QED
      BY <2>1, <3>1 DEF Inv, OneOwner
  <2>5. CASE x # o /\ y # o
    BY <1>2, <2>1, <2>2, <2>5 DEF Inv, OneOwner
  <2>6. QED
    BY <2>3, <2>4, <2>5
<1>5. \A k \in Objects : Sound(obj[k])'
  <2>1. Sound(obj[o])'
    BY <1>2 DEF Sound
  <2>2. Sound(obj[s])'
    BY <1>2 DEF Sound, Usable
  <2>3. ASSUME NEW k \in Objects \ {o, s} PROVE Sound(obj[k])'
    BY <1>2 DEF Inv, Sound
  <2>4. QED
    BY <2>1, <2>2, <2>3
<1>6. QED
    BY <1>3, <1>4, <1>5 DEF Inv

\* Every operation keeps the invariant.
LEMMA InvStep ==
    ASSUME Inv, "httpHeaders" \notin Fields, [Next]_vars
    PROVE  Inv'
<1>1. CASE UNCHANGED vars
    BY <1>1 DEF Inv, TypeOK, OneOwner, Sound, vars
<1>2. ASSUME NEW o \in Objects, Construct(o) PROVE Inv'
  <2>1. PICK v5 \in BOOLEAN, life \in Usable, b \in Free :
          LET at == IF field = "payload" THEN Null ELSE Placed(o, 0, b)
          IN  obj' = [obj EXCEPT ![o] =
                 [NoObject EXCEPT !.life = life, !.v5 = v5, !.at = at,
                      !.ptr = IF field = "topic" THEN at ELSE Null]]
    BY <1>2 DEF Construct
  <2> DEFINE at == IF field = "payload" THEN Null ELSE Placed(o, 0, b)
             r == [NoObject EXCEPT !.life = life, !.v5 = v5, !.at = at,
                       !.ptr = IF field = "topic" THEN at ELSE Null]
  <2>2. at \in Address \cup {Null} /\ (field \in Heap => at \in {b, Null})
    BY PlacedType, Storage DEF Inv
  <2>3. r \in Record /\ r.life = life /\ r.at = at /\ r.fresh /\ r.ptr \in {Null, r.at}
    <3> HIDE DEF at
    <3>1. QED
      BY <2>2, OptionsAssumption DEF NoObject, Record, Usable
  <2>4. Sound(r)
    <3> HIDE DEF r, at
    <3>1. QED
      BY <2>3 DEF Sound
  <2>5. obj' = [obj EXCEPT ![o] = r] /\ field' = field
    BY <1>2, <2>1 DEF Construct
  <2>6. \A k \in Objects : obj[k].at # b
    BY DEF Free
  <2>7. QED
    <3> HIDE DEF r, at
    <3>1. QED
      BY <2>2, <2>3, <2>4, <2>5, <2>6, PutOne DEF Usable
<1>3. ASSUME NEW o \in Objects, NEW v \in Values, Set(o, v) \/ Build(o, v) PROVE Inv'
  <2>1. PICK b \in Free, life \in Usable : obj' = [obj EXCEPT ![o] = Assigned(o, v, b, life)]
    BY <1>3 DEF Set, Build, Usable
  <2> DEFINE at == Placed(o, v, b)
             v5 == obj[o].v5 \/ field = "connectProperties"
             r == [obj[o] EXCEPT !.life = life, !.val = v, !.at = at, !.v5 = v5]
             q == [r EXCEPT !.ptr = SetPointer(r), !.fresh = TRUE]
  <2>2. at \in Address \cup {Null} /\ (field \in Heap => at \in {b, Null})
    BY PlacedType, Storage DEF Inv
  <2>3. obj[o] \in Record
    BY DEF Inv, TypeOK, Record
  <2>4. r \in Record /\ r.life = life /\ r.at = at
    <3>1. v5 \in BOOLEAN
      BY <2>3 DEF Record
    <3> HIDE DEF at, v5
    <3>2. QED
      BY <2>2, <2>3, <3>1 DEF Record, Usable
  <2>5. q \in Record /\ q.life = life /\ q.at = at /\ q.fresh /\ q.ptr \in {Null, q.at}
    <3> HIDE DEF r, at
    <3>1. SetPointer(r) \in {Null, r.at}
      BY <2>4, SetPointerOwn
    <3>2. QED
      BY <2>2, <2>4, <3>1 DEF Record
  <2>6. Sound(q)
    <3> HIDE DEF q, at
    <3>1. QED
      BY <2>5 DEF Sound
  <2>7. obj' = [obj EXCEPT ![o] = q] /\ field' = field
    BY <1>3, <2>1 DEF Set, Build, Assigned
  <2>8. \A k \in Objects : obj[k].at # b
    BY DEF Free
  <2>9. QED
    <3> HIDE DEF q, at
    <3>1. QED
      BY <2>2, <2>5, <2>6, <2>7, <2>8, PutOne DEF Usable
<1>4. ASSUME NEW o \in Objects, set_mqtt_version(o) PROVE Inv'
  <2> DEFINE r == [obj[o] EXCEPT !.v5 = ~obj[o].v5, !.fresh = FALSE]
  <2>1. obj[o] \in Record /\ obj[o].life \in Usable /\ field = "connectProperties"
    BY <1>4 DEF Inv, TypeOK, Record, set_mqtt_version
  <2>2. r \in Record /\ r.life \in Usable /\ r.fresh = FALSE
    BY <2>1 DEF Record
  <2>3. obj' = [obj EXCEPT ![o] = r] /\ field' = field
    BY <1>4, <2>1 DEF set_mqtt_version, Inv, TypeOK
  <2>4. Sound(r)
    <3> HIDE DEF r
    <3>1. QED
      BY <2>1, <2>2 DEF Sound, Editable
  <2>5. QED
    <3> HIDE DEF r
    <3>1. field \notin Heap
      BY <2>1 DEF Heap
    <3>2. QED
      BY <2>2, <2>3, <2>4, <3>1, PutOne DEF Usable
<1>5. ASSUME NEW o \in Objects, NEW v \in Values, EditProperties(o, v) PROVE Inv'
  <2>1. PICK b \in Free :
          obj' = [obj EXCEPT ![o].val = v, ![o].at = Placed(o, v, b), ![o].fresh = FALSE]
    BY <1>5 DEF EditProperties
  <2> DEFINE at == Placed(o, v, b)
             r == [obj[o] EXCEPT !.val = v, !.at = at, !.fresh = FALSE]
  <2>2. at \in Address \cup {Null} /\ (field \in Heap => at \in {b, Null})
    BY PlacedType, Storage DEF Inv
  <2>3. obj[o] \in Record /\ obj[o].life = "live" /\ field \in Editable
    BY <1>5 DEF Inv, TypeOK, Record, EditProperties
  <2>4. r \in Record /\ r.life = "live" /\ r.at = at /\ r.fresh = FALSE
    <3> HIDE DEF at
    <3>1. QED
      BY <2>2, <2>3 DEF Record
  <2>5. obj' = [obj EXCEPT ![o] = r] /\ field' = field
    BY <1>5, <2>1, <2>3 DEF EditProperties, Inv, TypeOK
  <2>6. Sound(r)
    <3> HIDE DEF r
    <3>1. QED
      BY <2>3, <2>4 DEF Sound
  <2>7. \A k \in Objects : obj[k].at # b
    BY DEF Free
  <2>8. QED
    <3> HIDE DEF r, at
    <3>1. QED
      BY <2>2, <2>4, <2>5, <2>6, <2>7, PutOne
<1>6. ASSUME NEW o \in Objects, NEW s \in Objects,
             \/ CopyConstruct(o, s) \/ CopyAssign(o, s)
             \/ Finalize(o, s) \/ BuildFrom(o, s)
      PROVE  Inv'
  <2>1. obj[s].life \in Usable /\ field' = field
    BY <1>6 DEF CopyConstruct, CopyAssign, Finalize, BuildFrom, Usable
  <2>2. ASSUME NEW b \in Free
        PROVE  /\ Copied(o, s, b) \in Record
               /\ Copied(o, s, b).life = obj[s].life
               /\ Sound(Copied(o, s, b))
               /\ field \in Heap => Copied(o, s, b).at \in {b, Null}
    BY <2>1, CopiedSound
  <2>3. PICK b \in Free, life \in Usable :
          obj' = [obj EXCEPT ![o] = [Copied(o, s, b) EXCEPT !.life = life]]
    <3>1. CASE CopyConstruct(o, s) \/ CopyAssign(o, s)
      <4>1. PICK b \in Free : obj' = [obj EXCEPT ![o] = Copied(o, s, b)]
        BY <3>1 DEF CopyConstruct, CopyAssign
      <4> DEFINE c == Copied(o, s, b)
      <4>2. c \in Record /\ c.life = obj[s].life
        BY <2>2
      <4>3. c = [c EXCEPT !.life = obj[s].life]
        <5> HIDE DEF c
        <5>1. QED
          BY <4>2 DEF Record
      <4>4. QED
        BY <2>1, <4>1, <4>3
    <3>2. CASE Finalize(o, s) \/ BuildFrom(o, s)
      BY <3>2 DEF Finalize, BuildFrom, Usable
    <3>3. QED
      BY <1>6, <3>1, <3>2
  <2> DEFINE c == Copied(o, s, b)
             r == [c EXCEPT !.life = life]
  <2>4. c \in Record /\ c.life \in Usable /\ Sound(c) /\ (field \in Heap => c.at \in {b, Null})
    BY <2>1, <2>2
  <2>5. /\ r \in Record /\ r.life = life /\ Sound(r)
        /\ field \in Heap => r.at \in {b, Null}
    <3> HIDE DEF c
    <3>1. /\ r \in Record /\ r.life = life /\ r.at = c.at /\ r.ptr = c.ptr
          /\ r.fresh = c.fresh /\ r.v5 = c.v5
      BY <2>4 DEF Record, Usable
    <3> HIDE DEF r
    <3>2. QED
      BY <2>4, <3>1 DEF Sound
  <2>6. \A k \in Objects : obj[k].at # b
    BY DEF Free
  <2>7. obj' = [obj EXCEPT ![o] = r]
    BY <2>3
  <2>8. r.life # "none"
    BY <2>5 DEF Usable
  <2>9. QED
    <3> HIDE DEF r
    <3>1. QED
      BY <2>1, <2>5, <2>6, <2>7, <2>8, PutOne
<1>7. ASSUME NEW s \in Objects, NEW cleared
      PROVE  /\ Remains(s, cleared) \in Record
             /\ Remains(s, cleared).life = "moved"
             /\ field \in Heap => Remains(s, cleared).at = Null
  <2> DEFINE at == IF field \in Inline THEN s ELSE Null
             p == IF field \in cleared THEN Null ELSE obj[s].ptr
  <2>1. obj[s] \in Record
    BY DEF Inv, TypeOK, Record
  <2>2. /\ at \in Address \cup {Null} /\ p \in Address \cup {Null}
        /\ field \in Heap => at = Null
    BY <2>1, Storage DEF Address, Record, Inv
  <2>3. Remains(s, cleared) =
          [obj[s] EXCEPT !.life = "moved", !.val = 0, !.at = at, !.ptr = p]
    BY DEF Remains
  <2>4. QED
    <3> HIDE DEF at, p
    <3>1. QED
      BY <2>1, <2>2, <2>3, OptionsAssumption DEF Record
<1>8. ASSUME NEW o \in Objects, NEW s \in Objects, NEW b \in Free, NEW cleared,
             o # s, obj[s].life = "live", field' = field,
             obj' = [obj EXCEPT ![o] = Moved(o, s, b), ![s] = Remains(s, cleared)]
      PROVE  Inv'
  <2>1. /\ Moved(o, s, b) \in Record
        /\ Moved(o, s, b).life = "live"
        /\ Sound(Moved(o, s, b))
        /\ field \in Heap => Moved(o, s, b).at = obj[s].at
    BY <1>8, MovedSound
  <2>2. QED
    BY <1>7, <1>8, <2>1, PutTwo
<1>9. ASSUME NEW o \in Objects, NEW s \in Objects, MoveConstruct(o, s) PROVE Inv'
  <2>1. o # s /\ obj[s].life = "live" /\ field' = field
    BY <1>9 DEF MoveConstruct
  <2>2. PICK b \in Free :
          obj' = [obj EXCEPT ![o] = Moved(o, s, b),
                             ![s] = Remains(s, {"messagePayload", "propertyData"})]
    BY <1>9 DEF MoveConstruct
  <2> DEFINE cleared == {"messagePayload", "propertyData"}
  <2>3. obj' = [obj EXCEPT ![o] = Moved(o, s, b), ![s] = Remains(s, cleared)]
    BY <2>2
  <2>4. QED
    <3> HIDE DEF cleared
    <3>1. QED
      BY <1>8, <2>1, <2>3
<1>10. ASSUME NEW o \in Objects, NEW s \in Objects, MoveAssign(o, s) PROVE Inv'
  <2>1. o # s /\ obj[s].life = "live" /\ field' = field
    BY <1>10 DEF MoveAssign
  <2>2. CASE field \notin Nested
    BY <1>8, <1>10, <2>1, <2>2 DEF MoveAssign
  <2>3. CASE field \in Nested
    <3>1. PICK b \in Free :
            obj' = [obj EXCEPT ![o] = Copied(o, s, b), ![s].life = "moved"]
      BY <1>10, <2>3 DEF MoveAssign
    <3> DEFINE q == [obj[s] EXCEPT !.life = "moved"]
    <3>2. obj[s] \in Record /\ obj \in [Objects -> Record]
      BY DEF Inv, TypeOK, Record
    <3>3. q \in Record /\ q.life = "moved"
      BY <3>2 DEF Record
    <3>4. obj' = [obj EXCEPT ![o] = Copied(o, s, b), ![s] = q]
      BY <2>1, <3>1, <3>2
    <3>5. /\ Copied(o, s, b) \in Record
          /\ Copied(o, s, b).life = "live"
          /\ Sound(Copied(o, s, b))
      BY <2>1, CopiedSound DEF Usable
    <3>6. field \notin Heap
      BY <2>3, Storage DEF Inv
    <3>7. QED
      <4> HIDE DEF q
      <4>1. QED
        BY <2>1, <3>3, <3>4, <3>5, <3>6, PutTwo
  <2>4. QED
    BY <2>2, <2>3
<1>11. ASSUME NEW o \in Objects, SelfAssign(o) PROVE Inv'
  <2> DEFINE p == UpdateDisconnect(obj[o])
             r == [obj[o] EXCEPT !.ptr = p, !.fresh = TRUE]
  <2>1. obj[o] \in Record /\ obj[o].life = "live" /\ OneOwner
    BY <1>11 DEF Inv, TypeOK, Record, SelfAssign
  <2>2. p \in {Null, obj[o].at} /\ p \in Address \cup {Null}
    BY <2>1 DEF UpdateDisconnect, c_str, Record
  <2>3. /\ r \in Record /\ r.life = "live" /\ r.fresh
        /\ r.at = obj[o].at /\ r.ptr \in {Null, r.at}
    <3> HIDE DEF p
    <3>1. QED
      BY <2>1, <2>2 DEF Record
  <2>4. obj' = [obj EXCEPT ![o] = r] /\ field' = field
    BY <1>11, <2>1 DEF SelfAssign, Inv, TypeOK
  <2>5. Sound(r)
    <3> HIDE DEF r
    <3>1. QED
      BY <2>3 DEF Sound
  <2>6. QED
    <3> HIDE DEF r
    <3>1. QED
      BY <2>1, <2>3, <2>4, <2>5, PutOne DEF OneOwner
<1>12. ASSUME NEW o \in Objects, Destroy(o) PROVE Inv'
  <2>1. /\ NoObject \in Record /\ NoObject.life = "none" /\ NoObject.at = Null
        /\ Sound(NoObject)
    BY OptionsAssumption DEF NoObject, Record, Sound
  <2>2. obj' = [obj EXCEPT ![o] = NoObject] /\ field' = field
    BY <1>12 DEF Destroy
  <2>3. QED
    BY <2>1, <2>2, PutOne
<1>13. ASSUME NEW o \in Objects, FinalizeMessage(o) PROVE Inv'
  <2> DEFINE r == [obj[o] EXCEPT !.life = "live"]
  <2>1. obj[o] \in Record /\ obj[o].life \in Usable /\ Sound(obj[o]) /\ OneOwner
    BY <1>13 DEF Inv, TypeOK, Record, FinalizeMessage, Usable
  <2>2. /\ r \in Record /\ r.life = "live" /\ r.at = obj[o].at
        /\ r.ptr = obj[o].ptr /\ r.fresh = obj[o].fresh /\ r.v5 = obj[o].v5
    BY <2>1 DEF Record
  <2>3. obj' = [obj EXCEPT ![o] = r] /\ field' = field
    BY <1>13, <2>1 DEF FinalizeMessage, Inv, TypeOK
  <2>4. Sound(r)
    <3> HIDE DEF r
    <3>1. QED
      BY <2>1, <2>2 DEF Sound
  <2>5. QED
    <3> HIDE DEF r
    <3>1. QED
      BY <2>1, <2>2, <2>3, <2>4, PutOne DEF OneOwner
<1>14. QED
    BY <1>1, <1>2, <1>3, <1>4, <1>5, <1>6, <1>9, <1>10, <1>11, <1>12, <1>13 DEF Next

LEMMA InvInit == Init => Inv
<1>1. NoObject \in Record /\ NoObject.at = Null /\ NoObject.life = "none"
    BY OptionsAssumption DEF NoObject, Record
<1>2. QED
    BY <1>1 DEF Init, Inv, TypeOK, OneOwner, Sound, Usable, Record

\* For any number of objects of an options, message or collection class: types
\* are kept and storage whose object was destroyed keeps nothing.
THEOREM OptionsTypes ==
    ASSUME "httpHeaders" \notin Fields
    PROVE  Spec => []TypeOK
<1>1. Inv => TypeOK
    BY DEF Inv
<1>2. QED
    BY <1>1, InvInit, InvStep, PTL DEF Spec

\* No sequence of copies, moves, assignments and destructions makes two
\* objects the owners of one heap array.
THEOREM ArraysHaveOneOwner ==
    ASSUME "httpHeaders" \notin Fields
    PROVE  Spec => []OneOwner
<1>1. Inv => OneOwner
    BY DEF Inv
<1>2. QED
    BY <1>1, InvInit, InvStep, PTL DEF Spec

\* Apart from the HTTP headers, the C struct of an object that was set, copied
\* or moved into place never points at another object's data.
THEOREM StructsPointAtOwnData ==
    ASSUME "httpHeaders" \notin Fields
    PROVE  Spec => []OwnData
<1>1. Inv => OwnData
    BY DEF Inv, OwnData, Ready, Sound
<1>2. QED
    BY <1>1, InvInit, InvStep, PTL DEF Spec

-----------------------------------------------------------------------------
(* What the structs hold.                                                  *)

\* A member without data is empty.
Full(r) == r.life # "none" /\ r.at = Null => r.val = 0

\* A struct without a pointer stands for an empty member, or for nested
\* options that were never set.
Exact(r) ==
    /\ r.life \in Usable /\ r.fresh
    /\ field = "connectProperties" => r.v5
    /\ r.ptr = Null
    => r.val = 0 \/ field \in Nested

\* A member that lies inside an object lies inside its own.
Own(o, r) == field \in Inline /\ r.life # "none" => r.at = o

\* Members that share an address share their content.
Alike ==
    \A o, k \in Objects :
        /\ obj[o].life # "none" /\ obj[k].life # "none"
        /\ obj[o].at = obj[k].at /\ obj[o].at # Null
        => obj[o].val = obj[k].val

DataInv ==
    /\ Inv
    /\ Alike
    /\ \A o \in Objects : Full(obj[o]) /\ Exact(obj[o]) /\ Own(o, obj[o])

-----------------------------------------------------------------------------
(* What puts an object in place.                                           *)

\* An object that may be put in place at o: where it keeps its data is its own
\* or new, or is that of an object with the same content.
Fits(o, r) ==
    /\ Full(r) /\ Exact(r) /\ Own(o, r)
    /\ r.life # "none" /\ r.at # Null =>
          \/ field \in Inline
          \/ r.at \in Free
          \/ \E s \in Objects : /\ obj[s].life # "none"
                                /\ r.at = obj[s].at /\ r.val = obj[s].val

\* It agrees with every other object that keeps its data at the same address.
LEMMA FitsAlike ==
    ASSUME DataInv, NEW o \in Objects, NEW r \in Record, Fits(o, r),
           NEW k \in Objects, k # o, obj[k].life # "none",
           r.life # "none", r.at = obj[k].at, r.at # Null
    PROVE  r.val = obj[k].val
<1>1. CASE field \in Inline
    BY <1>1 DEF DataInv, Fits, Own
<1>2. CASE r.at \in Free
    BY <1>2 DEF Free
<1>3. CASE \E s \in Objects : /\ obj[s].life # "none"
                              /\ r.at = obj[s].at /\ r.val = obj[s].val
    BY <1>3 DEF DataInv, Alike
<1>4. QED
    BY <1>1, <1>2, <1>3 DEF Fits

\* A step that puts one fitting object in place keeps the invariant.
LEMMA KeepOne ==
    ASSUME DataInv, Inv', NEW o \in Objects, NEW r \in Record, Fits(o, r),
           obj' = [obj EXCEPT ![o] = r], field' = field
    PROVE  DataInv'
<1>1. obj'[o] = r /\ \A k \in Objects \ {o} : obj'[k] = obj[k]
    BY DEF DataInv, Inv, TypeOK
<1>2. Alike'
  <2>1. SUFFICES ASSUME NEW x \in Objects, NEW y \in Objects,
                        obj'[x].life # "none", obj'[y].life # "none",
                        obj'[x].at = obj'[y].at, obj'[x].at # Null
                 PROVE  obj'[x].val = obj'[y].val
    BY DEF Alike
  <2>2. CASE x = y
    BY <2>2
  <2>3. CASE x = o /\ y # o
    BY <1>1, <2>1, <2>3, FitsAlike
  <2>4. CASE x # o /\ y = o
    BY <1>1, <2>1, <2>4, FitsAlike
  <2>5. CASE x # o /\ y # o
    BY <1>1, <2>1, <2>5 DEF DataInv, Alike
  <2>6. QED
    BY <2>2, <2>3, <2>4, <2>5
<1>3. Full(r) /\ Exact(r) /\ Own(o, r)
    BY DEF Fits
<1>4. \A k \in Objects : (Full(obj[k]) /\ Own(k, obj[k]))'
    BY <1>1, <1>3 DEF DataInv, Full, Own
<1>5. \A k \in Objects : Exact(obj[k])'
    BY <1>1, <1>3 DEF DataInv, Exact
<1>6. QED
    BY <1>2, <1>4, <1>5 DEF DataInv

\* So does one that moves s into o, if what remains of s keeps no data, or
\* keeps it inside s.
LEMMA KeepTwo ==
    ASSUME DataInv, Inv', NEW o \in Objects, NEW s \in Objects, o # s,
           NEW r \in Record, NEW q \in Record, Fits(o, r),
           obj' = [obj EXCEPT ![o] = r, ![s] = q], field' = field,
           q.life = "moved", Full(q), Own(s, q), field \in Inline \/ q.at = Null
    PROVE  DataInv'
<1>1. /\ obj'[o] = r /\ obj'[s] = q
      /\ \A k \in Objects \ {o, s} : obj'[k] = obj[k]
    BY DEF DataInv, Inv, TypeOK
<1>2. Full(r) /\ Exact(r) /\ Own(o, r)
    BY DEF Fits
<1>3. \A k \in Objects : (Full(obj[k]) /\ Own(k, obj[k]))'
    BY <1>1, <1>2 DEF DataInv, Full, Own
<1>4. \A k \in Objects : Exact(obj[k])'
    BY <1>1, <1>2 DEF DataInv, Exact, Usable
<1>5. Alike'
  <2>1. SUFFICES ASSUME NEW x \in Objects, NEW y \in Objects,
                        obj'[x].life # "none", obj'[y].life # "none",
                        obj'[x].at = obj'[y].at, obj'[x].at # Null
                 PROVE  obj'[x].val = obj'[y].val
    BY DEF Alike
  <2>2. CASE x = y
    BY <2>2
  <2>3. CASE field \in Inline
    BY <1>3, <2>1, <2>3 DEF Own
  <2>4. CASE field \notin Inline /\ x # y
    <3>1. x # s /\ y # s
      BY <1>1, <2>1, <2>4
    <3>2. CASE x = o
      <4>1. obj'[x] = r /\ obj'[y] = obj[y] /\ y # o
        BY <1>1, <2>4, <3>1, <3>2
      <4>2. QED
        BY <2>1, <4>1, FitsAlike
    <3>3. CASE y = o
      <4>1. obj'[y] = r /\ obj'[x] = obj[x] /\ x # o
        BY <1>1, <2>4, <3>1, <3>3
      <4>2. QED
        BY <2>1, <4>1, FitsAlike
    <3>4. CASE x # o /\ y # o
      <4>1. obj'[x] = obj[x] /\ obj'[y] = obj[y]
        BY <1>1, <3>1, <3>4
      <4>2. QED
        BY <2>1, <4>1 DEF DataInv, Alike
    <3>5. QED
      BY <3>2, <3>3, <3>4
  <2>5. QED
    BY <2>2, <2>3, <2>4
<1>6. QED
    BY <1>3, <1>4, <1>5 DEF DataInv

-----------------------------------------------------------------------------
(* Setters, copies and moves.                                              *)

\* update_c_struct leaves nullptr for empty members only, provided the
\* pointers it does not set, or tests, were already right; and it leaves
\* pointers to nested options as they are.
LEMMA UpdateExact ==
    ASSUME TypeOK, "httpHeaders" \notin Fields, NEW r \in Record,
           r.at = Null => r.val = 0,
           field = "connectProperties" => r.at # Null,
           field \in {"token", "responseToken", "subscribeOptionsList"}
               /\ r.ptr = Null => r.val = 0
    PROVE  /\ (field = "connectProperties" => r.v5) /\ Update(r) = Null
                  => r.val = 0 \/ field \in Nested
           /\ field \in Nested => Update(r) = r.ptr
<1>1. CASE field \in Connect
  <2>1. Update(r) = UpdateConnect(r)
    BY <1>1 DEF Update, Connect, Ssl, Will, Response, Disconnect, Message, Collection,
        Property
  <2>2. CASE field \in Nested
    BY <2>1, <2>2 DEF UpdateConnect, Nested
  <2>3. CASE field \in {"userName", "password", "serverURIs", "httpProxy"}
    BY <2>1, <2>3 DEF UpdateConnect, c_str, Nested
  <2>4. CASE field \in {"connectProperties", "token"}
    BY <2>1, <2>4 DEF UpdateConnect, Nested
  <2>5. field # "httpHeaders"
    BY DEF TypeOK
  <2>6. QED
    BY <1>1, <2>2, <2>3, <2>4, <2>5 DEF Connect, Nested
<1>2. CASE field \in Response
  <2>1. Update(r) = UpdateResponse(r)
    BY <1>2 DEF Update, Connect, Ssl, Will, Response, Disconnect, Message, Collection,
        Property
  <2>2. field \notin Nested
    BY <1>2 DEF Response, Nested
  <2>3. QED
    BY <1>2, <2>1, <2>2 DEF UpdateResponse, c_str, Response
<1>3. CASE field \in Will
  <2>1. Update(r) = r.at /\ field \notin Nested
    BY <1>3 DEF Update, UpdateWill, Connect, Ssl, Will, Response, Disconnect,
        Message, Collection, Property, Nested
  <2>2. QED
    BY <2>1
<1>4. CASE field \in Ssl \cup Disconnect \cup Message \cup Collection \cup Property
  <2>1. Update(r) = c_str(r)
    BY <1>4 DEF Update, UpdateSsl, UpdateDisconnect, UpdateMessage, update_c_arr,
        UpdateProperty, Connect, Ssl, Will, Response, Disconnect, Message, Collection, Property
  <2>2. field \notin Nested
    BY <1>4 DEF Ssl, Disconnect, Message, Collection, Property, Nested
  <2>3. QED
    BY <2>1, <2>2 DEF c_str
<1>5. QED
    BY <1>1, <1>2, <1>3, <1>4, Storage

\* So does every setter.
LEMMA SetPointerExact ==
    ASSUME NEW r \in Record,
           r.at = Null => r.val = 0,
           field = "connectProperties" => r.at # Null,
           SetPointer(r) = Null
    PROVE  r.val = 0 \/ field \in Nested
<1>1. c_str(r) = Null => r.val = 0
    BY DEF c_str
<1>2. SetConnect(r) = Null => r.val = 0 \/ field \in Nested
    BY <1>1 DEF SetConnect
<1>3. SetSsl(r) = Null => r.val = 0
    BY <1>1 DEF SetSsl
<1>4. UpdateWill(r) = Null => r.val = 0
    BY DEF UpdateWill
<1>5. SetPointer(r) \in {SetConnect(r), SetSsl(r), UpdateWill(r), c_str(r)}
    BY DEF SetPointer
<1>6. QED
    BY <1>1, <1>2, <1>3, <1>4, <1>5

\* Where new data lands there is room for it.
LEMMA PlacedFull ==
    ASSUME NEW o \in Objects, NEW v, NEW b \in Free
    PROVE  /\ Placed(o, v, b) = Null => v = 0
           /\ field \in Inline => Placed(o, v, b) = o
           /\ field \notin Inline => Placed(o, v, b) \in {b, Null}
           /\ o # Null /\ b # Null
BY OptionsAssumption DEF Placed, Free

\* A copy fits in its place, and is of what its source would have been read as:
\* the same content, or nested options that are set on neither side.
LEMMA CopiedFits ==
    ASSUME DataInv, "httpHeaders" \notin Fields,
           NEW o \in Objects, NEW s \in Objects, NEW b \in Free,
           obj[s].life \in Usable
    PROVE  /\ Copied(o, s, b) \in Record
           /\ Copied(o, s, b).life = obj[s].life
           /\ Copied(o, s, b).v5 = obj[s].v5 /\ Copied(o, s, b).fresh
           /\ Fits(o, Copied(o, s, b))
           /\ ~(field \in Nested /\ obj[s].ptr = Null) => Copied(o, s, b).val = obj[s].val
           /\ field \in Nested => (Copied(o, s, b).ptr = Null <=> obj[s].ptr = Null)
<1> DEFINE unset == field \in Nested /\ obj[s].ptr = Null
           v == IF unset THEN obj[o].val ELSE obj[s].val
           at == IF field \in Shared /\ obj[s].at # Null THEN obj[s].at
                 ELSE Placed(o, v, b)
           p == IF field \in Nested /\ ~unset THEN o ELSE obj[s].ptr
           r == [obj[s] EXCEPT !.val = v, !.at = at, !.ptr = p, !.fresh = TRUE]
<1>1. /\ obj[s] \in Record /\ obj[o] \in Record /\ Inv /\ TypeOK
      /\ Sound(obj[s]) /\ Full(obj[s]) /\ Exact(obj[s]) /\ Own(s, obj[s])
    BY DEF DataInv, Inv, TypeOK, Record
<1>2. v \in Values /\ p \in Address \cup {Null} /\ at \in Address \cup {Null}
  <2>1. v \in Values /\ p \in Address \cup {Null}
    BY <1>1 DEF Record, Address
  <2>2. at \in Address \cup {Null}
    BY <1>1, PlacedType DEF Record
  <2>3. QED
    BY <2>1, <2>2
<1>3. /\ r \in Record /\ r.life = obj[s].life /\ r.v5 = obj[s].v5 /\ r.val = v
      /\ r.at = at /\ r.ptr = p /\ r.fresh
  <2> HIDE DEF v, at, p
  <2>1. QED
    BY <1>1, <1>2 DEF Record
<1>4. /\ at = Null => v = 0
      /\ field \in Inline => at = o
      /\ field \notin Inline /\ at # Null => at = b \/ (at = obj[s].at /\ v = obj[s].val)
  <2>1. field \in Shared => field \notin Inline /\ v = obj[s].val
    BY DEF Shared, Inline, Nested
  <2>2. CASE field \in Shared /\ obj[s].at # Null
    BY <2>1, <2>2
  <2>3. CASE ~(field \in Shared /\ obj[s].at # Null)
    <3>1. at = Placed(o, v, b)
      BY <2>3
    <3> HIDE DEF at, v
    <3>2. QED
      BY <3>1, PlacedFull
  <2>4. QED
    BY <2>2, <2>3
<1>5. field \in {"token", "responseToken", "subscribeOptionsList"} /\ p = Null => v = 0
  <2>1. SUFFICES ASSUME field \in {"token", "responseToken", "subscribeOptionsList"}, p = Null
                 PROVE  v = 0
    OBVIOUS
  <2>2. field \notin Nested \cup Editable /\ field # "connectProperties"
    BY <2>1 DEF Nested, Editable
  <2>3. obj[s].fresh /\ obj[s].ptr = Null
    BY <1>1, <2>1, <2>2 DEF Sound
  <2>4. QED
    BY <1>1, <2>2, <2>3 DEF Exact
<1>6. /\ (field = "connectProperties" => r.v5) /\ Update(r) = Null
             => r.val = 0 \/ field \in Nested
      /\ field \in Nested => Update(r) = p
  <2>1. field = "connectProperties" => at # Null
    BY <1>4, OptionsAssumption DEF Inline
  <2> HIDE DEF v, at, p, r
  <2>2. QED
    BY <1>1, <1>3, <1>4, <1>5, <2>1, UpdateExact
<1>7. field \in Nested => (p = Null <=> obj[s].ptr = Null)
    BY OptionsAssumption
<1>8. ~unset => v = obj[s].val
    OBVIOUS
<1>9. Copied(o, s, b) \in Record /\ Copied(o, s, b) = [r EXCEPT !.ptr = Update(r)]
    BY <1>1, CopiedSound DEF Copied
<1> DEFINE c == Copied(o, s, b)
<1>10. /\ c.life = obj[s].life /\ c.v5 = obj[s].v5 /\ c.val = v /\ c.at = at /\ c.fresh
       /\ c.ptr = Update(r)
  <2> HIDE DEF v, at, p, r
  <2>1. QED
    BY <1>3, <1>9 DEF Record
<1>11. Fits(o, c)
  <2> HIDE DEF v, at, p, r, c
  <2>1. Full(c) /\ Own(o, c)
    BY <1>4, <1>10 DEF Full, Own
  <2>2. Exact(c)
    BY <1>3, <1>6, <1>10 DEF Exact
  <2>3. obj[s].life # "none"
    BY DEF Usable
  <2>4. QED
    BY <1>4, <1>10, <2>1, <2>2, <2>3 DEF Fits
<1>12. QED
  <2> HIDE DEF v, at, p, r
  <2>1. QED
    BY <1>6, <1>7, <1>8, <1>9, <1>10, <1>11

\* The same of an object that was moved into place.
LEMMA MovedFits ==
    ASSUME DataInv, "httpHeaders" \notin Fields,
           NEW o \in Objects, NEW s \in Objects, NEW b \in Free,
           obj[s].life = "live"
    PROVE  /\ Moved(o, s, b) \in Record
           /\ Moved(o, s, b).life = "live"
           /\ Moved(o, s, b).v5 = obj[s].v5 /\ Moved(o, s, b).fresh
           /\ Fits(o, Moved(o, s, b))
           /\ Moved(o, s, b).val = obj[s].val
           /\ field \in Nested => (Moved(o, s, b).ptr = Null <=> obj[s].ptr = Null)
<1> DEFINE at == IF field \in Inline THEN o
                 ELSE IF field = "payload" /\ obj[s].at = Null THEN b ELSE obj[s].at
           p == IF field \in Nested /\ obj[s].ptr # Null THEN o ELSE obj[s].ptr
           r == [obj[s] EXCEPT !.at = at, !.ptr = p, !.fresh = TRUE]
<1>1. /\ obj[s] \in Record /\ Inv /\ TypeOK
      /\ Sound(obj[s]) /\ Full(obj[s]) /\ Exact(obj[s])
    BY DEF DataInv, Inv, TypeOK, Record
<1>2. at \in Address \cup {Null} /\ p \in Address \cup {Null}
    BY <1>1 DEF Record, Address, Free
<1>3. /\ r \in Record /\ r.life = "live" /\ r.v5 = obj[s].v5 /\ r.val = obj[s].val
      /\ r.at = at /\ r.ptr = p /\ r.fresh
  <2> HIDE DEF at, p
  <2>1. QED
    BY <1>1, <1>2 DEF Record
<1>4. /\ at = Null => obj[s].val = 0
      /\ field \in Inline => at = o
      /\ field \notin Inline => at = b \/ at = obj[s].at
  <2>1. o # Null
    BY OptionsAssumption
  <2>2. QED
    BY <1>1, <2>1 DEF Full
<1>5. field \in {"token", "responseToken", "subscribeOptionsList"} /\ p = Null
          => obj[s].val = 0
  <2>1. SUFFICES ASSUME field \in {"token", "responseToken", "subscribeOptionsList"}, p = Null
                 PROVE  obj[s].val = 0
    OBVIOUS
  <2>2. field \notin Nested \cup Editable /\ field # "connectProperties"
    BY <2>1 DEF Nested, Editable
  <2>3. obj[s].fresh /\ obj[s].ptr = Null
    BY <1>1, <2>1, <2>2 DEF Sound, Usable
  <2>4. QED
    BY <1>1, <2>2, <2>3 DEF Exact, Usable
<1>6. /\ (field = "connectProperties" => r.v5) /\ Update(r) = Null
             => r.val = 0 \/ field \in Nested
      /\ field \in Nested => Update(r) = p
  <2>1. field = "connectProperties" => at # Null
    BY <1>4, OptionsAssumption DEF Inline
  <2> HIDE DEF at, p, r
  <2>2. QED
    BY <1>1, <1>3, <1>4, <1>5, <2>1, UpdateExact
<1>7. field \in Nested => (p = Null <=> obj[s].ptr = Null)
    BY OptionsAssumption
<1>8. Moved(o, s, b) \in Record /\ Moved(o, s, b) = [r EXCEPT !.ptr = Update(r)]
    BY <1>1, MovedSound DEF Moved
<1> DEFINE c == Moved(o, s, b)
<1>9. /\ c.life = "live" /\ c.v5 = obj[s].v5 /\ c.val = obj[s].val /\ c.at = at
      /\ c.fresh /\ c.ptr = Update(r)
  <2> HIDE DEF at, p, r
  <2>1. QED
    BY <1>3, <1>8 DEF Record
<1>10. Fits(o, c)
  <2> HIDE DEF at, p, r, c
  <2>1. Full(c) /\ Own(o, c)
    BY <1>4, <1>9 DEF Full, Own
  <2>2. Exact(c)
    BY <1>3, <1>6, <1>9 DEF Exact
  <2>3. QED
    BY <1>4, <1>9, <2>1, <2>2 DEF Fits
<1>11. QED
  <2> HIDE DEF at, p, r
  <2>1. QED
    BY <1>6, <1>7, <1>8, <1>9, <1>10

\* What a move leaves behind keeps no data, or keeps it inside the object.
LEMMA RemainsFits ==
    ASSUME DataInv, NEW s \in Objects, NEW cleared
    PROVE  /\ Remains(s, cleared) \in Record
           /\ Remains(s, cleared).life = "moved"
           /\ Full(Remains(s, cleared)) /\ Own(s, Remains(s, cleared))
           /\ field \in Inline \/ Remains(s, cleared).at = Null
<1> DEFINE at == IF field \in Inline THEN s ELSE Null
           p == IF field \in cleared THEN Null ELSE obj[s].ptr
           q == Remains(s, cleared)
<1>1. obj[s] \in Record
    BY DEF DataInv, Inv, TypeOK, Record
<1>2. /\ at \in Address \cup {Null} /\ p \in Address \cup {Null}
      /\ field \in Inline => at = s
      /\ field \in Inline \/ at = Null
    BY <1>1 DEF Address, Record
<1>3. q = [obj[s] EXCEPT !.life = "moved", !.val = 0, !.at = at, !.ptr = p]
    BY DEF Remains
<1>4. q \in Record /\ q.life = "moved" /\ q.val = 0 /\ q.at = at
  <2> HIDE DEF at, p, q
  <2>1. QED
    BY <1>1, <1>2, <1>3, OptionsAssumption DEF Record
<1>5. QED
  <2> HIDE DEF at, p
  <2>1. QED
    BY <1>2, <1>4 DEF Full, Own

-----------------------------------------------------------------------------
(* The steps.                                                              *)

\* An object that is copied or moved from s to o by one step: what is put in
\* place, and what remains.
LEMMA CopyStep ==
    ASSUME DataInv, "httpHeaders" \notin Fields, NEW o \in Objects, NEW s \in Objects,
           \/ CopyConstruct(o, s) \/ CopyAssign(o, s)
           \/ Finalize(o, s) \/ BuildFrom(o, s)
    PROVE  \E r \in Record :
              /\ obj' = [obj EXCEPT ![o] = r] /\ field' = field
              /\ Fits(o, r)
              /\ r.life \in Usable /\ r.v5 = obj[s].v5 /\ r.fresh
              /\ ~(field \in Nested /\ obj[s].ptr = Null) => r.val = obj[s].val
              /\ field \in Nested => (r.ptr = Null <=> obj[s].ptr = Null)
<1>1. obj[s].life \in Usable /\ field' = field
    BY DEF CopyConstruct, CopyAssign, Finalize, BuildFrom, Usable
<1>2. CASE CopyConstruct(o, s) \/ CopyAssign(o, s)
  <2>1. PICK b \in Free : obj' = [obj EXCEPT ![o] = Copied(o, s, b)]
    BY <1>2 DEF CopyConstruct, CopyAssign
  <2> DEFINE c == Copied(o, s, b)
  <2>2. /\ c \in Record /\ c.life = obj[s].life
        /\ c.v5 = obj[s].v5 /\ c.fresh /\ Fits(o, c)
        /\ ~(field \in Nested /\ obj[s].ptr = Null) => c.val = obj[s].val
        /\ field \in Nested => (c.ptr = Null <=> obj[s].ptr = Null)
    BY <1>1, CopiedFits
  <2>3. obj' = [obj EXCEPT ![o] = c]
    BY <2>1
  <2>4. QED
    <3> HIDE DEF c
    <3>1. QED
      BY <1>1, <2>2, <2>3
<1>3. CASE Finalize(o, s) \/ BuildFrom(o, s)
  <2>1. PICK b \in Free, life \in Usable :
          obj' = [obj EXCEPT ![o] = [Copied(o, s, b) EXCEPT !.life = life]]
    BY <1>3 DEF Finalize, BuildFrom, Usable
  <2> DEFINE c == Copied(o, s, b)
             r == [c EXCEPT !.life = life]
  <2>2. /\ c \in Record /\ c.life = obj[s].life
        /\ c.v5 = obj[s].v5 /\ c.fresh /\ Fits(o, c)
        /\ ~(field \in Nested /\ obj[s].ptr = Null) => c.val = obj[s].val
        /\ field \in Nested => (c.ptr = Null <=> obj[s].ptr = Null)
    BY <1>1, CopiedFits
  <2>3. obj' = [obj EXCEPT ![o] = r]
    BY <2>1
  <2>4. /\ r \in Record /\ r.life = life /\ r.v5 = c.v5 /\ r.fresh = c.fresh
        /\ r.val = c.val /\ r.at = c.at /\ r.ptr = c.ptr
    <3> HIDE DEF c
    <3>1. QED
      BY <2>2 DEF Record, Usable
  <2>5. r.life \in Usable /\ r.life # "none" /\ c.life \in Usable /\ c.life # "none"
    BY <1>1, <2>2, <2>4 DEF Usable
  <2>6. Fits(o, r)
    <3> HIDE DEF c, r
    <3>1. Full(r) /\ Exact(r) /\ Own(o, r)
      BY <2>2, <2>4, <2>5 DEF Fits, Full, Exact, Own
    <3>2. QED
      BY <2>2, <2>4, <2>5, <3>1 DEF Fits
  <2>7. QED
    <3> HIDE DEF c, r
    <3>1. QED
      BY <1>1, <2>2, <2>3, <2>4, <2>5, <2>6
<1>4. QED
    BY <1>2, <1>3

LEMMA MoveStep ==
    ASSUME DataInv, "httpHeaders" \notin Fields, NEW o \in Objects, NEW s \in Objects,
           MoveConstruct(o, s) \/ MoveAssign(o, s)
    PROVE  \E r, q \in Record :
              /\ o # s
              /\ obj' = [obj EXCEPT ![o] = r, ![s] = q] /\ field' = field
              /\ Fits(o, r)
              /\ r.life \in Usable /\ r.v5 = obj[s].v5 /\ r.fresh
              /\ ~(field \in Nested /\ obj[s].ptr = Null) => r.val = obj[s].val
              /\ field \in Nested => (r.ptr = Null <=> obj[s].ptr = Null)
              /\ q.life = "moved" /\ Full(q) /\ Own(s, q)
              /\ field \in Inline \/ q.at = Null
<1>1. obj[s].life = "live" /\ field' = field /\ o # s
    BY DEF MoveConstruct, MoveAssign
<1>2. CASE MoveConstruct(o, s) \/ field \notin Nested
  <2>1. PICK b \in Free : \E cleared :
          obj' = [obj EXCEPT ![o] = Moved(o, s, b), ![s] = Remains(s, cleared)]
    BY <1>2 DEF MoveConstruct, MoveAssign
  <2>2. PICK cleared :
          obj' = [obj EXCEPT ![o] = Moved(o, s, b), ![s] = Remains(s, cleared)]
    BY <2>1
  <2> DEFINE r == Moved(o, s, b)
             q == Remains(s, cleared)
  <2>3. /\ r \in Record /\ r.life = "live" /\ r.v5 = obj[s].v5 /\ r.fresh /\ Fits(o, r)
        /\ r.val = obj[s].val
        /\ field \in Nested => (r.ptr = Null <=> obj[s].ptr = Null)
    BY <1>1, MovedFits
  <2>4. /\ q \in Record /\ q.life = "moved" /\ Full(q) /\ Own(s, q)
        /\ field \in Inline \/ q.at = Null
    BY RemainsFits
  <2>5. obj' = [obj EXCEPT ![o] = r, ![s] = q]
    BY <2>2
  <2>6. QED
    <3> HIDE DEF r, q
    <3>1. r.life \in Usable
      BY <2>3 DEF Usable
    <3>2. QED
      BY <1>1, <2>3, <2>4, <2>5, <3>1
<1>3. CASE MoveAssign(o, s) /\ field \in Nested
  <2>1. PICK b \in Free :
          obj' = [obj EXCEPT ![o] = Copied(o, s, b), ![s].life = "moved"]
    BY <1>3 DEF MoveAssign
  <2> DEFINE r == Copied(o, s, b)
             q == [obj[s] EXCEPT !.life = "moved"]
  <2>2. obj[s] \in Record /\ Full(obj[s]) /\ Own(s, obj[s]) /\ obj \in [Objects -> Record]
    BY DEF DataInv, Inv, TypeOK, Record
  <2>3. q \in Record /\ q.life = "moved" /\ q.val = obj[s].val /\ q.at = obj[s].at
    BY <2>2 DEF Record
  <2>4. field \in Inline
    BY <1>3 DEF Nested, Inline
  <2>5. Full(q) /\ Own(s, q)
    <3> HIDE DEF q
    <3>1. QED
      BY <1>1, <2>2, <2>3 DEF Full, Own
  <2>6. obj' = [obj EXCEPT ![o] = r, ![s] = q]
    BY <1>1, <2>1, <2>2
  <2>7. /\ r \in Record /\ r.life = "live"
        /\ r.v5 = obj[s].v5 /\ r.fresh /\ Fits(o, r)
        /\ ~(field \in Nested /\ obj[s].ptr = Null) => r.val = obj[s].val
        /\ field \in Nested => (r.ptr = Null <=> obj[s].ptr = Null)
    BY <1>1, CopiedFits DEF Usable
  <2>8. QED
    <3> HIDE DEF r, q
    <3>1. r.life \in Usable
      BY <2>7 DEF Usable
    <3>2. QED
      BY <1>1, <2>3, <2>4, <2>5, <2>6, <2>7, <3>1
<1>4. QED
    BY <1>2, <1>3

\* Every operation keeps the invariant.
LEMMA DataStep ==
    ASSUME DataInv, "httpHeaders" \notin Fields, [Next]_vars
    PROVE  DataInv'
<1>1. Inv /\ Inv'
    BY InvStep DEF DataInv
<1>2. CASE UNCHANGED vars
    BY <1>1, <1>2 DEF DataInv, Alike, Full, Exact, Own, vars
<1>3. ASSUME NEW o \in Objects, Construct(o) PROVE DataInv'
  <2>1. PICK v5 \in BOOLEAN, life \in Usable, b \in Free :
          LET at == IF field = "payload" THEN Null ELSE Placed(o, 0, b)
          IN  obj' = [obj EXCEPT ![o] =
                 [NoObject EXCEPT !.life = life, !.v5 = v5, !.at = at,
                      !.ptr = IF field = "topic" THEN at ELSE Null]]
    BY <1>3 DEF Construct
  <2> DEFINE at == IF field = "payload" THEN Null ELSE Placed(o, 0, b)
             p == IF field = "topic" THEN at ELSE Null
             r == [NoObject EXCEPT !.life = life, !.v5 = v5, !.at = at, !.ptr = p]
  <2>2. /\ at \in Address \cup {Null} /\ p \in Address \cup {Null}
        /\ field \in Inline => at = o
        /\ field \in Inline \/ at = Null \/ at = b
    BY PlacedType, PlacedFull DEF Inline
  <2>3. r \in Record /\ r.val = 0 /\ r.at = at
    <3> HIDE DEF at, p
    <3>1. QED
      BY <2>2, OptionsAssumption DEF NoObject, Record, Usable
  <2>4. Fits(o, r)
    <3> HIDE DEF r, at
    <3>1. QED
      BY <2>2, <2>3 DEF Fits, Full, Exact, Own
  <2>5. obj' = [obj EXCEPT ![o] = r] /\ field' = field
    BY <1>3, <2>1 DEF Construct
  <2>6. QED
    <3> HIDE DEF r
    <3>1. QED
      BY <1>1, <2>3, <2>4, <2>5, KeepOne
<1>4. ASSUME NEW o \in Objects, NEW v \in Values, Set(o, v) \/ Build(o, v) PROVE DataInv'
  <2>1. PICK b \in Free, life \in Usable : obj' = [obj EXCEPT ![o] = Assigned(o, v, b, life)]
    BY <1>4 DEF Set, Build, Usable
  <2> DEFINE at == Placed(o, v, b)
             v5 == obj[o].v5 \/ field = "connectProperties"
             r == [obj[o] EXCEPT !.life = life, !.val = v, !.at = at, !.v5 = v5]
             q == [r EXCEPT !.ptr = SetPointer(r), !.fresh = TRUE]
  <2>2. /\ at \in Address \cup {Null}
        /\ at = Null => v = 0
        /\ field \in Inline => at = o
        /\ field \in Inline \/ at = Null \/ at = b
        /\ field = "connectProperties" => at # Null
    BY PlacedType, PlacedFull DEF Inline
  <2>3. obj[o] \in Record
    BY <1>1 DEF Inv, TypeOK, Record
  <2>4. r \in Record /\ r.val = v /\ r.at = at
    <3>1. v5 \in BOOLEAN
      BY <2>3 DEF Record
    <3> HIDE DEF at, v5
    <3>2. QED
      BY <2>2, <2>3, <3>1 DEF Record, Usable
  <2>5. SetPointer(r) = Null => v = 0 \/ field \in Nested
    <3> HIDE DEF r, at
    <3>1. QED
      BY <2>2, <2>4, SetPointerExact
  <2>6. q \in Record /\ q.val = v /\ q.at = at /\ q.ptr = SetPointer(r)
    <3> HIDE DEF r, at
    <3>1. SetPointer(r) \in {Null, r.at}
      BY <2>4, SetPointerOwn
    <3>2. QED
      BY <2>2, <2>4, <3>1 DEF Record
  <2>7. Fits(o, q)
    <3> HIDE DEF q, r, at
    <3>1. Full(q) /\ Exact(q) /\ Own(o, q)
      BY <2>2, <2>5, <2>6 DEF Full, Exact, Own
    <3>2. QED
      BY <2>2, <2>6, <3>1 DEF Fits
  <2>8. obj' = [obj EXCEPT ![o] = q] /\ field' = field
    BY <1>4, <2>1 DEF Set, Build, Assigned
  <2>9. QED
    <3> HIDE DEF q
    <3>1. QED
      BY <1>1, <2>6, <2>7, <2>8, KeepOne
<1>5. ASSUME NEW o \in Objects,
             set_mqtt_version(o) \/ SelfAssign(o) \/ FinalizeMessage(o)
      PROVE  DataInv'
  <2>1. /\ obj[o] \in Record /\ obj[o].life \in Usable /\ obj[o].life # "none"
        /\ Full(obj[o]) /\ Exact(obj[o]) /\ Own(o, obj[o])
    BY <1>1, <1>5 DEF DataInv, Inv, TypeOK, Record, Usable, set_mqtt_version, SelfAssign,
        FinalizeMessage
  <2>2. ASSUME NEW r \in Record, Exact(r), r.val = obj[o].val, r.at = obj[o].at
        PROVE  Fits(o, r)
    BY <2>1, <2>2 DEF Fits, Full, Own
  <2>3. CASE set_mqtt_version(o)
    <3> DEFINE r == [obj[o] EXCEPT !.v5 = ~obj[o].v5, !.fresh = FALSE]
    <3>1. r \in Record /\ r.fresh = FALSE /\ r.val = obj[o].val /\ r.at = obj[o].at
      BY <2>1 DEF Record
    <3>2. obj' = [obj EXCEPT ![o] = r] /\ field' = field
      BY <1>1, <2>3 DEF set_mqtt_version, Inv, TypeOK
    <3>3. QED
      <4> HIDE DEF r
      <4>1. Exact(r)
        BY <3>1 DEF Exact
      <4>2. QED
        BY <1>1, <2>2, <3>1, <3>2, <4>1, KeepOne
  <2>4. CASE SelfAssign(o)
    <3> DEFINE p == UpdateDisconnect(obj[o])
               r == [obj[o] EXCEPT !.ptr = p, !.fresh = TRUE]
    <3>1. p \in Address \cup {Null} /\ (p = Null => obj[o].val = 0)
      BY <2>1 DEF UpdateDisconnect, c_str, Record, Full
    <3>2. r \in Record /\ r.ptr = p /\ r.val = obj[o].val /\ r.at = obj[o].at
      <4> HIDE DEF p
      <4>1. QED
        BY <2>1, <3>1 DEF Record
    <3>3. obj' = [obj EXCEPT ![o] = r] /\ field' = field
      BY <1>1, <2>4 DEF SelfAssign, Inv, TypeOK
    <3>4. QED
      <4> HIDE DEF r, p
      <4>1. Exact(r)
        BY <3>1, <3>2 DEF Exact
      <4>2. QED
        BY <1>1, <2>2, <3>2, <3>3, <4>1, KeepOne
  <2>5. CASE FinalizeMessage(o)
    <3> DEFINE r == [obj[o] EXCEPT !.life = "live"]
    <3>1. /\ r \in Record /\ r.val = obj[o].val /\ r.at = obj[o].at
          /\ r.ptr = obj[o].ptr /\ r.fresh = obj[o].fresh /\ r.v5 = obj[o].v5
      BY <2>1 DEF Record
    <3>2. obj' = [obj EXCEPT ![o] = r] /\ field' = field
      BY <1>1, <2>5 DEF FinalizeMessage, Inv, TypeOK
    <3>3. QED
      <4> HIDE DEF r
      <4>1. Exact(r)
        BY <2>1, <3>1 DEF Exact
      <4>2. QED
        BY <1>1, <2>2, <3>1, <3>2, <4>1, KeepOne
  <2>6. QED
    BY <1>5, <2>3, <2>4, <2>5
<1>6. ASSUME NEW o \in Objects, NEW v \in Values, EditProperties(o, v) PROVE DataInv'
  <2>1. PICK b \in Free :
          obj' = [obj EXCEPT ![o].val = v, ![o].at = Placed(o, v, b), ![o].fresh = FALSE]
    BY <1>6 DEF EditProperties
  <2> DEFINE at == Placed(o, v, b)
             r == [obj[o] EXCEPT !.val = v, !.at = at, !.fresh = FALSE]
  <2>2. /\ at \in Address \cup {Null}
        /\ at = Null => v = 0
        /\ field \in Inline => at = o
        /\ field \in Inline \/ at = Null \/ at = b
    BY PlacedType, PlacedFull
  <2>3. obj[o] \in Record
    BY <1>1 DEF Inv, TypeOK, Record
  <2>4. r \in Record /\ r.val = v /\ r.at = at /\ r.fresh = FALSE
    <3> HIDE DEF at
    <3>1. QED
      BY <2>2, <2>3 DEF Record
  <2>5. obj' = [obj EXCEPT ![o] = r] /\ field' = field
    BY <1>1, <1>6, <2>1, <2>3 DEF EditProperties, Inv, TypeOK
  <2>6. Fits(o, r)
    <3> HIDE DEF r, at
    <3>1. Full(r) /\ Exact(r) /\ Own(o, r)
      BY <2>2, <2>4 DEF Full, Exact, Own
    <3>2. QED
      BY <2>2, <2>4, <3>1 DEF Fits
  <2>7. QED
    <3> HIDE DEF r
    <3>1. QED
      BY <1>1, <2>4, <2>5, <2>6, KeepOne
<1>7. ASSUME NEW o \in Objects, NEW s \in Objects,
             \/ CopyConstruct(o, s) \/ CopyAssign(o, s)
             \/ Finalize(o, s) \/ BuildFrom(o, s)
      PROVE  DataInv'
  <2>1. PICK r \in Record :
          obj' = [obj EXCEPT ![o] = r] /\ field' = field /\ Fits(o, r)
    BY <1>7, CopyStep
  <2>2. QED
    BY <1>1, <2>1, KeepOne
<1>8. ASSUME NEW o \in Objects, NEW s \in Objects,
             MoveConstruct(o, s) \/ MoveAssign(o, s)
      PROVE  DataInv'
  <2>1. PICK r \in Record, q \in Record :
          /\ o # s
          /\ obj' = [obj EXCEPT ![o] = r, ![s] = q] /\ field' = field
          /\ Fits(o, r)
          /\ q.life = "moved" /\ Full(q) /\ Own(s, q)
          /\ field \in Inline \/ q.at = Null
    BY <1>8, MoveStep
  <2>2. QED
    BY <1>1, <2>1, KeepTwo
<1>9. ASSUME NEW o \in Objects, Destroy(o) PROVE DataInv'
  <2>1. NoObject \in Record /\ NoObject.life = "none"
    BY OptionsAssumption DEF NoObject, Record
  <2>2. Fits(o, NoObject)
    BY <2>1 DEF Fits, Full, Exact, Own, Usable
  <2>3. obj' = [obj EXCEPT ![o] = NoObject] /\ field' = field
    BY <1>9 DEF Destroy
  <2>4. QED
    BY <1>1, <2>1, <2>2, <2>3, KeepOne
<1>10. QED
    BY <1>2, <1>3, <1>4, <1>5, <1>6, <1>7, <1>8, <1>9 DEF Next

LEMMA DataInit == Init => DataInv
<1>1. NoObject.at = Null /\ NoObject.life = "none" /\ NoObject.val = 0
    BY DEF NoObject
<1>2. QED
    BY <1>1, InvInit DEF Init, DataInv, Alike, Full, Exact, Own, Usable

-----------------------------------------------------------------------------
(* The theorems.                                                           *)

\* What the C library reads through every object that is ready: its member, or
\* nothing where nested options are not set.
Shown ==
    \A o \in Objects : Ready(o) =>
        View(o) = IF field \in Nested /\ obj[o].ptr = Null THEN {0} ELSE {obj[o].val}

LEMMA DataShown == DataInv => Shown
<1> SUFFICES ASSUME DataInv, NEW o \in Objects, Ready(o)
             PROVE  View(o) = IF field \in Nested /\ obj[o].ptr = Null
                              THEN {0} ELSE {obj[o].val}
    BY DEF Shown
<1>1. obj[o].ptr \in {Null, obj[o].at} /\ obj[o].life # "none"
    BY DEF DataInv, Inv, Sound, Ready, Usable
<1>2. CASE obj[o].ptr = Null
  <2>1. View(o) = {0}
    BY <1>2 DEF View
  <2>2. obj[o].val = 0 \/ field \in Nested
    BY <1>2 DEF DataInv, Exact, Ready
  <2>3. QED
    BY <1>2, <2>1, <2>2
<1>3. CASE obj[o].ptr = obj[o].at /\ obj[o].ptr # Null
  <2> DEFINE K == {k \in Objects : obj[k].life # "none" /\ obj[k].at = obj[o].ptr}
  <2>1. o \in K
    BY <1>1, <1>3
  <2>2. \A k \in K : obj[k].val = obj[o].val
    BY <1>1, <1>3 DEF DataInv, Alike
  <2>3. View(o) = {obj[k].val : k \in K}
    BY <1>3 DEF View
  <2>4. QED
    <3> HIDE DEF K
    <3>1. {obj[k].val : k \in K} = {obj[o].val}
      BY <2>1, <2>2
    <3>2. QED
      BY <1>3, <2>3, <3>1
<1>4. QED
    BY <1>1, <1>2, <1>3

\* The invariant of the data, for any sequence of operations.
THEOREM DataInvariant ==
    ASSUME "httpHeaders" \notin Fields
    PROVE  Spec => []DataInv
<1>1. DataInv /\ [Next]_vars => DataInv'
    BY DataStep
<1>2. QED
    BY <1>1, DataInit, PTL DEF Spec

\* The C library reads through an object's C struct what its C++ getters
\* return, whatever setters, copies, moves and assignments came before.
THEOREM StructsMatchMembers ==
    ASSUME "httpHeaders" \notin Fields
    PROVE  Spec => []MatchesMembers
<1>1. Shown => MatchesMembers
    BY DEF Shown, MatchesMembers
<1>2. QED
    BY <1>1, DataShown, DataInvariant, PTL

\* No operation on other objects changes what the C library reads through an
\* object: a copy is not linked to its source.
THEOREM CopiesAreIndependent ==
    ASSUME "httpHeaders" \notin Fields
    PROVE  Spec => Independent
<1> DEFINE A == \A o \in Objects : Ready(o) /\ obj'[o] = obj[o] => View(o)' = View(o)
<1>1. Next => field' = field
    BY DEF Next, Construct, set_mqtt_version, SelfAssign, FinalizeMessage, Destroy, Set,
        Build, EditProperties, CopyConstruct, CopyAssign, MoveConstruct, MoveAssign,
        Finalize, BuildFrom
<1>2. Shown /\ Shown' /\ [Next]_vars => [A]_vars
  <2> SUFFICES ASSUME Shown, Shown', Next, NEW o \in Objects, Ready(o), obj'[o] = obj[o]
               PROVE  View(o)' = View(o)
    OBVIOUS
  <2>1. field' = field /\ Ready(o)'
    BY <1>1 DEF Ready
  <2>2. View(o)' = IF field' \in Nested /\ obj'[o].ptr = Null
                   THEN {0} ELSE {obj'[o].val}
    BY <2>1 DEF Shown
  <2>3. View(o) = IF field \in Nested /\ obj[o].ptr = Null THEN {0} ELSE {obj[o].val}
    BY DEF Shown
  <2>4. QED
    BY <2>1, <2>2, <2>3
<1>3. QED
    BY <1>2, DataShown, DataInvariant, PTL DEF Spec, Independent

\* Copy, move, assignment and finalize() carry over what the C library would
\* have read through the source: nothing set is lost and nothing unset appears.
THEOREM CopiesAreFaithful ==
    ASSUME "httpHeaders" \notin Fields
    PROVE  Spec => Faithful
<1> DEFINE Copies(o, s) == \/ CopyConstruct(o, s) \/ CopyAssign(o, s)
                           \/ MoveConstruct(o, s) \/ MoveAssign(o, s)
                           \/ Finalize(o, s) \/ BuildFrom(o, s)
           A == \A o, s \in Objects :
                    Ready(s) /\ obj'[o] # obj[o]
                    /\ \/ CopyConstruct(o, s) \/ CopyAssign(o, s)
                       \/ MoveConstruct(o, s) \/ MoveAssign(o, s)
                       \/ Finalize(o, s) \/ BuildFrom(o, s)
                    => View(o)' = View(s)
<1>1. DataInv /\ Shown /\ Shown' => A
  <2> SUFFICES ASSUME DataInv, Shown, Shown', NEW o \in Objects, NEW s \in Objects,
                      Ready(s), Copies(o, s)
               PROVE  View(o)' = View(s)
    OBVIOUS
  <2>1. /\ field' = field
        /\ obj'[o].life \in Usable /\ obj'[o].v5 = obj[s].v5 /\ obj'[o].fresh
        /\ ~(field \in Nested /\ obj[s].ptr = Null) => obj'[o].val = obj[s].val
        /\ field \in Nested => (obj'[o].ptr = Null <=> obj[s].ptr = Null)
    <3>1. DOMAIN obj = Objects
      BY DEF DataInv, Inv, TypeOK
    <3>2. CASE MoveConstruct(o, s) \/ MoveAssign(o, s)
      <4>1. PICK r \in Record, q \in Record :
              /\ o # s
              /\ obj' = [obj EXCEPT ![o] = r, ![s] = q] /\ field' = field
              /\ r.life \in Usable /\ r.v5 = obj[s].v5 /\ r.fresh
              /\ ~(field \in Nested /\ obj[s].ptr = Null) => r.val = obj[s].val
              /\ field \in Nested => (r.ptr = Null <=> obj[s].ptr = Null)
        BY <3>2, MoveStep
      <4>2. obj'[o] = r
        BY <3>1, <4>1
      <4>3. QED
        BY <4>1, <4>2
    <3>3. CASE \/ CopyConstruct(o, s) \/ CopyAssign(o, s)
               \/ Finalize(o, s) \/ BuildFrom(o, s)
      <4>1. PICK r \in Record :
              /\ obj' = [obj EXCEPT ![o] = r] /\ field' = field
              /\ r.life \in Usable /\ r.v5 = obj[s].v5 /\ r.fresh
              /\ ~(field \in Nested /\ obj[s].ptr = Null) => r.val = obj[s].val
              /\ field \in Nested => (r.ptr = Null <=> obj[s].ptr = Null)
        BY <3>3, CopyStep
      <4>2. obj'[o] = r
        BY <3>1, <4>1
      <4>3. QED
        BY <4>1, <4>2
    <3>4. QED
      BY <3>2, <3>3
  <2>2. Ready(o)'
    BY <2>1 DEF Ready
  <2>3. View(o)' = IF field' \in Nested /\ obj'[o].ptr = Null
                   THEN {0} ELSE {obj'[o].val}
    BY <2>2 DEF Shown
  <2>4. View(s) = IF field \in Nested /\ obj[s].ptr = Null THEN {0} ELSE {obj[s].val}
    BY DEF Shown
  <2>5. QED
    BY <2>1, <2>3, <2>4
<1>2. DataInv /\ Shown /\ Shown' => [A]_vars
    BY <1>1
<1>3. QED
    BY <1>2, DataShown, DataInvariant, PTL DEF Spec, Faithful

=============================================================================
