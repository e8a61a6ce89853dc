--------------------------- MODULE SlotAllocator ---------------------------
(***************************************************************************)
(* task5-memory/src/slot_allocator.c: medium allocations, cut from arenas  *)
(* of SlotCount slots.  A span of slots begins with a header in its first  *)
(* slot; headers of slots inside a used span are the client's data.  The   *)
(* search of an arena begins at its cursor.  No lock protects any of this: *)
(* a step of a thread is one iteration of a loop over the spans.  Clients  *)
(* follow the rules: one thread at a time works on an allocation, and      *)
(* fills it.                                                               *)
(***************************************************************************)
EXTENDS Integers, Sequences

CONSTANTS Thread,        \* the threads that allocate
          Tag,           \* bound: the allocations alive at one time
          SlotCount,     \* SLOT_COUNT
          SlotPayload,   \* SLOT_ALLOCATOR_SLOT_SIZE
          HeaderSize,    \* sizeof(struct Slot)
          MallocSize,    \* the sizes malloc_impl sends here
          ReallocSize,   \* the sizes realloc_impl is called with
          MaxArenas,     \* bound: the arenas the kernel grants
          MaxCalls       \* bound: the calls of a behaviour

ASSUME SlotAssumption == /\ SlotCount \in Nat \ {0}
                         /\ SlotPayload \in Nat \ {0}
                         /\ HeaderSize \in Nat \ {0}
ASSUME SizeAssumption == MallocSize \subseteq Nat \ {0} /\ ReallocSize \subseteq Nat
ASSUME BoundAssumption == MaxArenas \in Nat /\ MaxCalls \in Nat

SlotSize == SlotPayload + HeaderSize
Slot == 0 .. SlotCount - 1

\* The slots an allocation of `size` bytes and its header take, rounded up.
RequiredSlots(size) ==
  LET slots == (HeaderSize + size) \div SlotSize
  IN IF slots * SlotSize < HeaderSize + size THEN slots + 1 ELSE slots

\* What a header word may hold: a header, or bytes some client wrote there.
Header(length, used) == [length |-> length, used |-> used]
ClientData == Header(-1, FALSE)

VARIABLES arenas,  \* the chain of SlotAllocators: [cursor, slot]
          owned,   \* the client's allocations: tag -> [arena, at, size]
          pc,      \* where each thread is
          call,    \* what it executes: [tag, size, old]
          pos,     \* the span it has come to: [arena, at]
          grown,   \* history: the arenas its call has created
          calls,   \* history: the calls made so far
          adrift   \* history: a cursor has been left inside a span

vars == <<arenas, owned, pc, call, pos, grown, calls, adrift>>

NoTag == "no tag"
Idle == [tag |-> NoTag, size |-> 0, old |-> <<>>]
Nowhere == [arena |-> 0, at |-> 0]

\* Seeded fault: the span of a new arena counts as used.
Fresh_Used == [cursor |-> 0,
               slot |-> [i \in Slot |-> IF i = 0 THEN Header(SlotCount, TRUE) ELSE Header(0, FALSE)]]

\* create(): fresh pages are zero.
Fresh == [cursor |-> 0,
          slot |-> [i \in Slot |-> IF i = 0 THEN Header(SlotCount, FALSE) ELSE Header(0, FALSE)]]

Init == /\ arenas = <<>>
        /\ owned = <<>>
        /\ pc = [t \in Thread |-> "idle"]
        /\ call = [t \in Thread |-> Idle]
        /\ pos = [t \in Thread |-> Nowhere]
        /\ grown = [t \in Thread |-> 0]
        /\ calls = 0
        /\ adrift = FALSE

Goto(t, to) == pc' = [pc EXCEPT ![t] = to]
MoveTo(t, a, i) == pos' = [pos EXCEPT ![t] = [arena |-> a, at |-> i]]

\* The call of t returns.
Done(t) == /\ Goto(t, "idle")
           /\ call' = [call EXCEPT ![t] = Idle]
           /\ pos' = [pos EXCEPT ![t] = Nowhere]
           /\ grown' = [grown EXCEPT ![t] = 0]

Owning(tag, a, i, size) ==
  [g \in DOMAIN owned \cup {tag} |->
     IF g = tag THEN [arena |-> a, at |-> i, size |-> size] ELSE owned[g]]
NotOwning(tag) == [g \in DOMAIN owned \ {tag} |-> owned[g]]

InUse(tag) == tag \in DOMAIN owned \/ \E t \in Thread : call[t].tag = tag

\* The client writes to every byte of its allocation: the headers of the slots
\* behind the first are lost.
Filled(slot, i, size) ==
  [j \in Slot |-> IF i < j /\ j < i + RequiredSlots(size) THEN ClientData ELSE slot[j]]

Successor(slot, i) == slot[i + slot[i].length]

\* Seeded fault: a used successor is merged as well.
Mergeable_UsedToo(slot, i) == i + slot[i].length < SlotCount

\* The span at i is followed by an unused one.
Mergeable(slot, i) == i + slot[i].length < SlotCount /\ ~Successor(slot, i).used

Merged(slot, i) == [slot EXCEPT ![i].length = @ + Successor(slot, i).length]

\* Seeded fault: what is left keeps the length of the whole.
Split_RestTooLong(slot, i, length, required) ==
  IF length > required
    THEN [slot EXCEPT ![i] = Header(required, TRUE),
                      ![i + required] = Header(length, FALSE)]
    ELSE [slot EXCEPT ![i] = Header(length, TRUE)]

\* Cut the span at i, of the given length, down to `required` slots.
Split(slot, i, length, required) ==
  IF length > required
    THEN [slot EXCEPT ![i] = Header(required, TRUE),
                      ![i + required] = Header(length - required, FALSE)]
    ELSE [slot EXCEPT ![i] = Header(length, TRUE)]

-----------------------------------------------------------------------------
(* slot_allocator_allocate, on behalf of malloc_impl or of a reallocation *)

\* Begin with the first arena; slot_allocator() creates it on the first call.
Malloc(t, tag, size) ==
  /\ pc[t] = "idle" /\ ~InUse(tag) /\ calls < MaxCalls
  /\ calls' = calls + 1
  /\ call' = [call EXCEPT ![t] = [tag |-> tag, size |-> size, old |-> <<>>]]
  /\ Goto(t, "enter")
  /\ MoveTo(t, 1, 0)
  /\ UNCHANGED <<arenas, owned, grown, adrift>>

\* Enter arena pos.arena at its cursor, creating it when the chain ends before it.
Enter(t) ==
  /\ pc[t] = "enter"
  /\ LET a == pos[t].arena IN
       \/ /\ a <= Len(arenas)
          /\ Goto(t, "scan")
          /\ MoveTo(t, a, arenas[a].cursor)
          /\ UNCHANGED <<arenas, owned, call, grown>>
       \/ /\ a > Len(arenas) /\ Len(arenas) < MaxArenas
          /\ arenas' = Append(arenas, Fresh)
          /\ Goto(t, "scan")
          /\ MoveTo(t, a, 0)
          /\ grown' = [grown EXCEPT ![t] = @ + 1]
          /\ UNCHANGED <<owned, call>>
       \/ /\ a > Len(arenas) /\ Len(arenas) = MaxArenas
          /\ owned' = IF call[t].old = <<>> THEN owned
                      ELSE Owning(call[t].tag, call[t].old.arena, call[t].old.at, call[t].old.size)
          /\ Done(t)
          /\ UNCHANGED arenas
  /\ UNCHANGED <<calls, adrift>>

\* Look at the span at pos: a used one is skipped, another is merged with what
\* follows.  A header that is none is read as any number: the thread goes wild.
Scan(t) ==
  /\ pc[t] = "scan" /\ pos[t].at < SlotCount
  /\ LET a == pos[t].arena
         i == pos[t].at
         slot == arenas[a].slot
     IN \/ /\ slot[i].length <= 0
           /\ Goto(t, "wild")
           /\ UNCHANGED pos
        \/ /\ slot[i].length > 0 /\ slot[i].used
           /\ MoveTo(t, a, i + slot[i].length)
           /\ UNCHANGED pc
        \/ /\ slot[i].length > 0 /\ ~slot[i].used
           /\ Goto(t, "merge")
           /\ UNCHANGED pos
  /\ UNCHANGED <<arenas, owned, call, grown, calls, adrift>>

\* One iteration of the loop that merges; behind it, whether the span is large
\* enough.
Merge(t) ==
  /\ pc[t] = "merge"
  /\ LET a == pos[t].arena
         i == pos[t].at
         slot == arenas[a].slot
     IN \/ /\ Mergeable(slot, i) /\ Successor(slot, i).length <= 0
           /\ Goto(t, "wild")
           /\ UNCHANGED <<arenas, pos>>
        \/ /\ Mergeable(slot, i) /\ Successor(slot, i).length > 0
           /\ arenas' = [arenas EXCEPT ![a].slot = Merged(slot, i)]
           /\ UNCHANGED <<pc, pos>>
        \/ /\ ~Mergeable(slot, i) /\ slot[i].length < RequiredSlots(call[t].size)
           /\ Goto(t, "scan")
           /\ MoveTo(t, a, i + slot[i].length)
           /\ UNCHANGED arenas
        \/ /\ ~Mergeable(slot, i) /\ slot[i].length >= RequiredSlots(call[t].size)
           /\ Goto(t, "take")
           /\ UNCHANGED <<arenas, pos>>
  /\ UNCHANGED <<owned, call, grown, calls, adrift>>

\* The end of the arena: on to the next one.
ScanEnd(t) == /\ pc[t] = "scan" /\ pos[t].at >= SlotCount
              /\ Goto(t, "enter")
              /\ MoveTo(t, pos[t].arena + 1, 0)
              /\ UNCHANGED <<arenas, owned, call, grown, calls, adrift>>

\* Use the span found, split off what is left of it, set the cursor behind it.
\* A reallocation then frees the old span (memcpy moves no state of ours).
Take(t) ==
  /\ pc[t] = "take"
  /\ LET a == pos[t].arena
         i == pos[t].at
         c == call[t]
         slot == arenas[a].slot
         required == RequiredSlots(c.size)
         taken == Split(slot, i, slot[i].length, required)
         after == [arenas EXCEPT ![a] = [cursor |-> i + required,
                                         slot |-> Filled(taken, i, c.size)]]
     IN /\ arenas' = IF c.old = <<>> THEN after
                     ELSE [after EXCEPT ![c.old.arena].slot[c.old.at].used = FALSE]
        /\ owned' = Owning(c.tag, a, i, c.size)
        /\ Done(t)
  /\ UNCHANGED <<calls, adrift>>

-----------------------------------------------------------------------------
(* slot_allocator_deallocate *)

Free(t, tag) ==
  /\ pc[t] = "idle" /\ tag \in DOMAIN owned /\ calls < MaxCalls
  /\ calls' = calls + 1
  /\ LET a == owned[tag].arena
         i == owned[tag].at
     IN arenas' = [arenas EXCEPT ![a].slot[i].used = FALSE,
                                 ![a].cursor = IF i < @ THEN i ELSE @]
  /\ owned' = NotOwning(tag)
  /\ UNCHANGED <<pc, call, pos, grown, adrift>>

-----------------------------------------------------------------------------
(* slot_allocator_reallocate *)

\* The block of tag is to get another size.
Realloc(t, tag, size) ==
  /\ pc[t] = "idle" /\ tag \in DOMAIN owned /\ calls < MaxCalls
  /\ calls' = calls + 1
  /\ call' = [call EXCEPT ![t] = [tag |-> tag, size |-> size, old |-> owned[tag]]]
  /\ owned' = NotOwning(tag)
  /\ Goto(t, "expand")
  /\ MoveTo(t, owned[tag].arena, owned[tag].at)
  /\ UNCHANGED <<arenas, grown, adrift>>

\* The cursor of the arena is inside the span at i.
CursorInside(arena, i) == i < arena.cursor /\ arena.cursor < i + arena.slot[i].length

\* One iteration of the loop that merges the span with unused spans behind it.
\* When that ends, what is too much is given back; if the span has the required
\* length the cursor goes behind it and the call is done, else another span is
\* searched and the cursor stays where it is, be that inside the span or not.
Expand(t) ==
  /\ pc[t] = "expand"
  /\ LET a == pos[t].arena
         i == pos[t].at
         c == call[t]
         slot == arenas[a].slot
         required == RequiredSlots(c.size)
         more == Mergeable(slot, i) /\ slot[i].length <= required
     IN \/ /\ slot[i].length <= 0 \/ (more /\ Successor(slot, i).length <= 0)
           /\ Goto(t, "wild")
           /\ UNCHANGED <<arenas, owned, call, pos, grown, adrift>>
        \/ /\ slot[i].length > 0 /\ more /\ Successor(slot, i).length > 0
           /\ arenas' = [arenas EXCEPT ![a].slot = Merged(slot, i)]
           /\ UNCHANGED <<owned, pc, call, pos, grown, adrift>>
        \/ /\ slot[i].length > 0 /\ ~more /\ slot[i].length >= required
           /\ arenas' = [arenas EXCEPT ![a] =
                           [cursor |-> i + required,
                            slot |-> Filled(Split(slot, i, slot[i].length, required), i, c.size)]]
           /\ owned' = Owning(c.tag, a, i, c.size)
           /\ Done(t)
           /\ UNCHANGED adrift
        \/ /\ slot[i].length > 0 /\ ~more /\ slot[i].length < required
           /\ adrift' = (adrift \/ CursorInside(arenas[a], i))
           /\ Goto(t, "enter")
           /\ MoveTo(t, 1, 0)
           /\ UNCHANGED <<arenas, owned, call, grown>>
  /\ UNCHANGED calls

-----------------------------------------------------------------------------
\* Clients that have made all their calls stop.  What a wild thread does to the
\* memory is not followed.
Finished == /\ \/ calls = MaxCalls /\ \A t \in Thread : pc[t] = "idle"
               \/ \E t \in Thread : pc[t] = "wild"
            /\ UNCHANGED vars

Step(t) == Enter(t) \/ Scan(t) \/ Merge(t) \/ ScanEnd(t) \/ Take(t) \/ Expand(t)

Next == \/ \E t \in Thread, tag \in Tag :
             \/ \E size \in MallocSize : Malloc(t, tag, size)
             \/ \E size \in ReallocSize : Realloc(t, tag, size)
             \/ Free(t, tag)
        \/ \E t \in Thread : Step(t)
        \/ Finished

Spec == Init /\ [][Next]_vars

-----------------------------------------------------------------------------
(* Properties *)

\* All the client may use: what it holds and what is being reallocated.
Held == {owned[g] : g \in DOMAIN owned}
          \cup {call[t].old : t \in {u \in Thread : call[u].old # <<>>}}
Slots(o) == {<<o.arena, i>> : i \in o.at .. o.at + RequiredSlots(o.size) - 1}

\* No two allocations share a slot ("Memory regions overlap!" of the tests), and
\* none is larger than its arena, until a reallocation that merges the span under
\* the cursor with its own, finds that too small and looks elsewhere has left the
\* cursor inside (slot_allocator.c:205).  A later search may begin there, at a
\* header that belongs to no span any more: then allocations do overlap.
NoOverlap ==
  ~adrift =>
    /\ \A g, h \in DOMAIN owned :
         g # h => Slots(owned[g]) \cap Slots(owned[h]) = {}
    /\ \A o, p \in Held : o # p => Slots(o) \cap Slots(p) = {}
    /\ \A o \in Held : \A s \in Slots(o) : s[2] \in Slot

\* slot_allocator_check_integrity: a walk that begins at slot 0 passes the spans
\* that begin at the slots S, none of them empty, and ends where the arena ends.
slot_allocator_check_integrity(slot, S) ==
  /\ 0 \in S
  /\ \A i \in S : /\ slot[i].length > 0
                  /\ i + slot[i].length \in S \cup {SlotCount}
                  /\ \A j \in S : j <= i \/ i + slot[i].length <= j

\* When no call is in progress, and no cursor has been left inside a span: the
\* spans of an arena fill it, the next search of it begins at one of them or at
\* its end, and the used ones are the client's, large enough each.
SpansTile ==
  ~adrift /\ (\A t \in Thread : pc[t] = "idle") =>
    \A a \in DOMAIN arenas : \E S \in SUBSET Slot :
      LET slot == arenas[a].slot
          here == {o \in Held : o.arena = a}
      IN /\ slot_allocator_check_integrity(slot, S)
         /\ arenas[a].cursor \in S \cup {SlotCount}
         /\ {i \in S : slot[i].used} = {o.at : o \in here}
         /\ \A o \in here : slot[o.at].length >= RequiredSlots(o.size)

\* A call whose size an arena has room for asks the kernel for one arena at most,
\* cursors inside spans or not.  A larger one, which realloc_impl sends here too
\* (allocator.c:53), asks again and again, until the kernel refuses
\* (slot_allocator.c:122).
OneArenaPerCall ==
  \A t \in Thread : RequiredSlots(call[t].size) <= SlotCount => grown[t] <= 1
=============================================================================
