------------------------------- MODULE RefTlc -------------------------------
(***************************************************************************)
(* Reference handles with thread-local deferred decrements                 *)
(* (src/hirpdag_hashconsing/src/reference/tlc.rs: TlcInner, release_strong,*)
(* DeferredDecs, RefTlc and RefTlcWeak).                                   *)
(*                                                                         *)
(* The drop of a strong handle is noted in a buffer of its thread and      *)
(* applied to the shared counter when the buffer is flushed; a clone or an *)
(* upgrade on the same thread may take a noted drop back instead of        *)
(* counting up.  Applying a decrement may destroy a value, whose fields    *)
(* are handles again: their drops go back to the buffer, which may flush   *)
(* while the outer flush is under way.  `agenda' is that call stack.       *)
(*                                                                         *)
(* A value has at most one field that is a handle.  An object stands for   *)
(* its address: that no buffer ever names a freed one (HandlesValid) is    *)
(* why the reuse of addresses makes no difference.  Threads may use each   *)
(* other's handles, and atomics are sequentially consistent, as in RefSep. *)
(***************************************************************************)
EXTENDS Naturals, SequencesExt

CONSTANTS
  Threads,
  Objects,      (* heap values, each created at most once                  *)
  Handles,      (* handle identities, reused once their handle is dropped  *)
  FLUSH_OPS,
  FLUSH_ENTRIES,
  NoHandle

ASSUME TlcAssumption ==
  /\ FLUSH_OPS \in Nat \ {0}
  /\ FLUSH_ENTRIES \in Nat \ {0}
  /\ IsFiniteSet(Threads) /\ IsFiniteSet(Objects) /\ IsFiniteSet(Handles)
  /\ NoHandle \notin Handles

VARIABLES
  strong,       (* strong[o], weak[o]: the counters of o's TlcInner        *)
  weak,
  memory,       (* memory[o]: what became of the TlcInner and its data     *)
  field,        (* field[o]: the handle in the data of o                   *)
  strongs,      (* strongs[o], weaks[o]: the handles of o that exist       *)
  weaks,
  map,          (* map[t][o]: decrements t has deferred (0: no entry)      *)
  ops_since_flush,
  local,        (* whether t's TLC_DEFERRED is there (false: t exits)      *)
  agenda,       (* what t has to do before its drop or exit is over        *)
  upgrade       (* t's unfinished upgrade: object, weak handle, `n'        *)

handles == <<strongs, weaks>>
buffer == <<map, ops_since_flush, local>>
vars == <<strong, weak, memory, field, handles, buffer, agenda, upgrade>>

Nothing == [o \in Objects |-> 0]
NoUpgrade == <<>>

Tasks ==
  ({"apply"} \X [Objects -> Nat])
    \cup ({"destroy", "release", "free"} \X Objects) \cup ({"drop"} \X Handles)

TypeOK ==
  /\ strong \in [Objects -> Nat]
  /\ weak \in [Objects -> Nat]
  /\ memory \in [Objects -> {"unborn", "live", "dropped", "freed"}]
  /\ field \in [Objects -> Handles \cup {NoHandle}]
  /\ strongs \in [Objects -> SUBSET Handles]
  /\ weaks \in [Objects -> SUBSET Handles]
  /\ map \in [Threads -> [Objects -> Nat]]
  /\ ops_since_flush \in [Threads -> 0 .. FLUSH_OPS - 1]
  /\ local \in [Threads -> BOOLEAN]
  /\ agenda \in [Threads -> Seq(Tasks)]
  /\ upgrade \in [Threads -> (Objects \X Handles \X Nat) \cup {NoUpgrade}]

Init ==
  /\ strong = Nothing
  /\ weak = Nothing
  /\ memory = [o \in Objects |-> "unborn"]
  /\ field = [o \in Objects |-> NoHandle]
  /\ strongs = [o \in Objects |-> {}]
  /\ weaks = [o \in Objects |-> {}]
  /\ map = [t \in Threads |-> Nothing]
  /\ ops_since_flush = [t \in Threads |-> 0]
  /\ local = [t \in Threads |-> TRUE]
  /\ agenda = [t \in Threads |-> <<>>]
  /\ upgrade = [t \in Threads |-> NoUpgrade]

Fresh(h) == \A o \in Objects : h \notin strongs[o] /\ h \notin weaks[o]

(* Handles in the data of an object, and those a destructor is dropping,   *)
(* are not the program's to drop or to move into a new value.              *)
InData(h) == \E o \in Objects : field[o] = h
Doomed(h) == \E t \in Threads : <<"drop", h>> \in ToSet(agenda[t])
Owned(h) == ~InData(h) /\ ~Doomed(h)

(* The program reaches the objects it has handles of and, from an object   *)
(* it reaches, the one in its data.                                        *)
OwnedOf(o) == {h \in strongs[o] : Owned(h)}
Closed(S) == \A p \in S, o \in Objects : field[p] \in strongs[o] => o \in S
Reached(o) ==
  \A S \in SUBSET Objects :
    (Closed(S) /\ \A p \in Objects : OwnedOf(p) # {} => p \in S) => o \in S

Idle(t) == agenda[t] = <<>> /\ upgrade[t] = NoUpgrade
Borrowed(h) == \E t \in Threads : upgrade[t] # NoUpgrade /\ upgrade[t][2] = h
-----------------------------------------------------------------------------
(***************************************************************************)
(* The buffer.  An operator here or below that nothing uses is a bug the   *)
(* next one could have.                                                    *)
(***************************************************************************)
BeyondFlush(ops, entries) == ops > FLUSH_OPS \/ entries > FLUSH_ENTRIES
FlushDue(ops, entries) == ops >= FLUSH_OPS \/ entries >= FLUSH_ENTRIES

Entries(f) == {o \in Objects : f[o] > 0}
Apply(f) == IF Entries(f) = {} THEN <<>> ELSE << <<"apply", f>> >>
One(o) == [Nothing EXCEPT ![o] = 1]

(* Drop of a strong handle of o, after which t goes on with `rest':        *)
(* tlc_defer, or the shared counter when the buffer is gone.               *)
DropStrong(t, o, h, rest) ==
  LET deferred == [map[t] EXCEPT ![o] = @ + 1]
      due == FlushDue(ops_since_flush[t] + 1, Cardinality(Entries(deferred)))
  IN  /\ strongs' = [strongs EXCEPT ![o] = @ \ {h}]
      /\ IF local[t]
         THEN /\ map' = [map EXCEPT ![t] = IF due THEN Nothing ELSE deferred]
              /\ ops_since_flush' = [ops_since_flush EXCEPT ![t] = IF due THEN 0 ELSE @ + 1]
              /\ agenda' = [agenda EXCEPT ![t] = (IF due THEN Apply(deferred) ELSE <<>>) \o rest]
         ELSE /\ agenda' = [agenda EXCEPT ![t] = Apply(One(o)) \o rest]
              /\ UNCHANGED <<map, ops_since_flush>>
      /\ UNCHANGED <<strong, weak, memory, field, weaks, local, upgrade>>

(* consume: an increment is set off against a decrement of the same object *)
(* that the same thread deferred, never buffered itself.                   *)
KeepsEntry(t, o) == map
Consume(t, o) == [map EXCEPT ![t][o] = @ - 1]
Always(t, o) == local[t]
Consumable(t, o) == map[t][o] > 0
-----------------------------------------------------------------------------
(* RefTlc::new: the value, with a handle c moved into it, behind a strong  *)
(* handle; one weak count is held by all strong ones.                      *)
New(t, o, h, c) ==
  /\ Idle(t)
  /\ memory[o] = "unborn"
  /\ Fresh(h)
  /\ c = NoHandle \/ \E p \in Objects : c \in OwnedOf(p)
  /\ memory' = [memory EXCEPT ![o] = "live"]
  /\ strong' = [strong EXCEPT ![o] = 1]
  /\ weak' = [weak EXCEPT ![o] = 1]
  /\ strongs' = [strongs EXCEPT ![o] = {h}]
  /\ field' = [field EXCEPT ![o] = c]
  /\ UNCHANGED <<weaks, buffer, agenda, upgrade>>

StrongClone(t, o, h) ==
  /\ Idle(t)
  /\ Reached(o)
  /\ Fresh(h)
  /\ strongs' = [strongs EXCEPT ![o] = @ \cup {h}]
  /\ IF Consumable(t, o)
     THEN map' = Consume(t, o) /\ UNCHANGED strong
     ELSE strong' = [strong EXCEPT ![o] = @ + 1] /\ UNCHANGED map
  /\ UNCHANGED <<weak, memory, field, weaks, ops_since_flush, local, agenda, upgrade>>

WeakDowngrade(t, o, h) ==
  /\ Idle(t)
  /\ Reached(o)
  /\ Fresh(h)
  /\ weak' = [weak EXCEPT ![o] = @ + 1]
  /\ weaks' = [weaks EXCEPT ![o] = @ \cup {h}]
  /\ UNCHANGED <<strong, memory, field, strongs, buffer, agenda, upgrade>>

StrongDrop(t, o, h) ==
  /\ Idle(t)
  /\ h \in OwnedOf(o)
  /\ DropStrong(t, o, h, <<>>)

(* Drop for RefTlcWeak; the last one frees the allocation.                 *)
WeakDrop(t, o, h) ==
  /\ Idle(t)
  /\ h \in weaks[o]
  /\ ~Borrowed(h)
  /\ weaks' = [weaks EXCEPT ![o] = @ \ {h}]
  /\ weak' = [weak EXCEPT ![o] = @ - 1]
  /\ agenda' = [agenda EXCEPT ![t] = IF weak[o] = 1 THEN << <<"free", o>> >> ELSE <<>>]
  /\ UNCHANGED <<strong, memory, field, strongs, buffer, upgrade>>
-----------------------------------------------------------------------------
(***************************************************************************)
(* weak_upgrade: a decrement this thread deferred is taken back, or else   *)
(* the shared counter goes up in a compare-exchange loop.                  *)
(***************************************************************************)
UpgradeConsume(t, o, g, h) ==
  /\ Idle(t)
  /\ g \in weaks[o]
  /\ Fresh(h)
  /\ Consumable(t, o)
  /\ map' = Consume(t, o)
  /\ strongs' = [strongs EXCEPT ![o] = @ \cup {h}]
  /\ UNCHANGED <<strong, weak, memory, field, weaks, ops_since_flush, local, agenda, upgrade>>

(* None when the counter is 0; otherwise the exchange is tried with it.    *)
TriesAlways(o, g, n) == <<o, g, n>>
Tries(o, g, n) == IF n = 0 THEN NoUpgrade ELSE <<o, g, n>>

UpgradeLoad(t, o, g) ==
  /\ Idle(t)
  /\ g \in weaks[o]
  /\ ~Consumable(t, o)
  /\ upgrade' = [upgrade EXCEPT ![t] = Tries(o, g, strong[o])]
  /\ UNCHANGED <<strong, weak, memory, field, handles, buffer, agenda>>

UpgradeExchange(t, h) ==
  /\ upgrade[t] # NoUpgrade
  /\ Fresh(h)
  /\ LET o == upgrade[t][1]
         n == upgrade[t][3]
     IN  /\ strong[o] = n
         /\ strong' = [strong EXCEPT ![o] = n + 1]
         /\ strongs' = [strongs EXCEPT ![o] = @ \cup {h}]
  /\ upgrade' = [upgrade EXCEPT ![t] = NoUpgrade]
  /\ UNCHANGED <<weak, memory, field, weaks, buffer, agenda>>

(* The exchange failed, perhaps spuriously.                                *)
UpgradeRetry(t) ==
  /\ upgrade[t] # NoUpgrade
  /\ upgrade' = [upgrade EXCEPT ![t] = Tries(@[1], @[2], strong[@[1]])]
  /\ UNCHANGED <<strong, weak, memory, field, handles, buffer, agenda>>
-----------------------------------------------------------------------------
(***************************************************************************)
(* The agenda of a thread: apply_pending and release_strong.               *)
(***************************************************************************)
Doing(t, kind) == agenda[t] # <<>> /\ agenda[t][1][1] = kind
Subject(t) == agenda[t][1][2]

(* release_strong, for an entry of the flushed buffer in any order.        *)
ReleaseStrong(t, o) ==
  /\ Doing(t, "apply")
  /\ LET f == Subject(t)
         last == strong[o] = f[o]
     IN  /\ o \in Entries(f)
         /\ strong' = [strong EXCEPT ![o] = @ - f[o]]
         /\ agenda' = [agenda EXCEPT ![t] =
              (IF last THEN << <<"destroy", o>>, <<"release", o>> >> ELSE <<>>)
                \o Apply([f EXCEPT ![o] = 0]) \o Tail(@)]
  /\ UNCHANGED <<weak, memory, field, handles, buffer, upgrade>>

(* The data is dropped; the handle in it is next.                          *)
Destroy(t) ==
  /\ Doing(t, "destroy")
  /\ LET o == Subject(t)
     IN  /\ memory' = [memory EXCEPT ![o] = "dropped"]
         /\ field' = [field EXCEPT ![o] = NoHandle]
         /\ agenda' = [agenda EXCEPT ![t] =
              (IF field[o] = NoHandle THEN <<>> ELSE << <<"drop", field[o]>> >>) \o Tail(@)]
  /\ UNCHANGED <<strong, weak, handles, buffer, upgrade>>

DropField(t, o) ==
  /\ Doing(t, "drop")
  /\ Subject(t) \in strongs[o]
  /\ DropStrong(t, o, Subject(t), Tail(agenda[t]))

(* The weak count the strong handles held together.                        *)
ReleaseWeak(t) ==
  /\ Doing(t, "release")
  /\ LET o == Subject(t)
     IN  /\ weak' = [weak EXCEPT ![o] = @ - 1]
         /\ agenda' = [agenda EXCEPT ![t] =
              (IF weak[o] = 1 THEN << <<"free", o>> >> ELSE <<>>) \o Tail(@)]
  /\ UNCHANGED <<strong, memory, field, handles, buffer, upgrade>>

Free(t) ==
  /\ Doing(t, "free")
  /\ memory' = [memory EXCEPT ![Subject(t)] = "freed"]
  /\ agenda' = [agenda EXCEPT ![t] = Tail(@)]
  /\ UNCHANGED <<strong, weak, field, handles, buffer, upgrade>>

(* Thread exit destroys the buffer: it cannot be entered any more, and     *)
(* what it holds is applied.  Destructors that run later on the thread     *)
(* count directly.                                                         *)
Forgotten(t) == <<>>
Pending(t) == Apply(map[t])

Exit(t) ==
  /\ Idle(t)
  /\ local[t]
  /\ local' = [local EXCEPT ![t] = FALSE]
  /\ map' = [map EXCEPT ![t] = Nothing]
  /\ ops_since_flush' = [ops_since_flush EXCEPT ![t] = 0]
  /\ agenda' = [agenda EXCEPT ![t] = Pending(t)]
  /\ UNCHANGED <<strong, weak, memory, field, handles, upgrade>>
-----------------------------------------------------------------------------
Work(t) ==
  \/ \E o \in Objects : ReleaseStrong(t, o) \/ DropField(t, o)
  \/ Destroy(t) \/ ReleaseWeak(t) \/ Free(t)

Next ==
  \E t \in Threads :
    \/ \E o \in Objects, h \in Handles :
          \/ \E c \in Handles \cup {NoHandle} : New(t, o, h, c)
          \/ StrongClone(t, o, h) \/ WeakDowngrade(t, o, h)
          \/ StrongDrop(t, o, h) \/ WeakDrop(t, o, h)
          \/ \E g \in Handles : UpgradeConsume(t, o, g, h)
          \/ UpgradeLoad(t, o, h)
    \/ \E h \in Handles : UpgradeExchange(t, h)
    \/ UpgradeRetry(t)
    \/ Work(t)
    \/ Exit(t)

Spec == Init /\ [][Next]_vars

(* A drop, a flush or an exit that has begun runs to its end; nothing      *)
(* makes a thread drop its handles, flush or exit.                         *)
Fairness == \A t \in Threads : WF_vars(Work(t))
FairSpec == Spec /\ Fairness
-----------------------------------------------------------------------------
(* A sum of naturals: the number of pairs of an x and one of 1 .. f[x].    *)
Units(f) == UNION {{x} \X (1 .. f[x]) : x \in DOMAIN f}
Sum(f) == Cardinality(Units(f))

(* Decrements of o that were deferred and are not applied.                 *)
Applies(task, o) == IF task[1] = "apply" THEN task[2][o] ELSE 0
Applied(tasks, o) == Sum([i \in DOMAIN tasks |-> Applies(tasks[i], o)])
ToApply(t, o) == map[t][o] + Applied(agenda[t], o)
Deferred(o) == Sum([t \in Threads |-> ToApply(t, o)])
Waits(kind, o) == \E t \in Threads : <<kind, o>> \in ToSet(agenda[t])

(* The shared counter is the handles that exist and the deferred drops of  *)
(* those that do not, whatever thread cloned, dropped or upgraded which:   *)
(* no decrement is lost, applied twice, or taken back twice.               *)
CountsExact ==
  \A o \in Objects : memory[o] \notin {"unborn", "freed"} =>
    /\ strong[o] = Cardinality(strongs[o]) + Deferred(o)
    /\ weak[o] = Cardinality(weaks[o])
                   + (IF strong[o] > 0 \/ Waits("destroy", o) \/ Waits("release", o)
                      THEN 1 ELSE 0)

(* "Objects are freed late, never early": what a handle refers to is       *)
(* there, and so is what a deferred decrement will be applied to.          *)
HandlesValid ==
  \A o \in Objects :
    /\ strongs[o] # {} \/ Deferred(o) > 0 => memory[o] = "live"
    /\ weaks[o] # {} \/ Waits("release", o) \/ Waits("free", o) => memory[o] \in {"live", "dropped"}
    /\ Waits("destroy", o) => memory[o] = "live"

(* How late: a thread defers fewer than FLUSH_OPS decrements, of fewer     *)
(* than FLUSH_ENTRIES objects, at a time.                                  *)
BufferBounded ==
  \A t \in Threads :
    /\ Sum(map[t]) < FLUSH_OPS
    /\ Cardinality(Entries(map[t])) < FLUSH_ENTRIES

(* The handles implement the contract of the traits: an object expires     *)
(* when the last deferred decrement is applied.                            *)
Allocated == {o \in Objects : memory[o] \in {"live", "dropped"}}
Lifetime ==
  [o \in Objects |->
     CASE memory[o] = "freed" -> "dropped"
       [] memory[o] = "live" /\ strong[o] = 0 -> "expired"
       [] OTHER -> memory[o]]
Contract == INSTANCE Reference WITH held <- Allocated, data <- Lifetime
ImplementsReference == Contract!Spec

(* When every thread exits, what has no handles is freed: also what only   *)
(* a destructor of the final flush let go.                                 *)
FreedAtExit ==
  \A o \in Objects :
    (memory[o] # "unborn" /\ strongs[o] = {} /\ weaks[o] = {} /\ \A t \in Threads : ~local[t])
      ~> memory[o] = "freed"
=============================================================================
