---------------------------- MODULE GarmentProofs ----------------------------
(***************************************************************************)
(* Of every garment on which no update was lost: what circulates has been  *)
(* checked, is fit, and every return is recorded on its order, for any     *)
(* number of garments, orders, batches and overlapping requests.           *)
(* (MCClaimRetired shows a lost update.)                                   *)
(*                                                                         *)
(* The argument: Owed bounds the checks a garment may still owe by its     *)
(* stage alone, and what a request has read of a garment stays good enough *)
(* until it writes, unless another request moved it (missed): placing and  *)
(* paying an order only take garments from the rack, and take nothing off  *)
(* the list of checks done.                                                *)
(***************************************************************************)
EXTENDS GarmentLifecycle, TLAPS

(* The garments of which what a request has read still counts.             *)
Sure(w) == Units \ (missed[w] \cup lost)

(* The checks a garment may still owe at a stage.                          *)
Owed(s) == IF s \in {"rented", "retired"} THEN Checks
           ELSE IF s \in {"inspection", "laundry"} THEN {"quality"} ELSE {}

UnitInv(u) ==
  /\ due[u] \subseteq Owed(stage[u])
  /\ stage[u] \in {"available", "sold"} \/ (stage[u] = "reserved" /\ owner[u] # None) => condition[u] = "fit"
  /\ stage[u] = "available" => owner[u] = None

OrderInv(o) ==
  /\ left[o] \subseteq ItemsOf[o]
  /\ \A u \in left[o] \ lost : u \in back[o] \/ (stage[u] = "rented" /\ owner[u] = o)

(* What a request that is about to write may rely on.                      *)
MoveInv(t) ==
  /\ due[t.unit] \ {Arrival(t.to)} \subseteq Owed(Arrival(t.to))
  /\ t.to = "available" => t.condition = "fit"
  /\ t.to = "reserved" => t.order = None
  /\ stage[t.unit] = "rented" => t.to = "returned" /\ t.order = owner[t.unit]

Fits(t) ==
  /\ t.pc = "transition" => t.unit \in Units /\ Arrival(t.to) \notin {"returned", "sold"}
  /\ t.pc = "create" => t.batch \in Batches
  /\ t.pc \in {"advance", "advance_units"} => t.batch \in Batches /\ t.at \in DOMAIN BatchSequence
  /\ t.pc = "advance_units" => t.units = {} \/ BatchSequence[t.at] \in {"quality", "ready"}
  /\ t.pc = "close" => t.order \in Orders
  /\ t.pc = "ship" => t.order \in Orders /\ t.units \subseteq ItemsOf[t.order]

JobInv(w) ==
  /\ Fits(job[w])
  /\ At(w, "transition") /\ job[w].unit \in Sure(w) => MoveInv(job[w])
  /\ At(w, "advance_units") => \A u \in job[w].units \cap Sure(w) :
       due[u] \subseteq {BatchSequence[job[w].at]} /\ stage[u] # "rented"
  /\ At(w, "close") => \A u \in job[w].units \cap Sure(w) :
       due[u] = {} /\ condition[u] = "fit" /\ stage[u] # "rented"
  /\ At(w, "ship") => \A u \in job[w].units \cap Sure(w) : stage[u] # "rented"

IInv ==
  /\ TypeOK
  /\ \A u \in Units \ lost : UnitInv(u)
  /\ \A o \in Orders : OrderInv(o)
  /\ \A w \in Workers : JobInv(w)

-----------------------------------------------------------------------------
(* The table of moves, and the one write of stages.                        *)

LEMMA Table ==
  \A s \in Stages : \A to \in Moves[s] :
    /\ to \in Stages
    /\ Arrival(to) \in Stages \ {"returned", "sold"}
    /\ Owed(s) \ {Arrival(to)} \subseteq Owed(Arrival(to))
    /\ s = "rented" => to = "returned"
    /\ to = "reserved" => s = "available"
BY DEF Stages, Moves, Arrival, Owed, Checks

LEMMA Sequence ==
  /\ Len(BatchSequence) = 6
  /\ DOMAIN BatchSequence = 1..6
  /\ \A i \in 1..6 : BatchSequence[i] \in DOMAIN FromStage => BatchSequence[i] \in {"quality", "ready"}
  /\ Owed("laundry") \subseteq {"quality"} /\ Owed("quality") = {}
BY DEF BatchSequence, FromStage, Owed

LEMMA Reaching ==
  ASSUME stage \in [Units -> Stages \ {"returned"}], due \in [Units -> SUBSET Checks],
         NEW S, NEW s, Reach(S, s)
  PROVE  /\ \A u \in Units : u \in S => stage'[u] = s /\ due'[u] = (IF s = "rented" THEN Checks ELSE due[u] \ {s})
         /\ \A u \in Units : u \notin S => stage'[u] = stage[u] /\ due'[u] = due[u]
         /\ S = {} \/ s \in Stages \ {"returned"} => stage' \in [Units -> Stages \ {"returned"}]
         /\ due' \in [Units -> SUBSET Checks]
BY DEF Reach

LEMMA Owning ==
  ASSUME owner \in [Units -> Orders \cup {None}], NEW S, NEW o \in Orders \cup {None}, OwnedBy(S, o)
  PROVE  /\ owner' \in [Units -> Orders \cup {None}]
         /\ \A u \in Units : owner'[u] = IF u \in S THEN o ELSE owner[u]
BY DEF OwnedBy

LEMMA Tasks ==
  /\ Idle \in JobType /\ Idle.pc = "idle"
  /\ \A u \in Units, to \in Stages, c \in Conditions, o \in Orders \cup {None} :
       [Idle EXCEPT !.pc = "transition", !.unit = u, !.to = to, !.condition = c, !.order = o] \in JobType
  /\ \A b \in Batches, S \in SUBSET Units : [Idle EXCEPT !.pc = "create", !.batch = b, !.units = S] \in JobType
  /\ \A b \in Batches, i \in 0..Len(BatchSequence) :
       [Idle EXCEPT !.pc = "advance", !.batch = b, !.at = i] \in JobType
  /\ \A t \in JobType, S \in SUBSET Units : [t EXCEPT !.pc = "advance_units", !.units = S] \in JobType
  /\ \A o \in Orders, S \in SUBSET Units :
       /\ [Idle EXCEPT !.pc = "close", !.order = o, !.units = S] \in JobType
       /\ [Idle EXCEPT !.pc = "ship", !.order = o, !.units = S] \in JobType
<1>1. Idle \in JobType /\ Idle.pc = "idle"
  BY Sequence DEF Idle, JobType, Stages, Conditions
<1>2. \A u \in Units, to \in Stages, c \in Conditions, o \in Orders \cup {None} :
        [Idle EXCEPT !.pc = "transition", !.unit = u, !.to = to, !.condition = c, !.order = o] \in JobType
  BY <1>1 DEF JobType
<1>3. \A b \in Batches, S \in SUBSET Units : [Idle EXCEPT !.pc = "create", !.batch = b, !.units = S] \in JobType
  BY <1>1 DEF JobType
<1>4. \A b \in Batches, i \in 0..Len(BatchSequence) :
        [Idle EXCEPT !.pc = "advance", !.batch = b, !.at = i] \in JobType
  BY <1>1 DEF JobType
<1>5. \A t \in JobType, S \in SUBSET Units : [t EXCEPT !.pc = "advance_units", !.units = S] \in JobType
  BY DEF JobType
<1>6. \A o \in Orders, S \in SUBSET Units :
        /\ [Idle EXCEPT !.pc = "close", !.order = o, !.units = S] \in JobType
        /\ [Idle EXCEPT !.pc = "ship", !.order = o, !.units = S] \in JobType
  BY <1>1 DEF JobType
<1> QED  BY <1>1, <1>2, <1>3, <1>4, <1>5, <1>6

LEMMA Doing ==
  ASSUME job \in [Workers -> JobType], NEW w \in Workers, NEW t \in JobType, Do(w, t)
  PROVE  /\ job' \in [Workers -> JobType] /\ job'[w] = t
         /\ \A v \in Workers \ {w} : job'[v] = job[v]
BY DEF Do

LEMMA Freshly ==
  ASSUME TypeOK, NEW w \in Workers, Fresh(w)
  PROVE  /\ missed' \in [Workers -> SUBSET Units] /\ lost' = lost
         /\ missed'[w] = {} /\ \A v \in Workers \ {w} : missed'[v] = missed[v]
BY DEF Fresh, TypeOK

(* What a request relies on does not depend on garments it has missed, nor *)
(* on anything but garments.                                               *)
LEMMA Untouched ==
  ASSUME NEW w \in Workers, job[w] \in JobType, JobInv(w), job'[w] = job[w], Sure(w)' \subseteq Sure(w),
         \A u \in Sure(w)' : /\ due'[u] = due[u] /\ condition'[u] = condition[u]
                             /\ stage'[u] = stage[u] /\ owner'[u] = owner[u]
  PROVE  JobInv(w)'
<1>1. job[w].unit \in Sure(w)' /\ MoveInv(job[w]) => MoveInv(job[w])'
  BY DEF MoveInv
<1>2. Fits(job[w]) /\ Fits(job[w])' 
  BY DEF JobInv, Fits
<1> QED  BY <1>1, <1>2 DEF JobInv, At

(* A request that wrote S, of which it had read T: the updates lost are    *)
(* those it had missed, and everybody else has missed these.               *)
LEMMA Overwritten ==
  ASSUME IInv, NEW w \in Workers, NEW S \in SUBSET Units, NEW T \in SUBSET S,
         Done(w), Overwrites(w, S, T),
         \A u \in Units \ S : /\ due'[u] = due[u] /\ condition'[u] = condition[u]
                              /\ stage'[u] = stage[u] /\ owner'[u] = owner[u]
  PROVE  /\ job' \in [Workers -> JobType]
         /\ missed' \in [Workers -> SUBSET Units] /\ lost' \subseteq Units
         /\ lost \subseteq lost' /\ \A u \in T \ lost' : u \in Sure(w)
         /\ \A v \in Workers : JobInv(v)'
<1>1. /\ job' \in [Workers -> JobType] /\ job'[w] = Idle
      /\ \A v \in Workers \ {w} : job'[v] = job[v]
  BY Tasks, Doing DEF Done, IInv, TypeOK
<1>2. /\ missed' \in [Workers -> SUBSET Units] /\ lost' \subseteq Units
      /\ lost \subseteq lost' /\ \A u \in T \ lost' : u \in Sure(w)
  BY DEF Overwrites, IInv, TypeOK, Sure
<1>3. ASSUME NEW v \in Workers \ {w}, ~ Free(v) PROVE JobInv(v)'
  <2>1. missed'[v] = missed[v] \cup S
    BY <1>3 DEF Overwrites
  <2>2. Sure(v)' \subseteq Sure(v) \ S
    BY <1>2, <2>1 DEF Sure
  <2>3. job[v] \in JobType /\ JobInv(v)
    BY DEF IInv, TypeOK
  <2>4. \A u \in Sure(v)' : u \in Units \ S
    BY <2>2 DEF Sure
  <2> QED  BY <1>1, <2>2, <2>3, <2>4, Untouched
<1>4. ASSUME NEW v \in Workers \ {w}, Free(v) PROVE JobInv(v)'
  <2>1. job'[v].pc = "idle"
    BY <1>1, <1>4 DEF Free
  <2> QED  BY <2>1 DEF JobInv, Fits, At
<1>5. JobInv(w)'
  <2>1. job'[w].pc = "idle"
    BY <1>1, Tasks
  <2> QED  BY <2>1 DEF JobInv, Fits, At
<1> QED  BY <1>1, <1>2, <1>3, <1>4, <1>5

(* A request that ends without moving a garment.                           *)
LEMMA Ended ==
  ASSUME IInv, NEW w \in Workers, Done(w), Fresh(w), UNCHANGED <<stage, condition, owner, due>>
  PROVE  /\ job' \in [Workers -> JobType] /\ missed' \in [Workers -> SUBSET Units] /\ lost' = lost
         /\ \A v \in Workers : JobInv(v)'
<1>1. /\ job' \in [Workers -> JobType] /\ job'[w] = Idle
      /\ \A v \in Workers \ {w} : job'[v] = job[v]
  BY Tasks, Doing DEF Done, IInv, TypeOK
<1>2. /\ missed' \in [Workers -> SUBSET Units] /\ lost' = lost
      /\ \A v \in Workers \ {w} : missed'[v] = missed[v]
  BY Freshly DEF IInv
<1>3. ASSUME NEW v \in Workers \ {w} PROVE JobInv(v)'
  <2>1. Sure(v)' = Sure(v) /\ job[v] \in JobType /\ JobInv(v)
    BY <1>2 DEF Sure, IInv, TypeOK
  <2> QED  BY <1>1, <2>1, Untouched
<1>4. JobInv(w)'
  <2>1. job'[w].pc = "idle"
    BY <1>1, Tasks
  <2> QED  BY <2>1 DEF JobInv, Fits, At
<1> QED  BY <1>1, <1>2, <1>3, <1>4

LEMMA InvInit == Init => IInv
<1> SUFFICES ASSUME Init PROVE IInv
  OBVIOUS
<1>1. TypeOK
  <2>1. NoBatch \in BatchType
    BY Sequence DEF NoBatch, BatchType
  <2>2. "available" \in Stages \ {"returned"} /\ "fit" \in Conditions /\ "none" \in Statuses
    BY DEF Stages, Conditions, Statuses
  <2> QED  BY <2>1, <2>2, Tasks DEF Init, TypeOK
<1>2. \A u \in Units \ lost : UnitInv(u)
  BY DEF Init, UnitInv
<1>3. \A o \in Orders : OrderInv(o)
  BY DEF Init, OrderInv
<1>4. \A w \in Workers : JobInv(w)
  BY Tasks DEF Init, JobInv, Fits, At
<1> QED  BY <1>1, <1>2, <1>3, <1>4 DEF IInv

-----------------------------------------------------------------------------
(* Requests that read.  Nothing but the worker's job changes.              *)

LEMMA Reads ==
  ASSUME IInv, NEW w \in Workers, NEW t \in JobType, Do(w, t), Fresh(w), UNCHANGED rows,
         (Sure(w) = Units \ lost)' => JobInv(w)'
  PROVE  IInv'
<1>1. job' \in [Workers -> JobType] /\ job'[w] = t /\ \A v \in Workers \ {w} : job'[v] = job[v]
  BY Doing DEF IInv, TypeOK
<1>2. /\ missed' \in [Workers -> SUBSET Units] /\ lost' = lost
      /\ missed'[w] = {} /\ \A v \in Workers \ {w} : missed'[v] = missed[v]
  BY Freshly DEF IInv
<1>3. TypeOK'
  BY <1>1, <1>2 DEF IInv, TypeOK, rows
<1>4. (\A u \in Units \ lost : UnitInv(u))' /\ (\A o \in Orders : OrderInv(o))'
  BY <1>2 DEF IInv, UnitInv, OrderInv, rows
<1>5. ASSUME NEW v \in Workers \ {w} PROVE JobInv(v)'
  <2>1. Sure(v)' = Sure(v) /\ job[v] \in JobType /\ JobInv(v)
    BY <1>2 DEF Sure, IInv, TypeOK
  <2> QED  BY <1>1, <2>1, Untouched DEF rows
<1>6. JobInv(w)'
  BY <1>2 DEF Sure
<1> QED  BY <1>3, <1>4, <1>5, <1>6 DEF IInv

LEMMA StepTransitionRead ==
  ASSUME IInv, NEW w \in Workers, NEW u \in Units, NEW to \in Stages, NEW c \in Conditions,
         TransitionRead(w, u, to, c)
  PROVE  IInv'
<1> DEFINE t == [Idle EXCEPT !.pc = "transition", !.unit = u, !.to = to, !.condition = c, !.order = owner[u]]
<1>1. t \in JobType /\ job'[w] = t /\ Do(w, t) /\ UNCHANGED rows /\ Fresh(w)
  BY Tasks, Doing DEF TransitionRead, IInv, TypeOK
<1>2. t.pc = "transition" /\ t.unit = u /\ t.to = to /\ t.condition = c /\ t.order = owner[u]
  BY DEF Idle
<1>3. stage[u] \in Stages /\ to \in Moves[stage[u]] /\ Arrival(to) \notin {"returned", "sold"}
  BY Table DEF TransitionRead, IInv, TypeOK
<1>4. u \notin lost => MoveInv(t)
  <2> SUFFICES ASSUME u \notin lost PROVE MoveInv(t)
    OBVIOUS
  <2>0. UnitInv(u)
    BY DEF IInv
  <2>1. due[u] \ {Arrival(to)} \subseteq Owed(Arrival(to))
    BY <1>3, <2>0, Table DEF UnitInv
  <2>2. to = "available" => c = "fit"
    BY DEF TransitionRead, OnRack, Conditions
  <2>3. to = "reserved" => owner[u] = None
    BY <1>3, <2>0, Table DEF UnitInv
  <2>4. stage[u] = "rented" => to = "returned"
    BY <1>3, Table
  <2> HIDE DEF t
  <2> QED  BY <1>2, <2>1, <2>2, <2>3, <2>4 DEF MoveInv
<1>5. (Sure(w) = Units \ lost)' => JobInv(w)'
  <2>1. lost' = lost
    BY <1>1 DEF Fresh
  <2>2. (MoveInv(t) => MoveInv(job[w])') /\ Fits(job[w])'
    <3> HIDE DEF t
    <3> QED  BY <1>1, <1>2, <1>3 DEF MoveInv, rows, Fits
  <2> HIDE DEF t
  <2> QED  BY <1>1, <1>2, <1>4, <2>1, <2>2 DEF JobInv, At
<1> HIDE DEF t
<1> QED  BY <1>1, <1>5, Reads

LEMMA StepCreateRead ==
  ASSUME IInv, NEW w \in Workers, NEW b \in Batches, NEW S \in SUBSET Units, CreateRead(w, b, S)
  PROVE  IInv'
<1> DEFINE t == [Idle EXCEPT !.pc = "create", !.batch = b, !.units = S]
<1>1. t \in JobType /\ job'[w] = t /\ Do(w, t) /\ UNCHANGED rows /\ Fresh(w)
  BY Tasks, Doing DEF CreateRead, IInv, TypeOK
<1>2. t.pc = "create" /\ t.batch = b
  BY DEF Idle
<1>3. JobInv(w)'
  <2> HIDE DEF t
  <2> QED  BY <1>1, <1>2 DEF JobInv, Fits, At
<1> HIDE DEF t
<1> QED  BY <1>1, <1>3, Reads

LEMMA StepAdvanceRead ==
  ASSUME IInv, NEW w \in Workers, NEW b \in Batches, AdvanceRead(w, b)
  PROVE  IInv'
<1> DEFINE t == [Idle EXCEPT !.pc = "advance", !.batch = b, !.at = batch[b].at + 1]
<1>1. batch[b].at + 1 \in 0..Len(BatchSequence) /\ batch[b].at + 1 \in DOMAIN BatchSequence
  BY Sequence DEF AdvanceRead
<1>2. t \in JobType /\ job'[w] = t /\ Do(w, t) /\ UNCHANGED rows /\ Fresh(w)
  BY <1>1, Tasks, Doing DEF AdvanceRead, IInv, TypeOK
<1>3. t.pc = "advance" /\ t.batch = b /\ t.at = batch[b].at + 1
  BY DEF Idle
<1>4. JobInv(w)'
  <2> HIDE DEF t
  <2> QED  BY <1>1, <1>2, <1>3 DEF JobInv, Fits, At
<1> HIDE DEF t
<1> QED  BY <1>2, <1>4, Reads

LEMMA StepAdvanceUnits ==
  ASSUME IInv, NEW w \in Workers, AdvanceUnits(w)
  PROVE  IInv'
<1> DEFINE b == job[w].batch
<1> DEFINE next == BatchSequence[job[w].at]
<1> DEFINE S == Members(b, next)
<1> DEFINE t == [job[w] EXCEPT !.pc = "advance_units", !.units = S]
<1>1. b \in Batches /\ job[w].at \in DOMAIN BatchSequence /\ job[w] \in JobType /\ batch[b] \in BatchType
  BY DEF AdvanceUnits, IInv, JobInv, Fits, At, TypeOK
<1>2. S \subseteq Units /\ \A u \in S : next \in DOMAIN FromStage /\ stage[u] = FromStage[next]
  BY <1>1 DEF Members, BatchType
<1>3. t \in JobType /\ job'[w] = t /\ Do(w, t) /\ UNCHANGED rows /\ Fresh(w)
  BY <1>1, <1>2, Tasks, Doing DEF AdvanceUnits, IInv, TypeOK
<1>4. t.pc = "advance_units" /\ t.batch = b /\ t.at = job[w].at /\ t.units = S
  BY <1>1 DEF JobType
<1>5. /\ S = {} \/ next \in {"quality", "ready"}
      /\ \A u \in S \ lost : due[u] \subseteq {next} /\ stage[u] # "rented"
  <2> SUFFICES ASSUME NEW u \in S
               PROVE  /\ next \in {"quality", "ready"}
                      /\ u \notin lost => due[u] \subseteq {next} /\ stage[u] # "rented"
    OBVIOUS
  <2>1. next \in {"quality", "ready"} /\ stage[u] = FromStage[next]
    BY <1>1, <1>2, Sequence
  <2>2. next = "quality" => stage[u] = "laundry"
    BY <2>1 DEF FromStage
  <2>3. next = "ready" => stage[u] = "quality"
    BY <2>1 DEF FromStage
  <2>4. u \notin lost => due[u] \subseteq Owed(stage[u])
    BY <1>2 DEF IInv, UnitInv
  <2> QED  BY <2>1, <2>2, <2>3, <2>4, Sequence
<1>6. (Sure(w) = Units \ lost)' => JobInv(w)'
  <2>1. lost' = lost /\ stage' = stage /\ due' = due
    BY <1>3 DEF Fresh, rows
  <2> HIDE DEF t, S
  <2> QED  BY <1>1, <1>3, <1>4, <1>5, <2>1 DEF JobInv, Fits, At
<1> HIDE DEF t
<1> QED  BY <1>3, <1>6, Reads

LEMMA StepCloseRead ==
  ASSUME IInv, NEW w \in Workers, NEW o \in Orders, CloseRead(w, o)
  PROVE  IInv'
<1> DEFINE S == Held(o)
<1> DEFINE t == [Idle EXCEPT !.pc = "close", !.order = o, !.units = S]
<1>1. t \in JobType /\ job'[w] = t /\ Do(w, t) /\ UNCHANGED rows /\ Fresh(w)
  BY Tasks, Doing DEF CloseRead, IInv, TypeOK, Held
<1>2. t.pc = "close" /\ t.order = o /\ t.units = S
  BY DEF Idle
<1>3. \A u \in S \ lost : due[u] = {} /\ condition[u] = "fit" /\ stage[u] # "rented"
  BY NoneAssumption DEF Held, IInv, UnitInv, Owed
<1>4. (Sure(w) = Units \ lost)' => JobInv(w)'
  <2>1. lost' = lost /\ stage' = stage /\ due' = due /\ condition' = condition
    BY <1>1 DEF Fresh, rows
  <2> HIDE DEF t, S
  <2> QED  BY <1>1, <1>2, <1>3, <2>1 DEF JobInv, Fits, At
<1> HIDE DEF t
<1> QED  BY <1>1, <1>4, Reads

LEMMA StepShipRead ==
  ASSUME IInv, NEW w \in Workers, NEW o \in Orders, ShipRead(w, o)
  PROVE  IInv'
<1> DEFINE S == IF o \in Buys THEN {} ELSE {u \in ItemsOf[o] : stage[u] \in Shippable}
<1> DEFINE t == [Idle EXCEPT !.pc = "ship", !.order = o, !.units = S]
<1>1. S \subseteq Units /\ S \subseteq ItemsOf[o] /\ \A u \in S : stage[u] # "rented"
  BY ItemsAssumption DEF Shippable
<1>2. t \in JobType /\ job'[w] = t /\ Do(w, t) /\ UNCHANGED rows /\ Fresh(w)
  BY <1>1, Tasks, Doing DEF ShipRead, IInv, TypeOK
<1>3. t.pc = "ship" /\ t.order = o /\ t.units = S
  BY DEF Idle
<1>4. (Sure(w) = Units \ lost)' => JobInv(w)'
  <2>1. stage' = stage
    BY <1>2 DEF rows
  <2> HIDE DEF t, S
  <2> QED  BY <1>1, <1>2, <1>3, <2>1 DEF JobInv, Fits, At
<1> HIDE DEF t
<1> QED  BY <1>2, <1>4, Reads

-----------------------------------------------------------------------------
(* Requests that write.                                                    *)

LEMMA StepTransitionWrite ==
  ASSUME IInv, NEW w \in Workers, TransitionWrite(w)
  PROVE  IInv'
<1> DEFINE u == job[w].unit
<1> DEFINE to == job[w].to
<1> DEFINE o == job[w].order
<1> DEFINE s == Arrival(to)
<1>1. /\ u \in Units /\ to \in Stages /\ o \in Orders \cup {None} /\ job[w].condition \in Conditions
      /\ s \notin {"returned", "sold"}
      /\ u \in Sure(w) => MoveInv(job[w])
  BY DEF IInv, TypeOK, JobInv, Fits, JobType, TransitionWrite, At
<1>2. s \in Stages \ {"returned", "sold"}
  BY <1>1 DEF Arrival, Stages
<1>3. /\ stage'[u] = s /\ (u \in Sure(w) => due'[u] \subseteq Owed(s))
      /\ \A v \in Units \ {u} : stage'[v] = stage[v] /\ due'[v] = due[v]
      /\ stage' \in [Units -> Stages \ {"returned"}] /\ due' \in [Units -> SUBSET Checks]
  <2>1. Reach({u}, s) /\ stage \in [Units -> Stages \ {"returned"}] /\ due \in [Units -> SUBSET Checks]
    BY DEF TransitionWrite, IInv, TypeOK
  <2>2. Owed("rented") = Checks
    BY DEF Owed
  <2>3. u \in Sure(w) => due[u] \ {s} \subseteq Owed(s)
    BY <1>1 DEF MoveInv
  <2> HIDE DEF s, u
  <2>4. /\ stage'[u] = s /\ due'[u] = (IF s = "rented" THEN Checks ELSE due[u] \ {s})
        /\ \A v \in Units \ {u} : stage'[v] = stage[v] /\ due'[v] = due[v]
        /\ stage' \in [Units -> Stages \ {"returned"}] /\ due' \in [Units -> SUBSET Checks]
    BY <1>1, <1>2, <2>1, Reaching
  <2>5. u \in Sure(w) => due'[u] \subseteq Owed(s)
    BY <2>2, <2>3, <2>4
  <2> QED  BY <2>4, <2>5
<1>4. /\ owner' \in [Units -> Orders \cup {None}]
      /\ owner'[u] = (IF to = "available" THEN None ELSE o)
      /\ \A v \in Units \ {u} : owner'[v] = owner[v]
  <2>1. OwnedBy({u}, IF to = "available" THEN None ELSE o) /\ owner \in [Units -> Orders \cup {None}]
    BY DEF TransitionWrite, IInv, TypeOK
  <2> HIDE DEF u, o, to
  <2> QED  BY <1>1, <2>1, Owning
<1>5. /\ condition' \in [Units -> Conditions] /\ condition'[u] = job[w].condition
      /\ \A v \in Units \ {u} : condition'[v] = condition[v]
  BY <1>1 DEF TransitionWrite, IInv, TypeOK
<1>6. /\ back' \in [Orders -> SUBSET Units]
      /\ \A p \in Orders : back[p] \subseteq back'[p]
      /\ to = "returned" /\ o # None /\ u \in ItemsOf[o] => u \in back'[o]
  <2>1. back \in [Orders -> SUBSET Units]
    BY DEF IInv, TypeOK
  <2>2. CASE to = "returned" /\ o # None
    <3>1. back' = [back EXCEPT ![o] = back[o] \cup ({u} \cap ItemsOf[o])] /\ o \in Orders
      BY <1>1, <2>2 DEF TransitionWrite
    <3> HIDE DEF u, o, to
    <3> QED  BY <1>1, <2>1, <3>1
  <2>3. CASE ~ (to = "returned" /\ o # None)
    BY <2>1, <2>3 DEF TransitionWrite
  <2> QED  BY <2>2, <2>3
<1>7. /\ job' \in [Workers -> JobType] /\ missed' \in [Workers -> SUBSET Units] /\ lost' \subseteq Units
      /\ lost \subseteq lost' /\ (u \notin lost' => u \in Sure(w))
      /\ \A v \in Workers : JobInv(v)'
  <2>1. Done(w) /\ Overwrites(w, {u}, {u})
    BY DEF TransitionWrite
  <2> HIDE DEF u
  <2>2. {u} \in SUBSET Units /\ {u} \in SUBSET {u}
    BY <1>1
  <2> QED  BY <1>3, <1>4, <1>5, <2>1, <2>2, Overwritten
<1>8. TypeOK'
  <2> HIDE DEF s, u, o, to
  <2> QED  BY <1>3, <1>4, <1>5, <1>6, <1>7 DEF TransitionWrite, IInv, TypeOK
<1>9. ASSUME NEW v \in Units, v \notin lost' PROVE UnitInv(v)'
  <2>0. v \notin lost /\ (v = u => u \in Sure(w))
    BY <1>7, <1>9
  <2>1. CASE v = u
    <3>1. s = "available" => to = "available"
      BY DEF Arrival
    <3>2. s = "reserved" => to = "reserved"
      BY DEF Arrival
    <3>3. to = "available" => job[w].condition = "fit"
      BY <1>1, <2>0, <2>1 DEF MoveInv
    <3>4. to = "reserved" => o = None
      BY <1>1, <2>0, <2>1 DEF MoveInv
    <3> HIDE DEF s, u, o, to
    <3> QED  BY <1>2, <1>3, <1>4, <1>5, <2>0, <2>1, <3>1, <3>2, <3>3, <3>4 DEF UnitInv
  <2>2. CASE v # u
    <3> HIDE DEF s, u, o, to
    <3> QED  BY <1>3, <1>4, <1>5, <2>0, <2>2 DEF UnitInv, IInv
  <2> QED  BY <2>1, <2>2
<1>10. ASSUME NEW p \in Orders PROVE OrderInv(p)'
  <2>1. left' = left /\ OrderInv(p)
    BY DEF TransitionWrite, IInv
  <2>2. ASSUME NEW v \in left[p], v \notin lost' PROVE v \in back'[p] \/ (stage'[v] = "rented" /\ owner'[v] = p)
    <3>1. v \in Units /\ v \in ItemsOf[p]
      BY <2>1, ItemsAssumption DEF OrderInv
    <3>2. CASE v \in back[p]
      BY <1>6, <3>2
    <3>3. CASE v \notin back[p]
      <4>1. stage[v] = "rented" /\ owner[v] = p
        BY <1>7, <2>1, <2>2, <3>3 DEF OrderInv
      <4>2. CASE v # u
        <5> HIDE DEF u
        <5> QED  BY <1>3, <1>4, <3>1, <4>1, <4>2
      <4>3. CASE v = u
        <5>1. MoveInv(job[w])
          BY <1>1, <1>7, <2>2, <4>3
        <5>2. to = "returned" /\ o = p
          BY <4>1, <4>3, <5>1 DEF MoveInv
        <5>3. o # None
          BY <5>2, NoneAssumption
        <5> HIDE DEF u, o, to
        <5> QED  BY <1>6, <3>1, <4>3, <5>2, <5>3
      <4> QED  BY <4>2, <4>3
    <3> QED  BY <3>2, <3>3
  <2> QED  BY <2>1, <2>2 DEF OrderInv
<1> QED  BY <1>7, <1>8, <1>9, <1>10 DEF IInv

LEMMA StepCreateWrite ==
  ASSUME IInv, NEW w \in Workers, CreateWrite(w)
  PROVE  IInv'
<1>1. /\ job' \in [Workers -> JobType] /\ missed' \in [Workers -> SUBSET Units] /\ lost' = lost
      /\ \A v \in Workers : JobInv(v)'
  BY Ended DEF CreateWrite
<1>2. [at |-> 1, items |-> job[w].units] \in BatchType
  BY Sequence DEF IInv, TypeOK, JobType, BatchType
<1>3. TypeOK'
  BY <1>1, <1>2 DEF CreateWrite, IInv, TypeOK
<1>4. (\A u \in Units \ lost : UnitInv(u))' /\ (\A o \in Orders : OrderInv(o))'
  BY <1>1 DEF CreateWrite, IInv, UnitInv, OrderInv
<1> QED  BY <1>1, <1>3, <1>4 DEF IInv

(* The garments S reach stage s: what of IInv survives when their checks   *)
(* and condition allow it and no garment that is out is touched.           *)
LEMMA Moved ==
  ASSUME IInv, NEW S \in SUBSET Units, NEW s, Reach(S, s), UNCHANGED <<condition, back>>,
         lost \subseteq lost',
         \A u \in Units : u \notin S => owner'[u] = owner[u],
         \A u \in S \ lost' :
                      /\ stage[u] # "rented"
                      /\ s = "rented" \/ due[u] \subseteq {s}
                      /\ s = "available" => owner'[u] = None
                      /\ s \in {"available", "sold", "reserved"} => condition[u] = "fit"
  PROVE  /\ (\A u \in Units \ lost : UnitInv(u))'
         /\ \A o \in Orders : left'[o] = left[o] => OrderInv(o)'
<1>1. /\ \A u \in Units : u \in S => stage'[u] = s /\ due'[u] = (IF s = "rented" THEN Checks ELSE due[u] \ {s})
      /\ \A u \in Units : u \notin S => stage'[u] = stage[u] /\ due'[u] = due[u]
  <2>1. stage \in [Units -> Stages \ {"returned"}] /\ due \in [Units -> SUBSET Checks]
    BY DEF IInv, TypeOK
  <2> QED  BY <2>1 DEF Reach
<1>2. ASSUME NEW u \in Units, u \notin lost' PROVE UnitInv(u)'
  <2>1. condition'[u] = condition[u] /\ UnitInv(u)
    BY <1>2 DEF IInv
  <2>2. CASE u \notin S
    BY <1>1, <2>1, <2>2 DEF UnitInv
  <2>3. CASE u \in S
    <3>1. stage'[u] = s /\ due'[u] = (IF s = "rented" THEN Checks ELSE due[u] \ {s})
      BY <1>1, <2>3
    <3>2. due'[u] \subseteq Owed(s)
      BY <1>2, <2>3, <3>1 DEF Owed
    <3> QED  BY <1>2, <2>1, <2>3, <3>1, <3>2 DEF UnitInv
  <2> QED  BY <2>2, <2>3
<1>3. ASSUME NEW o \in Orders, left'[o] = left[o] PROVE OrderInv(o)'
  <2>1. \A u \in left[o] : u \in Units
    BY ItemsAssumption DEF IInv, OrderInv
  <2>2. \A u \in left[o] \ lost' : u \notin back[o] => u \notin S
    BY DEF IInv, OrderInv
  <2> QED  BY <1>1, <1>3, <2>1, <2>2 DEF IInv, OrderInv
<1> QED  BY <1>2, <1>3

LEMMA StepAdvanceWrite ==
  ASSUME IInv, NEW w \in Workers, AdvanceWrite(w)
  PROVE  IInv'
<1> DEFINE b == job[w].batch
<1> DEFINE S == job[w].units
<1> DEFINE s == BatchSequence[job[w].at]
<1>1. /\ b \in Batches /\ job[w].at \in DOMAIN BatchSequence /\ S \in SUBSET Units
      /\ S = {} \/ s \in {"quality", "ready"}
      /\ \A u \in S \cap Sure(w) : due[u] \subseteq {s} /\ stage[u] # "rented"
  BY DEF AdvanceWrite, IInv, TypeOK, JobType, JobInv, Fits, At
<1>2. Reach(S, s) /\ Done(w) /\ Overwrites(w, S, S) /\ UNCHANGED <<condition, back, owner, left, status>>
  BY DEF AdvanceWrite
<1>4. /\ job' \in [Workers -> JobType] /\ missed' \in [Workers -> SUBSET Units] /\ lost' \subseteq Units
      /\ lost \subseteq lost' /\ \A u \in S \ lost' : u \in Sure(w)
      /\ \A v \in Workers : JobInv(v)'
  <2>1. \A u \in Units \ S : due'[u] = due[u] /\ stage'[u] = stage[u]
    BY <1>2 DEF Reach
  <2>2. S \in SUBSET S
    OBVIOUS
  <2> HIDE DEF S, s
  <2> QED  BY <1>1, <1>2, <2>1, <2>2, Overwritten
<1>3. /\ (\A u \in Units \ lost : UnitInv(u))'
      /\ \A o \in Orders : OrderInv(o)'
  <2> HIDE DEF S, s
  <2> QED  BY <1>1, <1>2, <1>4, Moved
<1>5. stage' \in [Units -> Stages \ {"returned"}] /\ due' \in [Units -> SUBSET Checks]
  <2>1. S = {} \/ s \in Stages \ {"returned"}
    BY <1>1 DEF Stages
  <2>2. stage \in [Units -> Stages \ {"returned"}] /\ due \in [Units -> SUBSET Checks]
    BY DEF IInv, TypeOK
  <2> HIDE DEF S, s
  <2> QED  BY <1>2, <2>1, <2>2, Reaching
<1>6. batch' \in [Batches -> BatchType]
  <2>1. batch \in [Batches -> BatchType] /\ batch' = [batch EXCEPT ![b].at = job[w].at]
    BY DEF AdvanceWrite, IInv, TypeOK
  <2>2. [batch[b] EXCEPT !.at = job[w].at] \in BatchType
    BY <1>1, <2>1, Sequence DEF BatchType
  <2> HIDE DEF b
  <2> QED  BY <1>1, <2>1, <2>2
<1>7. TypeOK'
  BY <1>2, <1>4, <1>5, <1>6 DEF IInv, TypeOK
<1> QED  BY <1>3, <1>4, <1>7 DEF IInv

LEMMA StepCloseWrite ==
  ASSUME IInv, NEW w \in Workers, CloseWrite(w)
  PROVE  IInv'
<1> DEFINE o == job[w].order
<1> DEFINE sold == IF o \in Buys /\ status[o] = "confirmed" THEN {u \in ItemsOf[o] : stage[u] = "sold"} ELSE {}
<1> DEFINE S == job[w].units \cup sold
<1>1. o \in Orders /\ \A u \in job[w].units \cap Sure(w) : due[u] = {} /\ condition[u] = "fit" /\ stage[u] # "rented"
  BY DEF CloseWrite, IInv, JobInv, Fits, At
<1>2. S \in SUBSET Units
  BY <1>1, ItemsAssumption DEF IInv, TypeOK, JobType
<1>4. /\ Reach(S, "available") /\ OwnedBy(S, None) /\ Done(w) /\ Overwrites(w, S, job[w].units)
      /\ UNCHANGED <<condition, back, left, batch>>
  BY DEF CloseWrite
<1>5. /\ owner' \in [Units -> Orders \cup {None}]
      /\ \A u \in Units : owner'[u] = IF u \in S THEN None ELSE owner[u]
  <2> HIDE DEF S
  <2> QED  BY <1>4, Owning DEF IInv, TypeOK
<1>7. /\ job' \in [Workers -> JobType] /\ missed' \in [Workers -> SUBSET Units] /\ lost' \subseteq Units
      /\ lost \subseteq lost' /\ \A u \in job[w].units \ lost' : u \in Sure(w)
      /\ \A v \in Workers : JobInv(v)'
  <2>1. \A u \in Units \ S : due'[u] = due[u] /\ stage'[u] = stage[u]
    BY <1>4 DEF Reach
  <2>2. job[w].units \in SUBSET S
    OBVIOUS
  <2> HIDE DEF S
  <2> QED  BY <1>2, <1>4, <1>5, <2>1, <2>2, Overwritten
<1>3. \A u \in S \ lost' : due[u] \subseteq {"available"} /\ condition[u] = "fit" /\ stage[u] # "rented"
  <2>1. \A u \in sold : u \in Units /\ stage[u] = "sold"
    BY <1>2
  <2>2. \A u \in sold \ lost' : due[u] = {} /\ condition[u] = "fit" /\ stage[u] # "rented"
    BY <1>7, <2>1 DEF IInv, UnitInv, Owed
  <2> HIDE DEF sold
  <2> QED  BY <1>1, <1>7, <2>2
<1>6. /\ (\A u \in Units \ lost : UnitInv(u))'
      /\ \A p \in Orders : OrderInv(p)'
  <2> HIDE DEF S
  <2> QED  BY <1>2, <1>3, <1>4, <1>5, <1>7, Moved
<1>8. stage' \in [Units -> Stages \ {"returned"}] /\ due' \in [Units -> SUBSET Checks]
  <2>1. stage \in [Units -> Stages \ {"returned"}] /\ due \in [Units -> SUBSET Checks]
    BY DEF IInv, TypeOK
  <2>2. "available" \in Stages \ {"returned"}
    BY DEF Stages
  <2> HIDE DEF S
  <2> QED  BY <1>4, <2>1, <2>2, Reaching
<1>9. status' \in [Orders -> Statuses]
  BY DEF CloseWrite, IInv, TypeOK, Statuses
<1>10. TypeOK'
  BY <1>4, <1>5, <1>7, <1>8, <1>9 DEF IInv, TypeOK
<1> QED  BY <1>6, <1>7, <1>10 DEF IInv

LEMMA StepShipWrite ==
  ASSUME IInv, NEW w \in Workers, ShipWrite(w)
  PROVE  IInv'
<1> DEFINE S == job[w].units
<1>1. PICK o \in Orders : o = job[w].order
  BY DEF ShipWrite, IInv, JobInv, Fits, At
<1>2. S \subseteq ItemsOf[o] /\ S \in SUBSET Units /\ \A u \in S \cap Sure(w) : stage[u] # "rented"
  BY <1>1 DEF ShipWrite, IInv, JobInv, Fits, At, TypeOK, JobType
<1>3. /\ Reach(S, "rented") /\ OwnedBy(S, o) /\ left' = [left EXCEPT ![o] = S]
      /\ Done(w) /\ Overwrites(w, S, S) /\ UNCHANGED <<condition, back, batch>>
  BY <1>1 DEF ShipWrite
<1>4. /\ owner' \in [Units -> Orders \cup {None}]
      /\ \A u \in Units : owner'[u] = IF u \in S THEN o ELSE owner[u]
  <2> HIDE DEF S
  <2> QED  BY <1>1, <1>2, <1>3, Owning DEF IInv, TypeOK
<1>5. left' \in [Orders -> SUBSET Units] /\ left'[o] = S /\ \A p \in Orders \ {o} : left'[p] = left[p]
  <2> HIDE DEF S
  <2> QED  BY <1>1, <1>2, <1>3 DEF IInv, TypeOK
<1>10. /\ job' \in [Workers -> JobType] /\ missed' \in [Workers -> SUBSET Units] /\ lost' \subseteq Units
       /\ lost \subseteq lost' /\ \A u \in S \ lost' : u \in Sure(w)
       /\ \A v \in Workers : JobInv(v)'
  <2>1. \A u \in Units \ S : due'[u] = due[u] /\ stage'[u] = stage[u]
    BY <1>3 DEF Reach
  <2>2. S \in SUBSET S
    OBVIOUS
  <2> HIDE DEF S
  <2> QED  BY <1>2, <1>3, <1>4, <2>1, <2>2, Overwritten
<1>6. /\ (\A u \in Units \ lost : UnitInv(u))'
      /\ \A p \in Orders : left'[p] = left[p] => OrderInv(p)'
  <2> HIDE DEF S
  <2> QED  BY <1>1, <1>2, <1>3, <1>4, <1>10, Moved
<1>7. /\ stage' \in [Units -> Stages \ {"returned"}] /\ due' \in [Units -> SUBSET Checks]
      /\ \A u \in S : stage'[u] = "rented"
  <2>1. stage \in [Units -> Stages \ {"returned"}] /\ due \in [Units -> SUBSET Checks]
    BY DEF IInv, TypeOK
  <2>2. "rented" \in Stages \ {"returned"}
    BY DEF Stages
  <2>3. \A u \in S : u \in Units
    BY <1>2
  <2> HIDE DEF S
  <2> QED  BY <1>3, <2>1, <2>2, <2>3 DEF Reach
<1>8. OrderInv(o)'
  <2> HIDE DEF S
  <2> QED  BY <1>1, <1>2, <1>4, <1>5, <1>7 DEF OrderInv
<1>9. \A p \in Orders : OrderInv(p)'
  <2> HIDE DEF S
  <2> QED  BY <1>5, <1>6, <1>8
<1>11. status' \in [Orders -> Statuses]
  BY DEF ShipWrite, IInv, TypeOK, Statuses
<1>12. TypeOK'
  BY <1>3, <1>4, <1>5, <1>7, <1>10, <1>11 DEF IInv, TypeOK
<1> QED  BY <1>6, <1>9, <1>10, <1>12 DEF IInv

LEMMA StepAbort ==
  ASSUME IInv, NEW w \in Workers, Abort(w)
  PROVE  IInv'
<1>1. /\ job' \in [Workers -> JobType] /\ missed' \in [Workers -> SUBSET Units] /\ lost' = lost
      /\ \A v \in Workers : JobInv(v)'
  BY Ended DEF Abort, rows
<1>2. TypeOK'
  BY <1>1 DEF Abort, IInv, TypeOK, rows
<1>3. (\A u \in Units \ lost : UnitInv(u))' /\ (\A o \in Orders : OrderInv(o))'
  BY <1>1 DEF Abort, IInv, UnitInv, OrderInv, rows
<1> QED  BY <1>1, <1>2, <1>3 DEF IInv

-----------------------------------------------------------------------------
(* Orders, between the steps of a request.                                 *)

(* Garments S of order o that circulate move between the rack, a hold and  *)
(* a sale: a request in progress may still write.                          *)
LEMMA Beside ==
  ASSUME IInv, NEW S \in SUBSET Units, NEW s \in {"reserved", "sold"}, NEW o \in Orders \cup {None},
         Reach(S, s), OwnedBy(S, o), UNCHANGED <<condition, back, batch, job, left, overlaps>>,
         status' \in [Orders -> Statuses],
         \A u \in S \ lost : stage[u] \in {"available", "reserved"} /\ due[u] = {} /\ condition[u] = "fit"
  PROVE  IInv'
<1>1. stage \in [Units -> Stages \ {"returned"}] /\ due \in [Units -> SUBSET Checks]
  BY DEF IInv, TypeOK
<1>2. s \in Stages \ {"returned"}
  BY DEF Stages
<1>3. /\ owner' \in [Units -> Orders \cup {None}]
      /\ \A u \in Units : owner'[u] = IF u \in S THEN o ELSE owner[u]
  BY Owning DEF IInv, TypeOK
<1>4. /\ (\A u \in Units \ lost : UnitInv(u))'
      /\ \A p \in Orders : OrderInv(p)'
  <2>1. lost' = lost
    BY DEF overlaps
  <2> QED  BY <1>3, <2>1, Moved
<1>5. /\ stage' \in [Units -> Stages \ {"returned"}] /\ due' \in [Units -> SUBSET Checks]
      /\ \A u \in Units : u \in S => stage'[u] = s
      /\ \A u \in Units : u \notin S => stage'[u] = stage[u]
      /\ \A u \in Units : due'[u] = due[u]
  BY <1>1, <1>2 DEF Reach, Checks
<1>6. \A u \in Units : /\ due'[u] = due[u] /\ condition'[u] = condition[u]
                       /\ stage'[u] = "rented" => stage[u] = "rented" /\ owner'[u] = owner[u]
  BY <1>3, <1>5
<1>7. TypeOK'
  BY <1>3, <1>5 DEF IInv, TypeOK, overlaps
<1>8. ASSUME NEW w \in Workers PROVE JobInv(w)'
  <2>1. job'[w] = job[w] /\ JobInv(w) /\ job[w].units \subseteq Units /\ Fits(job[w])'
    BY DEF IInv, TypeOK, JobType, JobInv, Fits
  <2>2. Sure(w)' = Sure(w) /\ Sure(w) \subseteq Units
    BY DEF Sure, overlaps
  <2>3. job[w].unit \in Sure(w) /\ MoveInv(job[w]) => MoveInv(job[w])'
    BY <1>6, <2>2 DEF MoveInv
  <2> QED  BY <1>6, <2>1, <2>2, <2>3 DEF JobInv, At
<1> QED  BY <1>4, <1>7, <1>8 DEF IInv

LEMMA StepOrders ==
  ASSUME IInv, NEW o \in Orders, Place(o) \/ Confirm(o) \/ ConfirmLate(o) \/ Pack(o)
  PROVE  IInv'
<1>0. Rack(o) \in SUBSET Units /\ \A u \in Rack(o) \ lost :
        stage[u] \in {"available", "reserved"} /\ due[u] = {} /\ condition[u] = "fit"
  BY ItemsAssumption DEF IInv, UnitInv, Owed, Rack
<1>1. CASE Place(o)
  <2>1. /\ Reach(Rack(o), "reserved") /\ OwnedBy(Rack(o), o)
        /\ UNCHANGED <<condition, back, batch, job, left, overlaps>> /\ status' \in [Orders -> Statuses]
    BY <1>1 DEF Place, IInv, TypeOK, Statuses
  <2> QED  BY <1>0, <2>1, Beside
<1>4. CASE ConfirmLate(o)
  <2>1. PICK s \in {"reserved", "sold"}, p \in Orders \cup {None} : Reach(Rack(o), s) /\ OwnedBy(Rack(o), p)
    BY <1>4 DEF ConfirmLate
  <2>2. UNCHANGED <<condition, back, batch, job, left, overlaps>> /\ status' \in [Orders -> Statuses]
    BY <1>4 DEF ConfirmLate, IInv, TypeOK, Statuses
  <2> QED  BY <1>0, <2>1, <2>2, Beside
<1>2. CASE Confirm(o)
  <2> DEFINE S == IF o \in Buys THEN Held(o) \cap ItemsOf[o] ELSE {}
  <2>1. S \in SUBSET Units /\ \A u \in S : u \in Held(o)
    BY ItemsAssumption
  <2>2. \A u \in S \ lost : stage[u] \in {"available", "reserved"} /\ due[u] = {} /\ condition[u] = "fit"
    BY <2>1, NoneAssumption DEF Held, IInv, UnitInv, Owed
  <2>3. /\ Reach(S, "sold") /\ OwnedBy(S, None) /\ UNCHANGED <<condition, back, batch, job, left, overlaps>>
        /\ status' \in [Orders -> Statuses]
    BY <1>2 DEF Confirm, IInv, TypeOK, Statuses
  <2> HIDE DEF S
  <2> QED  BY <2>1, <2>2, <2>3, Beside
<1>3. CASE Pack(o)
  <2>1. TypeOK'
    BY <1>3 DEF Pack, IInv, TypeOK, Statuses, overlaps
  <2>2. (\A u \in Units \ lost : UnitInv(u))' /\ (\A p \in Orders : OrderInv(p))'
    BY <1>3 DEF Pack, IInv, UnitInv, OrderInv, overlaps
  <2>3. (\A w \in Workers : JobInv(w))'
    BY <1>3 DEF Pack, IInv, JobInv, Fits, At, MoveInv, Sure, overlaps
  <2> QED  BY <2>1, <2>2, <2>3 DEF IInv
<1> QED  BY <1>1, <1>2, <1>3, <1>4

LEMMA InvNext ==
  ASSUME IInv, [Next]_vars
  PROVE  IInv'
<1>1. CASE \E w \in Workers : Operator(w)
  BY <1>1, StepTransitionRead, StepTransitionWrite DEF Operator
<1>2. CASE \E w \in Workers : Laundry(w)
  BY <1>2, StepCreateRead, StepCreateWrite, StepAdvanceRead, StepAdvanceUnits, StepAdvanceWrite DEF Laundry
<1>3. CASE \E w \in Workers : Fulfil(w)
  BY <1>3, StepCloseRead, StepCloseWrite, StepShipRead, StepShipWrite DEF Fulfil
<1>4. CASE \E w \in Workers : Abort(w)
  BY <1>4, StepAbort
<1>5. CASE \E o \in Orders : Place(o) \/ Confirm(o) \/ ConfirmLate(o) \/ Pack(o)
  BY <1>5, StepOrders
<1>6. CASE UNCHANGED vars
  <2>1. TypeOK'
    BY <1>6 DEF vars, rows, overlaps, IInv, TypeOK
  <2>2. (\A u \in Units \ lost : UnitInv(u))' /\ (\A o \in Orders : OrderInv(o))' /\ (\A w \in Workers : JobInv(w))'
    BY <1>6 DEF vars, rows, overlaps, IInv, UnitInv, OrderInv, JobInv, Fits, At, MoveInv, Sure
  <2> QED  BY <2>1, <2>2 DEF IInv
<1> QED  BY <1>1, <1>2, <1>3, <1>4, <1>5, <1>6 DEF Next

(* Every variable keeps its type: no garment stays at returned, where the  *)
(* code never leaves one (stateMachine.ts:97).                             *)
THEOREM TypeCorrect == Spec => []TypeOK
<1>1. IInv => TypeOK
  BY DEF IInv
<1> QED  BY <1>1, InvInit, InvNext, PTL DEF Spec

(* What circulates has been checked since it was last worn, whichever      *)
(* requests overlap, unless an update of it was lost: transitions          *)
(* (stateMachine.ts), batches (laundry/service.ts) and orders together.    *)
THEOREM WornIsChecked == Spec => []CheckedBeforeRack
<1>1. IInv => CheckedBeforeRack
  BY DEF IInv, UnitInv, Owed, CheckedBeforeRack
<1> QED  BY <1>1, InvInit, InvNext, PTL DEF Spec

(* Nothing in need of review is on the rack (stateMachine.ts:60).          *)
THEOREM RackIsFit == Spec => []FitOnRack
<1>1. IInv => FitOnRack
  BY DEF IInv, UnitInv, FitOnRack
<1> QED  BY <1>1, InvInit, InvNext, PTL DEF Spec

(* A garment that left with an order is out with it or recorded as back    *)
(* (stateMachine.ts:90, which deposits are refunded from).                 *)
THEOREM ReturnsRecorded == Spec => []ReturnsAreRecorded
<1>1. IInv => ReturnsAreRecorded
  BY DEF IInv, OrderInv, ReturnsAreRecorded
<1> QED  BY <1>1, InvInit, InvNext, PTL DEF Spec
=============================================================================
