------------------------ MODULE TopicHandshakeProofs ------------------------
(***************************************************************************)
(* A subscriber that takes itself for attached reads what the publisher    *)
(* writes, and keeps its bit: for any number of subscribers, slots, bits,  *)
(* segments and publishers one after the other, whoever dies and whenever. *)
(***************************************************************************)
EXTENDS TopicHandshake, WellFoundedInduction, FiniteSetTheorems, TLAPS

Slot == [used : BOOLEAN, cc : Bits \cup {0}]
Conn == [seg : Segs \cup {0}, bit : Bits \cup {0}]

Types ==
    /\ state \in States /\ generation \in Nat
    /\ slot \in [Slots -> Slot]
    /\ name \in Segs \cup {0} /\ segs \in Nat
    /\ refs \in [Segs -> Int] /\ cc \in [Segs -> SUBSET Bits]
    /\ ppc \in PubPC /\ pseg \in Segs \cup {0} /\ stale \in SUBSET Bits
    /\ pc \in [Subs -> SubPC] /\ after \in [Subs -> {"close", "top", "exit"}]
    /\ gen \in [Subs -> Nat] /\ attached \in [Subs -> Nat]
    /\ registered \in [Subs -> BOOLEAN] /\ completed \in [Subs -> BOOLEAN]
    /\ mine \in [Subs -> Slots \cup {0}]
    /\ conn \in [Subs -> Conn]

\* Between the new generation and set_ready.
Rebuilding == ppc \in {"clear", "route", "ready"}

\* What the publisher's place says of the control plane and of its segment.
PubOK ==
    /\ ppc \in {"drain", "wipe", "bump", "clear", "route", "ready"} => state = "Clearing"
    /\ Serving => state = "Ready"
    /\ ppc = "leave" => state = "Stopping"
    /\ pseg # 0 <=> ppc \in {"ready", "scan", "reap", "leave"}
    /\ Rebuilding \/ Serving => generation > 0
    /\ state = "Ready" => ppc \in {"scan", "reap", "none"}

\* What a subscriber's place says of its variables.
SubOK(s) ==
    /\ gen[s] <= generation /\ attached[s] <= generation
    /\ pc[s] = "state" => attached[s] <= gen[s]
    /\ ~Alive(s) => /\ mine[s] = 0 /\ conn[s] = NoConn /\ attached[s] = 0
                    /\ ~completed[s] /\ ~registered[s]
    /\ mine[s] # 0 => registered[s]
    /\ pc[s] \in {"close", "open", "gen?", "ready?", "add", "fail"} => ~registered[s]
    /\ pc[s] \in {"cc", "exit"} => mine[s] = 0
    /\ pc[s] \in {"cc", "fill"} => registered[s]
    /\ pc[s] = "open" => conn[s] = NoConn
    /\ pc[s] \in {"gen?", "ready?", "add", "cc", "fill", "fail"} => conn[s].seg # 0
    /\ pc[s] = "fill" => mine[s] # 0 /\ conn[s].bit # 0
    /\ conn[s].seg = 0 => conn[s].bit = 0
    /\ pc[s] = "drop" => ~completed[s]
    /\ after[s] = "close" => pc[s] \in {"close", "open", "remove?", "remove", "release"}

\* The living that have mapped a segment, and how many.
Users(x) == {s \in Subs : conn[s].seg = x}
Count(x) == Cardinality(Users(x))

\* A segment counts those that have mapped it; the next one is new; the name leads
\* to a segment that counts somebody.
CountOK ==
    /\ \A x \in Segs : refs[x] >= Count(x) + IF x = pseg THEN 1 ELSE 0
    /\ \A x \in Segs : x > segs => Count(x) = 0 /\ x # pseg /\ refs[x] = 0
    /\ name <= segs
    /\ name # 0 => refs[name] >= 1

\* From the death of a publisher until its successor clears the name, and from then
\* on while a publisher lives and has not stopped.
Orphaned == ppc \in {"drain", "wipe", "bump", "clear"} \/ (ppc = "none" /\ state = "Ready")
Renewed  == ppc \in {"route", "ready", "scan", "reap"}

\* On its way to open the topic's segment.
Opens(s) == pc[s] \in {"close", "open"} \/ after[s] = "close"

\* A segment left by its publisher counts one more than have mapped it, so that
\* closing it leaves the name alone; the name leads to the publisher's segment.
NameOK ==
    /\ Orphaned =>
          /\ \A x \in Segs : Count(x) # 0 \/ x = name => refs[x] > Count(x)
          /\ name = 0 => state # "Ready" /\ \A s \in Subs : ~Opens(s)
    /\ Renewed => \A x \in Segs : Count(x) # 0 /\ x # name => refs[x] > Count(x)
    /\ ppc = "ready" \/ Serving => name = pseg

\* Who read the new generation has not seen its topic ready before it was, and who
\* attached to it has the publisher's segment.
AttachOK(s) ==
    /\ Rebuilding => attached[s] # generation
    /\ Rebuilding /\ Opens(s) => gen[s] # generation
    /\ Opens(s) => gen[s] # 0
    /\ Serving /\ attached[s] = generation =>
          /\ conn[s].seg \in {0, pseg}
          /\ pc[s] \notin {"fail", "drop"}
          /\ completed[s] /\ pc[s] # "open" => conn[s].seg # 0
          /\ mine[s] # 0 => conn[s].seg # 0

\* A bit has one owner.
BitOK ==
    \A s \in Subs : conn[s].bit # 0 =>
        /\ conn[s].bit \in cc[conn[s].seg]
        /\ \A t \in Subs \ {s} : conn[t] # conn[s]

\* A subscriber that does not die with its slot: the slot was taken too late.
Late(s) == attached[s] # generation \/ ppc = "bump"

\* Slot i belongs to a subscriber that lives.
Kept(i) ==
    \E s \in Subs : mine[s] = i /\ (Late(s) \/ conn[s] = [seg |-> pseg, bit |-> slot[i].cc])

\* The bit of somebody that died, which nobody has again before it is taken back.
Left(b) == b \in cc[pseg] /\ \A t \in Subs : conn[t] # [seg |-> pseg, bit |-> b]

\* Since the slots were cleared, each that names a bit is kept, or names the bit of
\* one that died, and no other slot does.
SlotOK ==
    /\ ppc = "bump" \/ Rebuilding =>
          \A i \in Slots : slot[i].cc # 0 => \E s \in Subs : mine[s] = i
    /\ Serving =>
          \A i \in Slots : slot[i].cc # 0 /\ ~Kept(i) =>
              /\ Left(slot[i].cc)
              /\ \A j \in Slots \ {i} : slot[j].cc = slot[i].cc => Kept(j)
    /\ ppc = "reap" =>
          \A b \in stale : /\ Left(b)
                           /\ \A i \in Slots : slot[i].cc = b => Kept(i)

\* What holds while a publisher waits for the subscribers of one that stopped.
Attaching ==
    /\ Types /\ PubOK
    /\ \A s \in Subs : SubOK(s) /\ AttachOK(s)
    /\ CountOK /\ NameOK

\* What holds while besides nobody dies with a slot taken too late.
Whole == Attaching /\ BitOK /\ SlotOK

-----------------------------------------------------------------------------
(* Bits *)

LEMMA LeastOf ==
    ASSUME NEW T, T \subseteq Nat, T # {}, NEW R, IsWellFoundedOn(R, Nat),
           \A b, d \in Nat : d < b => <<d, b>> \in R
    PROVE  \E b \in T : \A d \in T : b <= d
<1>1. PICK b \in T : \A d \in T : ~(<<d, b>> \in R)
  BY WFMin
<1>2. ASSUME NEW d \in T PROVE b <= d
  <2>1. b \in Nat /\ d \in Nat /\ ~(d < b)
    BY <1>1
  <2> QED
    BY <2>1
<1> QED
  BY <1>2

\* A set of numbers has a least one.
LEMMA Least ==
    ASSUME NEW T, T \subseteq Nat, T # {}
    PROVE  \E b \in T : \A d \in T : b <= d
<1>1. \A b, d \in Nat : d < b => <<d, b>> \in OpToRel(<, Nat)
  BY Zenon DEF OpToRel
<1>2. IsWellFoundedOn(OpToRel(<, Nat), Nat)
  BY NatLessThanWellFounded
<1>3. \E R : IsWellFoundedOn(R, Nat) /\ \A b, d \in Nat : d < b => <<d, b>> \in R
  BY <1>1, <1>2, Zenon
<1> QED
  BY <1>3, LeastOf

\* connect() gives a bit that was free, or none.
LEMMA FreeBitProperties ==
    ASSUME NEW x
    PROVE  FreeBit(x) \in Bits \cup {0} /\ FreeBit(x) \notin cc[x] \ {0}
<1>1. CASE Bits \subseteq cc[x]
  BY <1>1 DEF FreeBit
<1>2. CASE ~(Bits \subseteq cc[x])
  <2> DEFINE T == Bits \ cc[x]
  <2>1. T \subseteq Nat /\ T # {}
    BY <1>2 DEF Bits
  <2>2. \E b \in T : \A d \in T : b <= d
    BY <2>1, Least
  <2>3. FreeBit(x) \in T
    BY <1>2, <2>2 DEF FreeBit
  <2> QED
    BY <2>3 DEF Bits
<1> QED
  BY <1>1, <1>2

-----------------------------------------------------------------------------
(* Types *)

SubAction(s) == SubStep(s) \/ SubStart(s) \/ SubStop(s) \/ SubCrash(s)
PubAction == PubStep \/ PubStart \/ PubCollect \/ PubStop \/ PubCrash

\* What a subscriber's step leaves alone.
Others(s) ==
    /\ state' = state /\ generation' = generation /\ pubVars' = pubVars
    /\ \A t \in Subs \ {s} :
          /\ pc'[t] = pc[t] /\ after'[t] = after[t]
          /\ gen'[t] = gen[t] /\ attached'[t] = attached[t]
          /\ registered'[t] = registered[t] /\ completed'[t] = completed[t]
          /\ mine'[t] = mine[t] /\ conn'[t] = conn[t]

LEMMA Constants == NBits \in Nat /\ NSlots \in Nat /\ MaxSeg \in Nat /\ IsFiniteSet(Subs)
BY TopicAssumption

\* A segment that is opened is one.
LEMMA OpenTypes ==
    ASSUME Types, OpenSegment
    PROVE  /\ Opened \in Segs /\ Opened # 0 /\ name' = Opened
           /\ segs' \in Nat /\ refs' \in [Segs -> Int]
<1>1. Opened \in Segs /\ Opened # 0
  BY Constants DEF OpenSegment, Segs
<1>2. refs[Opened] + 1 \in Int
  BY <1>1 DEF Types
<1> QED
  BY <1>1, <1>2 DEF Types, OpenSegment

LEMMA CloseTypes ==
    ASSUME Types, NEW x \in Segs, CloseSegment(x)
    PROVE  name' \in Segs \cup {0} /\ segs' \in Nat /\ refs' \in [Segs -> Int]
<1>1. refs[x] - 1 \in Int
  BY DEF Types
<1> QED
  BY <1>1 DEF Types, CloseSegment

LEMMA DisconnectTypes ==
    ASSUME Types, NEW s \in Subs, DisconnectBit(s)
    PROVE  /\ name' \in Segs \cup {0} /\ segs' \in Nat /\ refs' \in [Segs -> Int]
           /\ cc' \in [Segs -> SUBSET Bits]
<1>1. CASE conn[s].seg = 0
  BY <1>1 DEF DisconnectBit, Types, segment
<1>2. CASE conn[s].seg # 0
  <2>1. conn[s].seg \in Segs
    BY <1>2 DEF Types, Conn
  <2> QED
    BY <1>2, <2>1, CloseTypes DEF DisconnectBit, Types
<1> QED
  BY <1>1, <1>2

LEMMA NothingConnected == NoConn \in Conn /\ Free \in Slot
BY DEF NoConn, Conn, Free, Slot

LEMMA PubTypes ==
    ASSUME Types, PubAction
    PROVE  Types'
<1> USE DEF control, segment, subVars, PubPC, States
<1>1. CASE PubStart
  BY <1>1 DEF Types, PubStart
<1>2. CASE PubDrain
  BY <1>2 DEF Types, PubDrain
<1>3. CASE PubWipe
  BY <1>3, NothingConnected DEF Types, PubWipe
<1>4. CASE PubBump
  BY <1>4 DEF Types, PubBump
<1>5. CASE PubClear
  BY <1>5 DEF Types, PubClear
<1>6. CASE PubRoute
  BY <1>6, OpenTypes DEF Types, PubRoute
<1>7. CASE PubReady
  BY <1>7 DEF Types, PubReady
<1>8. CASE PubCollect
  <2>1. PICK dead \in (SUBSET Silent) \ {{}} :
          /\ stale' = {slot[i].cc : i \in dead}
          /\ slot' = [i \in Slots |-> IF i \in dead THEN Free ELSE slot[i]]
    BY <1>8 DEF PubCollect
  <2>2. \A i \in dead : i \in Slots /\ slot[i].cc \in Bits
    BY DEF Silent, Types, Slot
  <2>3. stale' \in SUBSET Bits
    BY <2>1, <2>2
  <2>4. slot' \in [Slots -> Slot]
    BY <2>1, NothingConnected DEF Types
  <2> QED
    BY <1>8, <2>3, <2>4 DEF Types, PubCollect
<1>9. CASE PubReap
  BY <1>9 DEF Types, PubReap
<1>10. CASE PubStop
  BY <1>10 DEF Types, PubStop
<1>11. CASE PubLeave
  <2>1. refs' \in [Segs -> Int]
    <3>1. pseg \in Segs => refs[pseg] - 1 \in Int
      BY DEF Types
    <3> QED
      BY <1>11, <3>1 DEF Types, PubLeave
  <2> QED
    BY <1>11, <2>1 DEF Types, PubLeave
<1>12. CASE PubCrash
  BY <1>12 DEF Types, PubCrash
<1> QED
  BY <1>1, <1>2, <1>3, <1>4, <1>5, <1>6, <1>7, <1>8, <1>9, <1>10, <1>11, <1>12
  DEF PubAction, PubStep

LEMMA ReadStateEffect ==
    ASSUME Types, NEW s \in Subs, SubReadState(s)
    PROVE  \E p \in SubPC, a \in {"close", "top", "exit"}, g \in Nat, c \in BOOLEAN :
             /\ pc' = [pc EXCEPT ![s] = p] /\ after' = [after EXCEPT ![s] = a]
             /\ gen' = [gen EXCEPT ![s] = g] /\ completed' = [completed EXCEPT ![s] = c]
<1> DEFINE ready == state = "Ready" /\ gen[s] # 0
<1>1. /\ after[s] \in {"close", "top", "exit"} /\ gen[s] \in Nat /\ completed[s] \in BOOLEAN
      /\ after = [after EXCEPT ![s] = after[s]] /\ gen = [gen EXCEPT ![s] = gen[s]]
      /\ completed = [completed EXCEPT ![s] = completed[s]]
  BY DEF Types
<1>2. CASE ready /\ NeedsAttach(s)
  <2>1. /\ pc' = [pc EXCEPT ![s] = IF registered[s] THEN "remove?" ELSE "close"]
        /\ after' = [after EXCEPT ![s] = "close"] /\ gen' = gen /\ completed' = completed
    BY <1>2 DEF SubReadState, GoTo
  <2> QED
    BY <1>1, <2>1 DEF SubPC
<1>3. CASE ready /\ ~NeedsAttach(s)
  <2>1. /\ pc' = [pc EXCEPT ![s] = "top"] /\ gen' = [gen EXCEPT ![s] = 0]
        /\ after' = after /\ completed' = completed
    BY <1>3 DEF SubReadState, GoTo
  <2> QED
    BY <1>1, <2>1 DEF SubPC
<1>4. CASE ~ready
  <2>1. /\ pc' = [pc EXCEPT ![s] = IF completed[s] THEN "drop" ELSE "top"]
        /\ gen' = [gen EXCEPT ![s] = 0]
        /\ after' = after /\ completed' = [completed EXCEPT ![s] = FALSE]
    BY <1>4 DEF SubReadState, GoTo
  <2> QED
    BY <1>1, <2>1 DEF SubPC
<1> QED
  BY <1>2, <1>3, <1>4

LEMMA SubTypes ==
    ASSUME Types, NEW s \in Subs, SubAction(s)
    PROVE  Types' /\ Others(s)
<1> USE DEF control, segment, pubVars, SubPC, Others, GoTo
<1>1. CASE SubStart(s)
  BY <1>1 DEF Types, SubStart
<1>2. CASE SubReadGeneration(s)
  BY <1>2 DEF Types, SubReadGeneration
<1>3. CASE SubReadState(s)
  <2>1. \E p \in SubPC, a \in {"close", "top", "exit"}, g \in Nat, c \in BOOLEAN :
          /\ pc' = [pc EXCEPT ![s] = p] /\ after' = [after EXCEPT ![s] = a]
          /\ gen' = [gen EXCEPT ![s] = g] /\ completed' = [completed EXCEPT ![s] = c]
    BY <1>3, ReadStateEffect
  <2> QED
    BY <1>3, <2>1 DEF Types, SubReadState
<1>4. CASE SubClose(s)
  <2>1. name' \in Segs \cup {0} /\ segs' \in Nat /\ refs' \in [Segs -> Int]
    <3>1. CASE conn[s].seg = 0
      BY <1>4, <3>1 DEF Types, SubClose
    <3>2. CASE conn[s].seg # 0
      <4>1. conn[s].seg \in Segs
        BY <3>2 DEF Types, Conn
      <4> QED
        BY <1>4, <3>2, <4>1, CloseTypes DEF SubClose
    <3> QED
      BY <3>1, <3>2
  <2> QED
    BY <1>4, <2>1, NothingConnected DEF Types, SubClose
<1>5. CASE SubOpen(s)
  <2>1. /\ Opened \in Segs /\ name' = Opened /\ segs' \in Nat /\ refs' \in [Segs -> Int]
        /\ FreeBit(Opened) \in Bits \cup {0}
    BY <1>5, OpenTypes, FreeBitProperties DEF SubOpen
  <2>2. [seg |-> Opened, bit |-> FreeBit(Opened)] \in Conn
    BY <2>1 DEF Conn
  <2>3. conn' \in [Subs -> Conn] /\ \A t \in Subs \ {s} : conn'[t] = conn[t]
    BY <1>5, <2>2 DEF Types, SubOpen
  <2>4. cc' \in [Segs -> SUBSET Bits]
    BY <1>5, <2>1 DEF Types, SubOpen
  <2> QED
    BY <1>5, <2>1, <2>3, <2>4 DEF Types, SubOpen
<1>6. CASE SubAddGeneration(s)
  BY <1>6 DEF Types, SubAddGeneration
<1>7. CASE SubAddReady(s)
  BY <1>7 DEF Types, SubAddReady
<1>8. CASE SubAdd(s)
  BY <1>8 DEF Types, SubAdd
<1>9. CASE SubFail(s)
  <2>1. /\ name' \in Segs \cup {0} /\ segs' \in Nat /\ refs' \in [Segs -> Int]
        /\ cc' \in [Segs -> SUBSET Bits]
    BY <1>9, DisconnectTypes DEF SubFail, Disconnect
  <2> QED
    BY <1>9, <2>1, NothingConnected DEF Types, SubFail, Disconnect
<1>10. CASE SubAcquire(s)
  <2>1. slot' \in [Slots -> Slot] /\ mine' \in [Subs -> Slots \cup {0}]
        /\ \A t \in Subs \ {s} : mine'[t] = mine[t]
    <3>1. CASE slot' = slot /\ mine' = mine
      BY <3>1 DEF Types
    <3>2. ASSUME NEW i \in Slots, slot' = [slot EXCEPT ![i].used = TRUE],
                 mine' = [mine EXCEPT ![s] = i]
          PROVE  slot' \in [Slots -> Slot] /\ mine' \in [Subs -> Slots \cup {0}]
                 /\ \A t \in Subs \ {s} : mine'[t] = mine[t]
      BY <3>2 DEF Types, Slot
    <3> QED
      BY <1>10, <3>1, <3>2 DEF SubAcquire
  <2>2. /\ pc' \in [Subs -> SubPC] /\ after' \in [Subs -> {"close", "top", "exit"}]
        /\ completed' \in [Subs -> BOOLEAN]
        /\ \A t \in Subs \ {s} : /\ pc'[t] = pc[t] /\ after'[t] = after[t]
                                 /\ completed'[t] = completed[t]
    BY <1>10 DEF Types, SubAcquire
  <2> QED
    BY <1>10, <2>1, <2>2 DEF Types, SubAcquire
<1>11. CASE SubFill(s)
  <2>1. slot' \in [Slots -> Slot]
    BY <1>11 DEF Types, SubFill, Slot, Conn
  <2> QED
    BY <1>11, <2>1 DEF Types, SubFill
<1>12. CASE SubDrop(s)
  <2>1. /\ name' \in Segs \cup {0} /\ segs' \in Nat /\ refs' \in [Segs -> Int]
        /\ cc' \in [Segs -> SUBSET Bits]
    BY <1>12, DisconnectTypes DEF SubDrop, Disconnect
  <2> QED
    BY <1>12, <2>1, NothingConnected DEF Types, SubDrop, Disconnect
<1>13. CASE SubRemoveGeneration(s)
  BY <1>13 DEF Types, SubRemoveGeneration
<1>14. CASE SubRemove(s)
  BY <1>14 DEF Types, SubRemove
<1>15. CASE SubRelease(s)
  <2>1. slot' \in [Slots -> Slot]
    BY <1>15, NothingConnected DEF Types, SubRelease
  <2> QED
    BY <1>15, <2>1 DEF Types, SubRelease
<1>16. CASE SubExit(s)
  <2>1. /\ name' \in Segs \cup {0} /\ segs' \in Nat /\ refs' \in [Segs -> Int]
        /\ cc' \in [Segs -> SUBSET Bits]
    BY <1>16, DisconnectTypes DEF SubExit
  <2> QED
    BY <1>16, <2>1, NothingConnected DEF Types, SubExit, Forget
<1>17. CASE SubStop(s)
  BY <1>17 DEF Types, SubStop
<1>18. CASE SubCrash(s)
  BY <1>18, NothingConnected DEF Types, SubCrash, Forget
<1> QED
  BY <1>1, <1>2, <1>3, <1>4, <1>5, <1>6, <1>7, <1>8, <1>9, <1>10, <1>11, <1>12, <1>13,
     <1>14, <1>15, <1>16, <1>17, <1>18 DEF SubAction, SubStep

LEMMA InitTypes == Init => Types
BY NothingConnected, Constants DEF Init, Types, States, PubPC, SubPC

-----------------------------------------------------------------------------
(* Places *)

LEMMA InitPlaces == Init => PubOK /\ \A s \in Subs : SubOK(s)
BY DEF Init, PubOK, SubOK, Alive, Rebuilding, Serving, NoConn

LEMMA PubPlaces ==
    ASSUME Types, PubOK, \A s \in Subs : SubOK(s), PubAction
    PROVE  PubOK' /\ \A s \in Subs : SubOK(s)'
<1> USE DEF control, segment, subVars, Rebuilding, Serving
<1>1. PubOK'
  <2>1. CASE PubStart
    BY <2>1 DEF PubStart, PubOK
  <2>2. CASE PubDrain \/ PubWipe \/ PubClear
    BY <2>2 DEF PubDrain, PubWipe, PubClear, PubOK
  <2>3. CASE PubBump
    BY <2>3 DEF PubBump, PubOK, Types
  <2>4. CASE PubRoute
    BY <2>4, OpenTypes DEF PubRoute, PubOK
  <2>5. CASE PubReady
    BY <2>5 DEF PubReady, PubOK
  <2>6. CASE PubCollect \/ PubReap
    BY <2>6 DEF PubCollect, PubReap, PubOK
  <2>7. CASE PubStop
    BY <2>7 DEF PubStop, PubOK
  <2>8. CASE PubLeave \/ PubCrash
    BY <2>8 DEF PubLeave, PubCrash, PubOK
  <2> QED
    BY <2>1, <2>2, <2>3, <2>4, <2>5, <2>6, <2>7, <2>8 DEF PubAction, PubStep
<1>2. subVars' = subVars /\ generation' \in Nat /\ generation' >= generation
  BY DEF PubAction, PubStep, PubStart, PubDrain, PubWipe, PubBump, PubClear, PubRoute, PubReady,
         PubCollect, PubReap, PubStop, PubLeave, PubCrash, Types
<1>3. ASSUME NEW s \in Subs PROVE SubOK(s)'
  <2>1. gen[s] <= generation' /\ attached[s] <= generation'
    BY <1>2 DEF SubOK, Types
  <2> QED
    BY <1>2, <2>1 DEF SubOK, Alive
<1> QED
  BY <1>1, <1>3

LEMMA SubPlaces ==
    ASSUME Types, PubOK, \A s \in Subs : SubOK(s), NEW s \in Subs, SubAction(s)
    PROVE  PubOK' /\ \A t \in Subs : SubOK(t)'
<1> USE DEF control, segment, pubVars, GoTo, SubOK, Alive, NoConn
<1>1. Types' /\ Others(s)
  BY SubTypes
<1>2. PubOK'
  BY <1>1 DEF Others, PubOK, Rebuilding, Serving
<1>3. ASSUME NEW t \in Subs \ {s} PROVE SubOK(t)'
  BY <1>1 DEF Others
<1>4. SubOK(s)'
  <2>1. CASE SubStart(s)
    BY <2>1 DEF Types, SubStart
  <2>2. CASE SubReadGeneration(s)
    BY <2>2 DEF Types, SubReadGeneration
  <2>3. CASE SubReadState(s)
    <3> DEFINE ready == state = "Ready" /\ gen[s] # 0
    <3>1. CASE ready /\ NeedsAttach(s)
      <4>1. /\ pc'[s] = IF registered[s] THEN "remove?" ELSE "close"
            /\ gen' = gen /\ completed' = completed
        BY <2>3, <3>1 DEF SubReadState, Types
      <4> QED
        BY <2>3, <4>1 DEF SubReadState
    <3>2. CASE ready /\ ~NeedsAttach(s)
      <4>1. pc'[s] = "top" /\ gen'[s] = 0 /\ completed' = completed
        BY <2>3, <3>2 DEF SubReadState, Types
      <4> QED
        BY <2>3, <4>1 DEF SubReadState, Types
    <3>3. CASE ~ready
      <4>1. pc'[s] = (IF completed[s] THEN "drop" ELSE "top") /\ gen'[s] = 0 /\ ~completed'[s]
        BY <2>3, <3>3 DEF SubReadState, Types
      <4> QED
        BY <2>3, <4>1 DEF SubReadState, Types
    <3> QED
      BY <3>1, <3>2, <3>3
  <2>4. CASE SubClose(s)
    BY <2>4 DEF Types, SubClose
  <2>5. CASE SubOpen(s)
    <3>1. Opened # 0 /\ pc'[s] = "gen?" /\ gen'[s] = 0 /\ attached'[s] = gen[s]
          /\ conn'[s] = [seg |-> Opened, bit |-> FreeBit(Opened)]
      BY <2>5, OpenTypes DEF Types, SubOpen
    <3> QED
      BY <2>5, <3>1 DEF SubOpen, Types
  <2>6. CASE SubAddGeneration(s)
    BY <2>6 DEF Types, SubAddGeneration
  <2>7. CASE SubAddReady(s)
    BY <2>7 DEF Types, SubAddReady
  <2>8. CASE SubAdd(s)
    BY <2>8 DEF Types, SubAdd
  <2>9. CASE SubFail(s)
    BY <2>9 DEF Types, SubFail, Disconnect
  <2>10. CASE SubAcquire(s)
    <3>1. CASE conn[s].bit = 0
      <4>1. pc'[s] = "remove?" /\ mine' = mine /\ completed' = completed
        BY <2>10, <3>1 DEF SubAcquire, Types
      <4> QED
        BY <2>10, <4>1 DEF SubAcquire
    <3>2. CASE conn[s].bit # 0 /\ mine' # mine
      <4>1. PICK i \in Slots : mine' = [mine EXCEPT ![s] = i]
        BY <2>10, <3>2 DEF SubAcquire
      <4>2. pc'[s] = "fill" /\ completed' = completed /\ mine'[s] # 0 /\ registered[s]
        BY <2>10, <3>2, <4>1 DEF SubAcquire, Types, Slots
      <4> QED
        BY <2>10, <3>2, <4>2 DEF SubAcquire
    <3>3. CASE conn[s].bit # 0 /\ mine' = mine
      <4>1. \A i \in Slots : mine' # [mine EXCEPT ![s] = i]
        BY <2>10, <3>3 DEF SubAcquire, Types, Slots
      <4>2. pc'[s] = "top" /\ mine'[s] = 0
        BY <2>10, <3>3, <4>1 DEF SubAcquire, Types
      <4> QED
        BY <2>10, <4>2 DEF SubAcquire
    <3> QED
      BY <3>1, <3>2, <3>3
  <2>11. CASE SubFill(s)
    BY <2>11 DEF Types, SubFill
  <2>12. CASE SubDrop(s)
    BY <2>12 DEF Types, SubDrop, Disconnect
  <2>13. CASE SubRemoveGeneration(s)
    BY <2>13 DEF Types, SubRemoveGeneration
  <2>14. CASE SubRemove(s)
    BY <2>14 DEF Types, SubRemove
  <2>15. CASE SubRelease(s)
    BY <2>15 DEF Types, SubRelease
  <2>16. CASE SubExit(s)
    BY <2>16 DEF Types, SubExit, Forget
  <2>17. CASE SubStop(s)
    BY <2>17 DEF Types, SubStop
  <2>18. CASE SubCrash(s)
    BY <2>18 DEF Types, SubCrash, Forget
  <2> QED
    BY <2>1, <2>2, <2>3, <2>4, <2>5, <2>6, <2>7, <2>8, <2>9, <2>10, <2>11, <2>12, <2>13,
       <2>14, <2>15, <2>16, <2>17, <2>18 DEF SubAction, SubStep
<1> QED
  BY <1>2, <1>3, <1>4

-----------------------------------------------------------------------------
(* Segments and their counts *)

LEMMA Counts ==
    \A x : Count(x) \in Nat /\ IsFiniteSet(Users(x)) /\ (Count(x) = 0 <=> Users(x) = {})
<1> SUFFICES ASSUME NEW x
             PROVE  Count(x) \in Nat /\ IsFiniteSet(Users(x)) /\ (Count(x) = 0 <=> Users(x) = {})
  OBVIOUS
<1>1. IsFiniteSet(Users(x))
  <2>1. Users(x) \in SUBSET Subs
    BY DEF Users
  <2> QED
    BY <2>1, Constants, FS_Subset
<1> QED
  BY <1>1, FS_CardinalityType, FS_EmptySet DEF Count

\* Only the one that moves is counted elsewhere.
LEMMA CountChange ==
    ASSUME Types, Types', NEW s \in Subs, Others(s), NEW x
    PROVE  Count(x)' = Count(x) - (IF conn[s].seg = x THEN 1 ELSE 0)
                                + (IF conn'[s].seg = x THEN 1 ELSE 0)
<1> DEFINE rest == Users(x) \ {s}
<1>1. /\ IsFiniteSet(rest) /\ s \notin rest /\ Cardinality(rest) \in Nat
      /\ Cardinality(rest) = Count(x) - (IF conn[s].seg = x THEN 1 ELSE 0)
  <2>1. IsFiniteSet(Users(x)) /\ Cardinality(Users(x)) \in Nat
    BY Counts DEF Count
  <2>2. s \in Users(x) <=> conn[s].seg = x
    BY DEF Users
  <2> QED
    BY <2>1, <2>2, FS_RemoveElement, FS_CardinalityType DEF Count
<1>2. \A t \in Subs \ {s} : conn'[t] = conn[t]
  BY DEF Others
<1>3. CASE conn'[s].seg = x
  <2>1. Users(x)' = rest \cup {s}
    BY <1>2, <1>3 DEF Users
  <2>2. Cardinality(Users(x)') = Cardinality(rest) + 1
    BY <1>1, <2>1, FS_AddElement
  <2> QED
    BY <1>1, <1>3, <2>2 DEF Count
<1>4. CASE conn'[s].seg # x
  <2>1. Users(x)' = rest
    BY <1>2, <1>4 DEF Users
  <2> HIDE DEF rest
  <2>2. Cardinality(Users(x)') = Cardinality(rest)
    BY <2>1
  <2>3. Count(x) \in Nat
    BY Counts
  <2> QED
    BY <1>1, <1>4, <2>2, <2>3 DEF Count
<1> QED
  BY <1>3, <1>4

\* What a subscriber's step does to the segments.
Stays(s)   == UNCHANGED segment /\ conn'[s] = conn[s]
LetsGo(s)  == UNCHANGED segment /\ conn'[s] = NoConn
Closing(s) == /\ conn[s].seg \in Segs /\ conn'[s] = NoConn /\ CloseSegment(conn[s].seg)
              /\ \/ cc' = cc
                 \/ cc' = [cc EXCEPT ![conn[s].seg] = cc[conn[s].seg] \ {conn[s].bit}]
Opening(s) == /\ pc[s] = "open" /\ conn[s] = NoConn /\ OpenSegment
              /\ conn'[s] = [seg |-> Opened, bit |-> FreeBit(Opened)]
              /\ cc' = [cc EXCEPT ![Opened] = cc[Opened] \cup ({FreeBit(Opened)} \ {0})]

LEMMA DisconnectKinds ==
    ASSUME Types, NEW s \in Subs, SubOK(s), DisconnectBit(s), conn'[s] = NoConn
    PROVE  LetsGo(s) \/ Closing(s)
<1>1. CASE conn[s].seg = 0
  BY <1>1 DEF DisconnectBit, LetsGo
<1>2. CASE conn[s].seg # 0
  <2>1. conn[s].seg \in Segs
    BY <1>2 DEF Types, Conn
  <2> QED
    BY <1>2, <2>1 DEF DisconnectBit, Closing
<1> QED
  BY <1>1, <1>2

LEMMA SubKinds ==
    ASSUME Types, NEW s \in Subs, SubOK(s), SubAction(s)
    PROVE  Stays(s) \/ LetsGo(s) \/ Closing(s) \/ Opening(s)
<1> USE DEF control, segment, pubVars
<1>1. CASE \/ SubStart(s) \/ SubReadGeneration(s) \/ SubReadState(s) \/ SubAddGeneration(s)
           \/ SubAddReady(s) \/ SubAdd(s) \/ SubAcquire(s) \/ SubFill(s)
           \/ SubRemoveGeneration(s) \/ SubRemove(s) \/ SubRelease(s) \/ SubStop(s)
  BY <1>1 DEF SubStart, SubReadGeneration, SubReadState, SubAddGeneration, SubAddReady, SubAdd,
              SubAcquire, SubFill, SubRemoveGeneration, SubRemove, SubRelease, SubStop, Stays
<1>2. CASE SubClose(s)
  <2>1. conn'[s] = NoConn /\ cc' = cc
    BY <1>2 DEF SubClose, Types
  <2>2. CASE conn[s].seg = 0
    BY <1>2, <2>1, <2>2 DEF SubClose, LetsGo
  <2>3. CASE conn[s].seg # 0
    <3>1. conn[s].seg \in Segs
      BY <2>3 DEF Types, Conn
    <3> QED
      BY <1>2, <2>1, <2>3, <3>1 DEF SubClose, Closing
  <2> QED
    BY <2>2, <2>3
<1>3. CASE SubOpen(s)
  BY <1>3 DEF SubOpen, SubOK, Types, Opening
<1>4. CASE SubFail(s)
  <2>1. DisconnectBit(s) /\ conn'[s] = NoConn
    BY <1>4 DEF SubFail, Disconnect, Types
  <2> QED
    BY <2>1, DisconnectKinds
<1>5. CASE SubDrop(s)
  <2>1. DisconnectBit(s) /\ conn'[s] = NoConn
    BY <1>5 DEF SubDrop, Disconnect, Types
  <2> QED
    BY <2>1, DisconnectKinds
<1>6. CASE SubExit(s)
  <2>1. DisconnectBit(s) /\ conn'[s] = NoConn
    BY <1>6 DEF SubExit, Forget, Types
  <2> QED
    BY <2>1, DisconnectKinds
<1>7. CASE SubCrash(s)
  BY <1>7 DEF SubCrash, Forget, LetsGo, Types
<1> QED
  BY <1>1, <1>2, <1>3, <1>4, <1>5, <1>6, <1>7 DEF SubAction, SubStep

\* Only a topic that is ready makes a subscriber open it.
LEMMA OpensWhenReady ==
    ASSUME Types, NEW s \in Subs, SubOK(s), SubAction(s), Opens(s)'
    PROVE  /\ Opens(s) \/ (state = "Ready" /\ pc[s] = "state" /\ gen[s] # 0)
           /\ gen'[s] = gen[s]
<1> USE DEF Opens, GoTo, Types
<1>1. CASE SubReadState(s)
  <2> DEFINE ready == state = "Ready" /\ gen[s] # 0
  <2>1. CASE ~ready
    <3>1. pc'[s] \in {"drop", "top"} /\ after' = after
      BY <1>1, <2>1 DEF SubReadState
    <3> QED
      BY <1>1, <3>1 DEF SubReadState, SubOK
  <2>2. CASE ready /\ NeedsAttach(s)
    BY <1>1, <2>2 DEF SubReadState
  <2>3. CASE ready /\ ~NeedsAttach(s)
    <3>1. pc'[s] = "top" /\ after' = after
      BY <1>1, <2>3 DEF SubReadState
    <3> QED
      BY <1>1, <3>1 DEF SubReadState, SubOK
  <2> QED
    BY <2>1, <2>2, <2>3
<1>2. CASE \/ SubStart(s) \/ SubReadGeneration(s) \/ SubClose(s) \/ SubOpen(s)
           \/ SubAddGeneration(s) \/ SubAddReady(s) \/ SubAdd(s) \/ SubFail(s)
  BY <1>2 DEF SubStart, SubReadGeneration, SubClose, SubOpen, SubAddGeneration, SubAddReady,
              SubAdd, SubFail, SubOK
<1>3. CASE \/ SubAcquire(s) \/ SubFill(s) \/ SubDrop(s) \/ SubRemoveGeneration(s)
           \/ SubRemove(s) \/ SubRelease(s) \/ SubExit(s) \/ SubStop(s) \/ SubCrash(s)
  BY <1>3 DEF SubAcquire, SubFill, SubDrop, SubRemoveGeneration, SubRemove, SubRelease,
              SubExit, SubStop, SubCrash, Forget, SubOK
<1> QED
  BY <1>1, <1>2, <1>3 DEF SubAction, SubStep

\* Where nobody moves, nobody is counted elsewhere.
LEMMA SameCount == conn' = conn => \A x : Count(x)' = Count(x)
BY DEF Count, Users

\* What a publisher's step leaves alone.
LEMMA PubLeaves == PubAction => subVars' = subVars
BY DEF PubAction, PubStep, PubStart, PubDrain, PubWipe, PubBump, PubClear, PubRoute, PubReady,
       PubCollect, PubReap, PubStop, PubLeave, PubCrash

\* What OpenSegment and CloseSegment do to the counts.
LEMMA OpenEffect ==
    ASSUME Types, CountOK, OpenSegment
    PROVE  /\ Opened \in Segs /\ Opened # 0 /\ name' = Opened
           /\ name # 0 => Opened = name /\ segs' = segs
           /\ name = 0 => Opened = segs + 1 /\ segs' = segs + 1
           /\ \A x \in Segs : refs'[x] = IF x = Opened THEN refs[x] + 1 ELSE refs[x]
           /\ Opened <= segs' /\ segs' \in Nat /\ segs <= segs' /\ refs[Opened] \in Int
<1>1. Opened \in Segs /\ Opened # 0 /\ name' = Opened
  BY OpenTypes
<1>2. \A x \in Segs : refs'[x] = IF x = Opened THEN refs[x] + 1 ELSE refs[x]
  BY <1>1 DEF OpenSegment, Types
<1>3. segs \in Nat /\ name \in Nat /\ name <= segs /\ refs[Opened] \in Int
  BY <1>1, Constants DEF Types, CountOK, Segs
<1>4. segs' = IF name = 0 THEN segs + 1 ELSE segs
  BY DEF OpenSegment
<1> QED
  BY <1>1, <1>2, <1>3, <1>4 DEF Opened

LEMMA CloseEffect ==
    ASSUME Types, NEW y \in Segs, CloseSegment(y)
    PROVE  /\ segs' = segs
           /\ \A x \in Segs : refs'[x] = IF x = y THEN refs[x] - 1 ELSE refs[x]
           /\ refs[y] <= 1 => name' = 0
           /\ refs[y] > 1 => name' = name
BY DEF CloseSegment, Types

LEMMA InitCounts == Init => CountOK /\ NameOK
<1> SUFFICES ASSUME Init PROVE CountOK /\ NameOK
  OBVIOUS
<1>1. \A x \in Segs : x # 0 /\ Count(x) = 0
  <2>1. ASSUME NEW x \in Segs PROVE x # 0 /\ Users(x) = {}
    BY DEF Init, NoConn, Segs, Users
  <2> QED
    BY <2>1, Counts
<1> QED
  BY <1>1 DEF Init, CountOK, NameOK, Orphaned, Renewed, Serving

LEMMA PubCounts ==
    ASSUME Types, PubOK, CountOK, PubAction
    PROVE  CountOK'
<1> USE DEF control, segment
<1>1. \A x : Count(x)' = Count(x) /\ Count(x) \in Nat
  BY PubLeaves, SameCount, Counts DEF subVars
<1>2. CASE PubRoute
  <2>1. pseg = 0 /\ pseg' = Opened /\ OpenSegment
    BY <1>2 DEF PubRoute, PubOK
  <2>2. \A x \in Segs : refs'[x] \in Int /\ refs[x] \in Int /\ x \in Nat /\ x # 0
    BY PubTypes, Constants DEF Types, Segs
  <2> QED
    BY <1>1, <2>1, <2>2, OpenEffect DEF CountOK, Types
<1>3. CASE PubLeave
  <2>1. pseg \in Segs
    BY <1>3 DEF PubLeave, PubOK, Types
  <2>2. \A x \in Segs : refs'[x] = (IF x = pseg THEN refs[x] - 1 ELSE refs[x]) /\ refs[x] \in Int
    BY <1>3 DEF PubLeave, Types
  <2>3. pseg' = 0 /\ name' = 0 /\ segs' = segs /\ 0 \notin Segs
    BY <1>3, Constants DEF PubLeave, Segs
  <2> QED
    BY <1>1, <2>1, <2>2, <2>3 DEF CountOK, Types
<1>4. CASE PubClear
  BY <1>1, <1>4 DEF PubClear, CountOK, Types
<1>5. CASE PubCrash
  <2>1. 0 \notin Segs /\ \A x \in Segs : refs[x] \in Int
    BY Constants DEF Types, Segs
  <2> QED
    BY <1>1, <1>5, <2>1 DEF PubCrash, CountOK, Types
<1>6. CASE \/ PubStart \/ PubDrain \/ PubWipe \/ PubBump \/ PubReady \/ PubCollect \/ PubReap
           \/ PubStop
  <2>1. UNCHANGED <<name, segs, refs, pseg>>
    BY <1>6 DEF PubStart, PubDrain, PubWipe, PubBump, PubReady, PubCollect, PubReap, PubStop
  <2> QED
    BY <1>1, <2>1 DEF CountOK
<1> QED
  BY <1>2, <1>3, <1>4, <1>5, <1>6 DEF PubAction, PubStep

LEMMA SubCounts ==
    ASSUME Types, CountOK, NEW s \in Subs, SubOK(s), SubAction(s)
    PROVE  CountOK'
<1> USE DEF segment, pubVars
<1>1. Types' /\ Others(s) /\ pseg' = pseg
  BY SubTypes DEF Others
<1>2. ASSUME NEW x \in Segs
      PROVE  /\ Count(x)' = Count(x) - (IF conn[s].seg = x THEN 1 ELSE 0)
                                     + (IF conn'[s].seg = x THEN 1 ELSE 0)
             /\ Count(x) \in Nat /\ Count(x)' \in Nat
             /\ (conn[s].seg = x => Count(x) >= 1) /\ refs[x] \in Int /\ refs'[x] \in Int /\ x # 0
  <2>1. Count(x)' = Count(x) - (IF conn[s].seg = x THEN 1 ELSE 0)
                             + (IF conn'[s].seg = x THEN 1 ELSE 0)
    BY <1>1, CountChange
  <2>2. Count(x) \in Nat /\ (conn[s].seg = x => Count(x) # 0)
    BY Counts DEF Users
  <2>3. refs[x] \in Int /\ refs'[x] \in Int /\ x # 0
    BY <1>1, Constants DEF Types, Segs
  <2> QED
    BY <2>1, <2>2, <2>3
<1>3. CASE Stays(s) \/ LetsGo(s)
  <2>1. UNCHANGED <<name, segs, refs, pseg>>
    BY <1>1, <1>3 DEF Stays, LetsGo
  <2>2. ASSUME NEW x \in Segs PROVE Count(x)' <= Count(x) /\ Count(x)' \in Nat /\ Count(x) \in Nat
    BY <1>2, <1>3 DEF Stays, LetsGo, NoConn
  <2>3. \A x \in Segs : /\ refs[x] >= Count(x)' + IF x = pseg THEN 1 ELSE 0
                        /\ x > segs => Count(x)' = 0
    BY <1>2, <2>2 DEF CountOK
  <2> QED
    BY <2>1, <2>3 DEF CountOK
<1>4. CASE Closing(s)
  <2> DEFINE y == conn[s].seg
  <2>1. y \in Segs /\ CloseSegment(y) /\ conn'[s].seg = 0
    BY <1>4 DEF Closing, NoConn
  <2>2. \A x \in Segs : /\ Count(x)' = Count(x) - (IF x = y THEN 1 ELSE 0)
                        /\ refs'[x] = IF x = y THEN refs[x] - 1 ELSE refs[x]
    BY <1>2, <2>1, CloseEffect
  <2>3. segs' = segs /\ name' \in {0, name} /\ (name' = name => refs[y] > 1 \/ name = 0)
    BY <1>2, <2>1, CloseEffect DEF Types
  <2>4. name' # 0 => refs'[name'] >= 1
    BY <1>2, <2>1, <2>2, <2>3 DEF CountOK, Types
  <2>5. \A x \in Segs : x > segs => x # y
    BY <1>2, <2>1 DEF CountOK
  <2> QED
    BY <1>1, <1>2, <2>1, <2>2, <2>3, <2>4, <2>5 DEF CountOK, Types
<1>5. CASE Opening(s)
  <2>1. OpenSegment /\ conn'[s].seg = Opened /\ conn[s].seg = 0
    BY <1>5 DEF Opening, NoConn
  <2>2. \A x \in Segs : /\ Count(x)' = Count(x) + (IF x = Opened THEN 1 ELSE 0)
                        /\ refs'[x] = IF x = Opened THEN refs[x] + 1 ELSE refs[x]
    BY <1>2, <2>1, OpenEffect
  <2>3. /\ Opened \in Segs /\ name' = Opened /\ Opened <= segs' /\ segs' \in Nat /\ segs <= segs'
        /\ refs[Opened] \in Int /\ segs \in Nat
    BY <2>1, OpenEffect DEF Types
  <2>4. refs[Opened] >= 0
    BY <1>2, <2>3 DEF CountOK
  <2>5. refs'[Opened] >= 1
    BY <2>2, <2>3, <2>4
  <2>6. \A x \in Segs : x > segs' => x # Opened /\ x > segs
    BY <2>3 DEF Segs
  <2> QED
    BY <1>1, <1>2, <2>2, <2>3, <2>5, <2>6 DEF CountOK
<1> QED
  BY <1>3, <1>4, <1>5, SubKinds

-----------------------------------------------------------------------------
(* The segment the name leads to *)

\* A publisher that follows one that stopped finds nobody that has mapped a segment.
LEMMA SettledMeans ==
    ASSUME Types, \A s \in Subs : SubOK(s), Settled, state # "Ready"
    PROVE  /\ \A x \in Segs : Count(x) = 0
           /\ \A s \in Subs : ~Opens(s)
<1>1. \A s \in Subs : conn[s] = NoConn /\ ~Opens(s)
  BY DEF Settled, SubOK, Alive, Opens
<1>2. ASSUME NEW x \in Segs PROVE Users(x) = {}
  <2>1. x # 0
    BY Constants DEF Segs
  <2> QED
    BY <1>1, <2>1 DEF Users, NoConn
<1> QED
  BY <1>1, <1>2, Counts

LEMMA PubNames ==
    ASSUME Types, PubOK, \A s \in Subs : SubOK(s), CountOK, NameOK, ~QuickRestart, PubAction
    PROVE  NameOK'
<1> USE DEF control, segment, Orphaned, Renewed, Serving
<1>1. /\ \A x : Count(x)' = Count(x)
      /\ \A s \in Subs : Opens(s)' = Opens(s)
      /\ \A x \in Segs : Count(x) \in Nat /\ refs[x] \in Int /\ x # 0
  BY PubLeaves, SameCount, Counts, Constants DEF subVars, Opens, Types, Segs
<1>2. CASE PubStart
  <2>1. UNCHANGED <<name, refs>> /\ ppc' = "drain" /\ state' = "Clearing" /\ ppc = "none" /\ Settled
    BY <1>2 DEF PubStart
  <2>2. CASE state = "Ready"
    BY <1>1, <2>1, <2>2 DEF NameOK
  <2>3. CASE state # "Ready"
    <3>1. \A x \in Segs : Count(x) # 0 \/ x = name => refs[x] > Count(x)
      BY <1>1, <2>1, <2>3, SettledMeans DEF CountOK
    <3> QED
      BY <1>1, <2>1, <2>3, <3>1, SettledMeans DEF NameOK
  <2> QED
    BY <2>2, <2>3
<1>3. CASE PubDrain \/ PubWipe \/ PubBump
  <2>1. UNCHANGED <<name, refs, state>> /\ Orphaned /\ Orphaned' /\ ~Renewed' /\ ~Serving'
    BY <1>3 DEF PubDrain, PubWipe, PubBump
  <2> QED
    BY <1>1, <2>1 DEF NameOK, PubOK
<1>4. CASE PubClear
  <2>1. name' = 0 /\ refs' = refs /\ ppc' = "route" /\ Orphaned
    BY <1>4 DEF PubClear
  <2> QED
    BY <1>1, <2>1 DEF NameOK
<1>5. CASE PubRoute
  <2>1. ppc' = "ready" /\ pseg' = Opened /\ OpenSegment /\ Renewed
    BY <1>5 DEF PubRoute
  <2>2. name' = Opened /\ (name # 0 => Opened = name)
        /\ \A x \in Segs : x # Opened => refs'[x] = refs[x]
    BY <2>1, OpenEffect
  <2>3. ASSUME NEW x \in Segs, Count(x) # 0, x # Opened PROVE refs[x] > Count(x)
    BY <1>1, <2>1, <2>2, <2>3 DEF NameOK
  <2> QED
    BY <1>1, <2>1, <2>2, <2>3 DEF NameOK
<1>6. CASE PubReady \/ PubCollect \/ PubReap
  <2>1. UNCHANGED <<name, refs, pseg>> /\ Renewed /\ Renewed' /\ ~Orphaned'
        /\ (ppc = "ready" \/ Serving)
    BY <1>6 DEF PubReady, PubCollect, PubReap
  <2> QED
    BY <1>1, <2>1 DEF NameOK
<1>7. CASE PubStop \/ PubLeave
  <2>1. ~Orphaned' /\ ~Renewed' /\ ppc' # "ready" /\ ~Serving'
    BY <1>7 DEF PubStop, PubLeave, PubOK
  <2> QED
    BY <2>1 DEF NameOK
<1>8. CASE PubCrash
  <2>1. UNCHANGED <<name, refs, state>> /\ ppc' = "none"
    BY <1>8 DEF PubCrash
  <2>2. CASE state # "Ready"
    BY <2>1, <2>2 DEF NameOK
  <2>3. CASE state = "Ready"
    <3>1. Serving
      BY <1>8, <2>3 DEF PubOK, PubCrash
    <3>2. name = pseg /\ pseg # 0
      BY <3>1 DEF NameOK, PubOK
    <3>3. \A x \in Segs : Count(x) # 0 \/ x = name => refs[x] > Count(x)
      BY <1>1, <3>1, <3>2 DEF NameOK, CountOK
    <3> QED
      BY <1>1, <2>1, <3>2, <3>3 DEF NameOK
  <2> QED
    BY <2>2, <2>3
<1> QED
  BY <1>2, <1>3, <1>4, <1>5, <1>6, <1>7, <1>8 DEF PubAction, PubStep

LEMMA SubNames ==
    ASSUME Types, PubOK, \A t \in Subs : SubOK(t), CountOK, NameOK, NEW s \in Subs, SubAction(s)
    PROVE  NameOK'
<1> USE DEF segment, pubVars
<1>1. Types' /\ Others(s) /\ pseg' = pseg /\ state' = state /\ ppc' = ppc
  BY SubTypes DEF Others
<1>2. /\ Orphaned' = Orphaned /\ Renewed' = Renewed
      /\ (ppc' = "ready" \/ Serving') = (ppc = "ready" \/ Serving)
  BY <1>1 DEF Orphaned, Renewed, Serving
<1>3. ASSUME NEW x \in Segs
      PROVE  /\ Count(x)' = Count(x) - (IF conn[s].seg = x THEN 1 ELSE 0)
                                     + (IF conn'[s].seg = x THEN 1 ELSE 0)
             /\ Count(x) \in Nat /\ Count(x)' \in Nat
             /\ (conn[s].seg = x => Count(x) >= 1) /\ refs[x] \in Int /\ refs'[x] \in Int /\ x # 0
  <2>1. Count(x)' = Count(x) - (IF conn[s].seg = x THEN 1 ELSE 0)
                             + (IF conn'[s].seg = x THEN 1 ELSE 0)
    BY <1>1, CountChange
  <2>2. Count(x) \in Nat /\ (conn[s].seg = x => Count(x) # 0)
    BY Counts DEF Users
  <2>3. refs[x] \in Int /\ refs'[x] \in Int /\ x # 0
    BY <1>1, Constants DEF Types, Segs
  <2> QED
    BY <2>1, <2>2, <2>3
\* Who starts to open the topic found it ready, so that its name leads somewhere.
<1>4. Orphaned /\ name = 0 => state # "Ready" /\ \A t \in Subs : ~Opens(t)'
  <2>1. SUFFICES ASSUME Orphaned, name = 0, NEW t \in Subs PROVE ~Opens(t)'
    BY DEF NameOK
  <2>2. state # "Ready" /\ ~Opens(t) /\ ~Opens(s)
    BY <2>1 DEF NameOK
  <2>3. CASE t = s
    BY <2>2, <2>3, OpensWhenReady
  <2>4. CASE t # s
    BY <1>1, <2>2, <2>4 DEF Others, Opens
  <2> QED
    BY <2>3, <2>4
<1>5. CASE Stays(s) \/ LetsGo(s)
  <2>1. UNCHANGED <<name, refs>>
    BY <1>5 DEF Stays, LetsGo
  <2>2. ASSUME NEW x \in Segs PROVE Count(x)' <= Count(x)
    BY <1>3, <1>5 DEF Stays, LetsGo, NoConn
  <2>3. ASSUME NEW x \in Segs, refs[x] > Count(x) PROVE refs[x] > Count(x)'
    BY <1>3, <2>2, <2>3
  <2>4. ASSUME NEW x \in Segs, Count(x)' # 0 PROVE Count(x) # 0
    BY <1>3, <2>2, <2>4
  <2>5. Orphaned => \A x \in Segs : Count(x)' # 0 \/ x = name => refs[x] > Count(x)'
    BY <2>3, <2>4 DEF NameOK
  <2>6. Renewed => \A x \in Segs : Count(x)' # 0 /\ x # name => refs[x] > Count(x)'
    BY <2>3, <2>4 DEF NameOK
  <2> QED
    BY <1>1, <1>2, <1>4, <2>1, <2>5, <2>6 DEF NameOK
<1>6. CASE Closing(s)
  <2> DEFINE y == conn[s].seg
  <2>1. y \in Segs /\ CloseSegment(y) /\ conn'[s].seg = 0
    BY <1>6 DEF Closing, NoConn
  <2>2. /\ refs[y] <= 1 => name' = 0
        /\ refs[y] > 1 => name' = name
    BY <2>1, CloseEffect
  <2>3. ASSUME NEW x \in Segs
        PROVE  /\ x = y => Count(x)' = Count(x) - 1 /\ refs'[x] = refs[x] - 1 /\ Count(x) >= 1
               /\ x # y => Count(x)' = Count(x) /\ refs'[x] = refs[x]
    <3>1. refs'[x] = IF x = y THEN refs[x] - 1 ELSE refs[x]
      BY <2>1, CloseEffect
    <3> QED
      BY <1>3, <2>1, <3>1
  <2>4. ASSUME NEW x \in Segs, refs[x] > Count(x) PROVE refs'[x] > Count(x)'
    BY <1>3, <2>3, <2>4
  <2>5. ASSUME NEW x \in Segs, Count(x)' # 0 PROVE Count(x) # 0
    BY <1>3, <2>3, <2>5
  <2>6. CASE Orphaned
    <3>1. refs[y] > 1
      BY <1>3, <2>1, <2>3, <2>6 DEF NameOK
    <3>2. \A x \in Segs : Count(x)' # 0 \/ x = name => refs'[x] > Count(x)'
      BY <2>4, <2>5, <2>6 DEF NameOK
    <3>3. name' = name /\ ~Renewed /\ ~(ppc = "ready" \/ Serving)
      BY <2>2, <2>6, <3>1 DEF Orphaned, Renewed, Serving
    <3> QED
      BY <1>1, <1>2, <1>4, <3>2, <3>3 DEF NameOK
  <2>7. CASE Renewed
    <3>1. ~Orphaned
      BY <2>7 DEF Orphaned, Renewed
    <3>2. name' = name \/ (name' = 0 /\ refs[y] <= 1)
      BY <1>3, <2>1, <2>2
    <3>3. ppc = "ready" \/ Serving => name' = pseg
      <4>1. SUFFICES ASSUME ppc = "ready" \/ Serving PROVE refs[y] > 1
        BY <2>2 DEF NameOK
      <4>2. name = pseg
        BY <4>1 DEF NameOK
      <4>3. CASE y = pseg
        BY <1>3, <2>1, <2>3, <4>3 DEF CountOK
      <4>4. CASE y # pseg
        BY <1>3, <2>1, <2>3, <2>7, <4>2, <4>4 DEF NameOK
      <4> QED
        BY <4>3, <4>4
    <3>4. ASSUME NEW x \in Segs, Count(x)' # 0, x # name' PROVE refs'[x] > Count(x)'
      <4>1. CASE x # name
        BY <2>4, <2>5, <2>7, <3>4, <4>1 DEF NameOK
      <4>2. CASE x = name
        <5>1. name' = 0 /\ refs[y] <= 1
          BY <3>2, <3>4, <4>2
        <5>2. CASE x = y
          BY <1>3, <2>3, <3>4, <5>1, <5>2 DEF CountOK
        <5>3. CASE x # y
          BY <1>3, <2>1, <2>3, <2>7, <4>2, <5>1, <5>3 DEF NameOK
        <5> QED
          BY <5>2, <5>3
      <4> QED
        BY <4>1, <4>2
    <3> QED
      BY <1>1, <1>2, <3>1, <3>3, <3>4 DEF NameOK
  <2>8. CASE ~Orphaned /\ ~Renewed
    <3>1. ~(ppc = "ready" \/ Serving)
      BY <2>8 DEF Renewed, Serving
    <3> QED
      BY <1>2, <2>8, <3>1 DEF NameOK
  <2> QED
    BY <2>6, <2>7, <2>8
<1>7. CASE Opening(s)
  <2>1. OpenSegment /\ conn'[s].seg = Opened /\ conn[s].seg = 0 /\ pc[s] = "open"
    BY <1>7 DEF Opening, NoConn
  <2>2. /\ Opened \in Segs /\ name' = Opened /\ (name # 0 => Opened = name)
        /\ \A x \in Segs : refs'[x] = IF x = Opened THEN refs[x] + 1 ELSE refs[x]
    BY <2>1, OpenEffect
  <2>3. \A x \in Segs : Count(x)' = Count(x) + (IF x = Opened THEN 1 ELSE 0)
    BY <1>3, <2>1
  <2>4. CASE Orphaned
    <3>1. Opened = name /\ name # 0
      BY <2>1, <2>2, <2>4 DEF NameOK, Opens
    <3>2. \A x \in Segs : Count(x)' # 0 \/ x = name => refs'[x] > Count(x)'
      <4>1. SUFFICES ASSUME NEW x \in Segs, Count(x)' # 0 \/ x = name PROVE refs'[x] > Count(x)'
        OBVIOUS
      <4>2. Count(x) # 0 \/ x = name
        BY <1>3, <2>3, <3>1, <4>1
      <4>3. refs[x] > Count(x)
        BY <2>4, <4>2 DEF NameOK
      <4> QED
        BY <1>3, <2>2, <2>3, <4>3
    <3>3. ~Renewed /\ ~(ppc = "ready" \/ Serving)
      BY <2>4 DEF Orphaned, Renewed, Serving
    <3> QED
      BY <1>1, <1>2, <2>2, <3>1, <3>2, <3>3 DEF NameOK
  <2>5. CASE Renewed
    <3>1. ~Orphaned
      BY <2>5 DEF Orphaned, Renewed
    <3>2. ppc = "ready" \/ Serving => name' = pseg
      <4>1. SUFFICES ASSUME ppc = "ready" \/ Serving PROVE name = pseg /\ pseg # 0
        BY <2>2
      <4> QED
        BY <4>1 DEF NameOK, PubOK, Serving
    <3>3. ASSUME NEW x \in Segs, Count(x)' # 0, x # name' PROVE refs'[x] > Count(x)'
      <4>1. x # Opened /\ x # name /\ Count(x)' = Count(x) /\ refs'[x] = refs[x]
        BY <1>3, <2>2, <2>3, <3>3
      <4> QED
        BY <2>5, <3>3, <4>1 DEF NameOK
    <3> QED
      BY <1>1, <1>2, <3>1, <3>2, <3>3 DEF NameOK
  <2>6. CASE ~Orphaned /\ ~Renewed
    <3>1. ~(ppc = "ready" \/ Serving)
      BY <2>6 DEF Renewed, Serving
    <3> QED
      BY <1>2, <2>6, <3>1 DEF NameOK
  <2> QED
    BY <2>4, <2>5, <2>6
<1> QED
  BY <1>5, <1>6, <1>7, SubKinds

-----------------------------------------------------------------------------
(* Who has attached to this generation *)

LEMMA InitAttach == Init => \A s \in Subs : AttachOK(s)
BY DEF Init, AttachOK, Rebuilding, Serving, Opens

LEMMA PubAttach ==
    ASSUME Types, PubOK, NEW s \in Subs, SubOK(s), AttachOK(s), PubAction
    PROVE  AttachOK(s)'
<1> USE DEF control, segment, Rebuilding, Serving, AttachOK
<1>1. subVars' = subVars /\ Opens(s)' = Opens(s)
  BY PubLeaves DEF subVars, Opens
<1>2. CASE PubBump
  <2>1. generation' = generation + 1 /\ ppc' = "clear"
    BY <1>2 DEF PubBump
  <2>2. attached[s] # generation' /\ gen[s] # generation'
    BY <2>1 DEF SubOK, Types
  <2> QED
    BY <1>1, <2>1, <2>2 DEF subVars
<1>3. CASE PubClear \/ PubRoute \/ PubReady
  <2>1. generation' = generation /\ Rebuilding /\ ppc' \in {"route", "ready", "scan"}
    BY <1>3 DEF PubClear, PubRoute, PubReady
  <2> QED
    BY <1>1, <2>1 DEF subVars
<1>4. CASE PubCollect \/ PubReap
  <2>1. generation' = generation /\ Serving /\ Serving' /\ ~Rebuilding' /\ pseg' = pseg
    BY <1>4 DEF PubCollect, PubReap
  <2> QED
    BY <1>1, <2>1 DEF subVars
<1>5. CASE PubStart \/ PubDrain \/ PubWipe \/ PubStop \/ PubLeave \/ PubCrash
  <2>1. ~Serving' /\ ~Rebuilding'
    BY <1>5 DEF PubStart, PubDrain, PubWipe, PubStop, PubLeave, PubCrash
  <2> QED
    BY <1>1, <2>1 DEF subVars
<1> QED
  BY <1>2, <1>3, <1>4, <1>5 DEF PubAction, PubStep

LEMMA SubAttach ==
    ASSUME Types, PubOK, \A t \in Subs : SubOK(t) /\ AttachOK(t), CountOK, NameOK,
           NEW s \in Subs, SubAction(s)
    PROVE  \A t \in Subs : AttachOK(t)'
<1> USE DEF control, segment, pubVars, GoTo
<1>1. Types' /\ Others(s)
  BY SubTypes
<1>2. ASSUME NEW t \in Subs \ {s} PROVE AttachOK(t)'
  <2>1. AttachOK(t)
    OBVIOUS
  <2> QED
    BY <1>1, <2>1 DEF Others, AttachOK, Rebuilding, Serving, Opens
<1>3. AttachOK(s)'
  <2>1. UNCHANGED <<state, generation, ppc, pseg>>
    BY <1>1 DEF Others
  <2>2. SubOK(s) /\ AttachOK(s)
    OBVIOUS
  <2>3. \/ attached'[s] = attached[s]
        \/ SubOpen(s) /\ attached'[s] = gen[s]
        \/ attached'[s] = 0
    BY DEF Types, SubAction, SubStep, SubStart, SubReadGeneration, SubReadState, SubClose, SubOpen,
           SubAddGeneration, SubAddReady, SubAdd, SubFail, SubAcquire, SubFill, SubDrop,
           SubRemoveGeneration, SubRemove, SubRelease, SubExit, SubStop, SubCrash, Forget
  <2>4. Opens(s)' => gen'[s] = gen[s] /\ gen[s] # 0 /\ (Opens(s) \/ state = "Ready")
    BY <2>2, OpensWhenReady DEF AttachOK
  <2>5. Rebuilding => generation > 0 /\ state # "Ready"
    BY DEF Rebuilding, PubOK
  <2>6. Rebuilding' = Rebuilding /\ Serving' = Serving
    BY <2>1 DEF Rebuilding, Serving
  <2>7. Rebuilding => attached'[s] # generation
    <3>1. SubOpen(s) => Opens(s)
      BY DEF SubOpen, Opens
    <3> QED
      BY <2>2, <2>3, <2>5, <3>1 DEF AttachOK
  <2>8. Rebuilding /\ Opens(s)' => gen'[s] # generation
    BY <2>2, <2>4, <2>5 DEF AttachOK
  <2>9. ASSUME Serving, attached'[s] = generation
        PROVE  /\ conn'[s].seg \in {0, pseg}
               /\ pc'[s] \notin {"fail", "drop"}
               /\ completed'[s] /\ pc'[s] # "open" => conn'[s].seg # 0
               /\ mine'[s] # 0 => conn'[s].seg # 0
    <3>1. generation > 0 /\ state = "Ready" /\ name = pseg /\ pseg # 0
      BY <2>9 DEF PubOK, NameOK, Serving
    <3>2. CASE SubOpen(s)
      <4>1. OpenSegment /\ conn'[s].seg = Opened /\ pc'[s] = "gen?"
        BY <3>2 DEF SubOpen, Types
      <4> QED
        BY <3>1, <4>1, OpenEffect
    <3>3. CASE ~SubOpen(s)
      <4>1. attached[s] = generation
        BY <2>3, <2>9, <3>1, <3>3
      <4>2. /\ conn[s].seg \in {0, pseg}
            /\ pc[s] \notin {"fail", "drop"}
            /\ completed[s] /\ pc[s] # "open" => conn[s].seg # 0
            /\ mine[s] # 0 => conn[s].seg # 0
        BY <2>2, <2>9, <4>1 DEF AttachOK
      <4>3. ~SubExit(s) /\ ~SubCrash(s) /\ ~SubFail(s) /\ ~SubDrop(s)
        BY <2>9, <3>1, <4>2 DEF SubExit, SubCrash, Forget, SubFail, SubDrop, Types
      <4>4. CASE SubStart(s) \/ SubReadGeneration(s) \/ SubAdd(s) \/ SubRemoveGeneration(s)
                 \/ SubRemove(s) \/ SubRelease(s) \/ SubStop(s)
        <5>1. /\ conn' = conn /\ completed' = completed /\ mine'[s] \in {0, mine[s]}
              /\ pc[s] # "open"
          BY <4>4 DEF Types, SubStart, SubReadGeneration, SubAdd, SubRemoveGeneration, SubRemove,
                      SubRelease, SubStop
        <5>2. pc'[s] \notin {"fail", "drop"}
          BY <4>4 DEF Types, SubStart, SubReadGeneration, SubAdd, SubRemoveGeneration, SubRemove,
                      SubRelease, SubStop
        <5> QED
          BY <4>2, <5>1, <5>2
      <4>5. CASE SubAddGeneration(s) \/ SubAddReady(s)
        <5>1. conn' = conn /\ completed' = completed /\ mine' = mine /\ pc[s] # "open"
              /\ pc'[s] \notin {"fail", "drop"}
          BY <3>1, <4>1, <4>5 DEF Types, SubAddGeneration, SubAddReady
        <5> QED
          BY <4>2, <5>1
      <4>6. CASE SubReadState(s)
        <5>1. pc[s] = "state" /\ conn' = conn /\ mine' = mine
          BY <4>6 DEF SubReadState
        <5>2. gen[s] # 0
          BY <2>2, <3>1, <4>1, <5>1 DEF SubOK, Types
        <5>3. completed' = completed /\ pc'[s] \notin {"fail", "drop"}
          BY <3>1, <4>6, <5>2 DEF SubReadState, Types
        <5> QED
          BY <4>2, <5>1, <5>3
      <4>7. CASE SubClose(s)
        <5>1. mine'[s] = 0 /\ conn'[s] = NoConn /\ pc'[s] = "open"
          BY <2>2, <4>7 DEF SubClose, SubOK, Types
        <5> QED
          BY <5>1 DEF NoConn
      <4>8. CASE SubAcquire(s)
        <5>1. conn' = conn /\ pc'[s] \notin {"fail", "drop"} /\ conn[s].seg # 0
          BY <2>2, <4>8 DEF SubAcquire, SubOK, Types
        <5> QED
          BY <4>2, <5>1
      <4>9. CASE SubFill(s)
        <5>1. conn' = conn /\ pc'[s] \notin {"fail", "drop"} /\ conn[s].seg # 0
          BY <2>2, <4>9 DEF SubFill, SubOK, Types
        <5> QED
          BY <4>2, <5>1
      <4> QED
        BY <3>3, <4>3, <4>4, <4>5, <4>6, <4>7, <4>8, <4>9 DEF SubAction, SubStep
    <3> QED
      BY <3>2, <3>3
  <2> QED
    BY <2>1, <2>4, <2>6, <2>7, <2>8, <2>9 DEF AttachOK
<1> QED
  BY <1>2, <1>3

-----------------------------------------------------------------------------
(* Bits and the slots that name them *)

LEMMA InitBits == Init => BitOK /\ SlotOK
BY DEF Init, BitOK, SlotOK, NoConn, Free, Rebuilding, Serving

\* The pair of a segment and a bit that a subscriber has.
LEMMA ConnIs ==
    ASSUME Types, NEW s \in Subs
    PROVE  /\ conn[s] = [seg |-> conn[s].seg, bit |-> conn[s].bit]
           /\ conn[s].seg \in Segs \cup {0} /\ conn[s].bit \in Bits \cup {0}
           /\ 0 \notin Bits /\ 0 \notin Segs
BY DEF Types, Conn, Bits, Segs

\* A step of a subscriber neither takes a bit from another nor gives it one that another has.
LEMMA SubBits ==
    ASSUME Types, \A t \in Subs : SubOK(t), CountOK, BitOK, NEW s \in Subs, SubAction(s)
    PROVE  BitOK'
<1> USE DEF segment
<1>1. Types' /\ Others(s)
  BY SubTypes
<1>2. \A t \in Subs \ {s} : conn'[t] = conn[t]
  BY <1>1 DEF Others
<1>3. \A t \in Subs : conn[t] = [seg |-> conn[t].seg, bit |-> conn[t].bit]
                      /\ conn[t].seg \in Segs \cup {0} /\ conn[t].bit \in Bits \cup {0}
  BY ConnIs
<1>4. 0 \notin Bits /\ 0 \notin Segs
  BY DEF Bits, Segs
<1>5. CASE Stays(s)
  BY <1>2, <1>5 DEF Stays, BitOK
<1>6. CASE LetsGo(s)
  BY <1>2, <1>6 DEF LetsGo, NoConn, BitOK
<1>7. CASE Closing(s)
  <2>1. conn[s].seg \in Segs /\ conn'[s] = NoConn
    BY <1>7 DEF Closing
  <2>2. ASSUME NEW t \in Subs \ {s}, conn[t].bit # 0 PROVE conn[t].bit \in cc'[conn[t].seg]
    <3>1. conn[t].bit \in cc[conn[t].seg] /\ conn[t] # conn[s]
      BY <2>2 DEF BitOK
    <3>2. conn[t].seg = conn[s].seg => conn[t].bit # conn[s].bit
      BY <1>3, <3>1
    <3>3. CASE cc' = cc
      BY <3>1, <3>3
    <3>4. CASE cc' = [cc EXCEPT ![conn[s].seg] = cc[conn[s].seg] \ {conn[s].bit}]
      BY <2>1, <3>1, <3>2, <3>4 DEF Types
    <3> QED
      BY <1>7, <3>3, <3>4 DEF Closing
  <2>3. conn'[s].bit = 0
    BY <2>1 DEF NoConn
  <2> QED
    BY <1>2, <2>2, <2>3 DEF BitOK
<1>8. CASE Opening(s)
  <2>1. /\ OpenSegment /\ conn'[s] = [seg |-> Opened, bit |-> FreeBit(Opened)]
        /\ cc' = [cc EXCEPT ![Opened] = cc[Opened] \cup ({FreeBit(Opened)} \ {0})]
    BY <1>8 DEF Opening
  <2>2. /\ Opened \in Segs /\ FreeBit(Opened) \in Bits \cup {0}
        /\ FreeBit(Opened) \notin cc[Opened] \ {0}
    BY <2>1, OpenTypes, FreeBitProperties
  <2>3. \A x \in Segs : cc[x] \subseteq cc'[x]
    BY <2>1 DEF Types
  <2>4. ASSUME NEW t \in Subs \ {s}, conn[t].bit # 0
        PROVE  conn[t].bit \in cc'[conn[t].seg] /\ conn[t] # conn'[s]
    <3>1. conn[t].bit \in cc[conn[t].seg] /\ conn[t].seg # 0
      BY <2>4, <1>3 DEF BitOK, SubOK
    <3>2. conn[t].seg \in Segs
      BY <1>3, <3>1
    <3>3. conn[t] # conn'[s]
      <4>1. SUFFICES ASSUME conn[t] = conn'[s] PROVE FALSE
        OBVIOUS
      <4>2. conn[t].seg = Opened /\ conn[t].bit = FreeBit(Opened)
        BY <2>1, <4>1
      <4> QED
        BY <2>2, <2>4, <3>1, <4>2
    <3> QED
      BY <2>3, <3>1, <3>2, <3>3
  <2>5. conn'[s].bit # 0 => conn'[s].bit \in cc'[conn'[s].seg]
    BY <2>1, <2>2 DEF Types
  <2>6. ASSUME conn'[s].bit # 0, NEW t \in Subs \ {s} PROVE conn[t] # conn'[s]
    <3>1. conn[t].bit = 0 => conn[t] # conn'[s]
      BY <2>6
    <3> QED
      BY <2>4, <3>1
  <2> QED
    BY <1>2, <2>4, <2>5, <2>6 DEF BitOK
<1> QED
  BY <1>5, <1>6, <1>7, <1>8, SubKinds

\* Where a publisher serves, what one that died has left stays: nobody opens another
\* segment, and the bits of this one that are given are free.
LEMMA LeftStays ==
    ASSUME Types, PubOK, NameOK, CountOK, Serving, NEW s \in Subs, SubOK(s), SubAction(s),
           NEW b \in Bits, Left(b)
    PROVE  Left(b)'
<1> USE DEF segment
<1>1. Types' /\ Others(s)
  BY SubTypes
<1>2. pseg' = pseg /\ name = pseg /\ pseg \in Segs /\ pseg # 0
  BY <1>1 DEF Others, pubVars, NameOK, PubOK, Serving, Types
<1>3. b \in cc[pseg] /\ \A t \in Subs : conn[t] # [seg |-> pseg, bit |-> b]
  BY DEF Left
<1>4. b # 0 /\ \A t \in Subs \ {s} : conn'[t] = conn[t]
  BY <1>1 DEF Others, Bits
<1>5. SUFFICES b \in cc'[pseg] /\ conn'[s] # [seg |-> pseg, bit |-> b]
  BY <1>2, <1>3, <1>4 DEF Left
<1>6. CASE Stays(s)
  BY <1>3, <1>6 DEF Stays
<1>7. CASE LetsGo(s)
  BY <1>2, <1>3, <1>7 DEF LetsGo, NoConn
<1>8. CASE Closing(s)
  <2>1. conn[s].seg = pseg => conn[s].bit # b
    <3>1. conn[s] = [seg |-> conn[s].seg, bit |-> conn[s].bit]
      BY ConnIs
    <3> QED
      BY <1>3, <3>1
  <2>2. conn'[s] # [seg |-> pseg, bit |-> b]
    BY <1>2, <1>8 DEF Closing, NoConn
  <2>3. CASE cc' = cc
    BY <1>3, <2>2, <2>3
  <2>4. CASE cc' = [cc EXCEPT ![conn[s].seg] = cc[conn[s].seg] \ {conn[s].bit}]
    BY <1>2, <1>3, <2>1, <2>2, <2>4 DEF Types
  <2> QED
    BY <1>8, <2>3, <2>4 DEF Closing
<1>9. CASE Opening(s)
  <2>1. /\ OpenSegment /\ conn'[s] = [seg |-> Opened, bit |-> FreeBit(Opened)]
        /\ cc' = [cc EXCEPT ![Opened] = cc[Opened] \cup ({FreeBit(Opened)} \ {0})]
    BY <1>9 DEF Opening
  <2>2. Opened = pseg
    BY <1>2, <2>1, OpenEffect
  <2>3. FreeBit(pseg) \notin cc[pseg] \ {0}
    BY FreeBitProperties
  <2>4. b # FreeBit(pseg)
    BY <1>3, <1>4, <2>3
  <2>5. conn'[s] # [seg |-> pseg, bit |-> b]
    BY <2>1, <2>2, <2>4
  <2> QED
    BY <1>2, <1>3, <2>1, <2>2, <2>5 DEF Types
<1> QED
  BY <1>6, <1>7, <1>8, <1>9, SubKinds

\* A step of a subscriber keeps what SlotOK says if it leaves alone what the slots name,
\* and the slots that are kept stay kept.
LEMMA SlotsFollow ==
    ASSUME Types, PubOK, NameOK, CountOK, SlotOK, NEW s \in Subs, SubOK(s), SubAction(s),
           \A i \in Slots : slot'[i].cc = slot[i].cc,
           \A i \in Slots : (\E t \in Subs : mine[t] = i) => \E t \in Subs : mine'[t] = i,
           Serving => \A i \in Slots : Kept(i) => Kept(i)'
    PROVE  SlotOK'
<1>1. Types' /\ UNCHANGED <<ppc, pseg, stale>>
  BY SubTypes DEF Others, pubVars
<1>2. \A i \in Slots : slot[i].cc \in Bits \cup {0}
  BY DEF Types, Slot
<1>3. Serving => \A b \in Bits : Left(b) => Left(b)'
  BY LeftStays
<1>4. ppc = "bump" \/ Rebuilding => \A i \in Slots : slot'[i].cc # 0 => \E t \in Subs : mine'[t] = i
  BY DEF SlotOK
<1>5. ASSUME Serving, NEW i \in Slots, slot'[i].cc # 0, ~Kept(i)'
      PROVE  /\ Left(slot[i].cc)'
             /\ \A j \in Slots \ {i} : slot'[j].cc = slot'[i].cc => Kept(j)'
  <2>1. slot[i].cc # 0 /\ ~Kept(i)
    BY <1>5
  <2>2. Left(slot[i].cc) /\ \A j \in Slots \ {i} : slot[j].cc = slot[i].cc => Kept(j)
    BY <1>5, <2>1 DEF SlotOK
  <2> QED
    BY <1>2, <1>3, <1>5, <2>1, <2>2
<1>6. ASSUME ppc = "reap", NEW b \in stale
      PROVE  Left(b)' /\ \A i \in Slots : slot'[i].cc = b => Kept(i)'
  <2>1. Serving /\ b \in Bits
    BY <1>6 DEF Serving, Types
  <2>2. Left(b) /\ \A i \in Slots : slot[i].cc = b => Kept(i)
    BY <1>6 DEF SlotOK
  <2> QED
    BY <1>3, <2>1, <2>2
<1>7. (ppc = "bump" \/ Rebuilding)' = (ppc = "bump" \/ Rebuilding) /\ Serving' = Serving
  BY <1>1 DEF Rebuilding, Serving
<1> QED
  BY <1>1, <1>4, <1>5, <1>6, <1>7 DEF SlotOK

\* Where the publisher's segment and generation stay, and no slot or connection changes,
\* what is kept is kept.
LEMMA PubKeeps ==
    ASSUME UNCHANGED <<generation, pseg, mine, attached, conn>>, ppc # "bump", ppc' # "bump",
           NEW i, slot'[i].cc = slot[i].cc
    PROVE  Kept(i)' <=> Kept(i)
BY DEF Kept, Late

\* disconnect_receivers takes no bit that somebody living has.
LEMMA PubBits ==
    ASSUME Types, PubOK, BitOK, SlotOK, PubAction
    PROVE  BitOK'
<1> USE DEF control, segment
<1>1. conn' = conn
  BY PubLeaves DEF subVars
<1>2. CASE PubReap
  <2>1. cc' = [cc EXCEPT ![pseg] = cc[pseg] \ stale] /\ ppc = "reap" /\ pseg \in Segs
    BY <1>2 DEF PubReap, PubOK, Types
  <2>2. ASSUME NEW s \in Subs, conn[s].bit # 0 PROVE conn[s].bit \in cc'[conn[s].seg]
    <3>1. conn[s].bit \in cc[conn[s].seg]
      BY <2>2 DEF BitOK
    <3>2. CASE conn[s].seg # pseg
      BY <2>1, <3>1, <3>2 DEF Types
    <3>3. CASE conn[s].seg = pseg
      <4>1. conn[s] = [seg |-> pseg, bit |-> conn[s].bit] /\ conn[s].bit \in Bits
        BY <2>2, <3>3, ConnIs
      <4>2. ~Left(conn[s].bit)
        BY <4>1 DEF Left
      <4>3. conn[s].bit \notin stale
        BY <2>1, <4>2 DEF SlotOK
      <4> QED
        BY <2>1, <3>1, <3>3, <4>3 DEF Types
    <3> QED
      BY <3>2, <3>3
  <2> QED
    BY <1>1, <2>2 DEF BitOK
<1>3. CASE ~PubReap
  <2>1. cc' = cc
    BY <1>3 DEF PubAction, PubStep, PubStart, PubDrain, PubWipe, PubBump, PubClear, PubRoute,
                PubReady, PubCollect, PubStop, PubLeave, PubCrash
  <2> QED
    BY <1>1, <2>1 DEF BitOK
<1> QED
  BY <1>2, <1>3

LEMMA PubSlots ==
    ASSUME Types, PubOK, \A s \in Subs : SubOK(s) /\ AttachOK(s), BitOK, SlotOK, PubAction
    PROVE  SlotOK'
<1> USE DEF control, segment, Rebuilding, Serving
<1>1. mine' = mine /\ attached' = attached /\ conn' = conn
  BY PubLeaves DEF subVars
<1>2. CASE PubStart \/ PubDrain \/ PubStop \/ PubLeave \/ PubCrash
  <2>1. ppc' \in {"drain", "wipe", "leave", "none"}
    BY <1>2 DEF PubStart, PubDrain, PubStop, PubLeave, PubCrash
  <2> QED
    BY <2>1 DEF SlotOK
<1>3. CASE PubWipe
  <2>1. ppc' = "bump" /\ \A i \in Slots : slot'[i].cc = 0
    BY <1>3 DEF PubWipe, Free
  <2> QED
    BY <2>1 DEF SlotOK
<1>4. CASE PubBump \/ PubClear \/ PubRoute
  <2>1. slot' = slot /\ (ppc = "bump" \/ Rebuilding) /\ ppc' \in {"clear", "route", "ready"}
    BY <1>4 DEF PubBump, PubClear, PubRoute
  <2> QED
    BY <1>1, <2>1 DEF SlotOK
\* Whoever has a slot when the topic becomes ready has taken it too late.
<1>5. CASE PubReady
  <2>1. slot' = slot /\ generation' = generation /\ Rebuilding /\ ppc' = "scan"
    BY <1>5 DEF PubReady
  <2>2. ASSUME NEW i \in Slots, slot'[i].cc # 0 PROVE Kept(i)'
    <3>1. PICK s \in Subs : mine[s] = i
      BY <2>1, <2>2 DEF SlotOK
    <3>2. attached[s] # generation
      BY <2>1 DEF AttachOK
    <3> QED
      BY <1>1, <2>1, <3>1, <3>2 DEF Kept, Late
  <2> QED
    BY <2>1, <2>2 DEF SlotOK
<1>6. CASE PubCollect
  <2>1. /\ UNCHANGED <<generation, pseg, cc>> /\ ppc = "scan" /\ ppc' = "reap"
    BY <1>6 DEF PubCollect
  <2>2. PICK dead \in (SUBSET Silent) \ {{}} :
          /\ stale' = {slot[i].cc : i \in dead}
          /\ slot' = [i \in Slots |-> IF i \in dead THEN Free ELSE slot[i]]
    BY <1>6 DEF PubCollect
  <2>3. ASSUME NEW i \in Slots
        PROVE  /\ i \in dead => slot'[i].cc = 0
               /\ i \notin dead => slot'[i].cc = slot[i].cc /\ (Kept(i)' <=> Kept(i))
    <3>1. i \in dead => slot'[i].cc = 0
      BY <2>2 DEF Free
    <3>2. i \notin dead => slot'[i].cc = slot[i].cc
      BY <2>2
    <3> QED
      BY <1>1, <2>1, <3>1, <3>2, PubKeeps
  <2>4. \A b : Left(b)' <=> Left(b)
    BY <1>1, <2>1 DEF Left
  \* A slot that goes silent is one that nobody keeps.
  <2>5. ASSUME NEW i \in dead PROVE i \in Slots /\ slot[i].cc # 0 /\ ~Kept(i)
    <3>1. i \in Slots /\ slot[i].cc # 0 /\ \A s \in Subs : Alive(s) => mine[s] # i
      BY DEF Silent
    <3>2. i # 0
      BY <3>1 DEF Slots
    <3> QED
      BY <3>1, <3>2 DEF Kept, SubOK
  <2>6. ASSUME NEW i \in dead
        PROVE  /\ Left(slot[i].cc)
               /\ \A j \in Slots \ {i} : slot[j].cc = slot[i].cc => Kept(j)
    BY <2>1, <2>5 DEF SlotOK
  <2>7. ASSUME NEW b \in stale'
        PROVE  Left(b)' /\ \A j \in Slots : slot'[j].cc = b => Kept(j)'
    <3>1. PICK i \in dead : b = slot[i].cc
      BY <2>2, <2>7
    <3>2. Left(b)'
      BY <2>4, <2>6, <3>1
    <3>3. ASSUME NEW j \in Slots, slot'[j].cc = b PROVE Kept(j)'
      <4>1. j \notin dead
        BY <2>3, <2>5, <3>1, <3>3
      <4>2. slot[j].cc = slot[i].cc /\ j # i /\ (Kept(j)' <=> Kept(j))
        BY <2>3, <3>1, <3>3, <4>1
      <4> QED
        BY <2>6, <4>2
    <3> QED
      BY <3>2, <3>3
  <2>8. ASSUME NEW i \in Slots, slot'[i].cc # 0, ~Kept(i)'
        PROVE  /\ Left(slot[i].cc)'
               /\ \A j \in Slots \ {i} : slot'[j].cc = slot'[i].cc => Kept(j)'
    <3>1. i \notin dead /\ slot'[i].cc = slot[i].cc /\ ~Kept(i)
      BY <2>3, <2>8
    <3>2. Left(slot[i].cc) /\ \A j \in Slots \ {i} : slot[j].cc = slot[i].cc => Kept(j)
      BY <2>1, <2>8, <3>1 DEF SlotOK
    <3>3. ASSUME NEW j \in Slots \ {i}, slot'[j].cc = slot'[i].cc PROVE Kept(j)'
      <4>1. j \notin dead /\ slot[j].cc = slot[i].cc /\ (Kept(j)' <=> Kept(j))
        BY <2>3, <2>8, <3>1, <3>3
      <4> QED
        BY <3>2, <4>1
    <3>4. Left(slot[i].cc)'
      BY <1>1, <2>1, <3>1, <3>2 DEF Left
    <3> QED
      BY <3>3, <3>4
  <2> QED
    BY <2>1, <2>7, <2>8 DEF SlotOK
<1>7. CASE PubReap
  <2>1. /\ UNCHANGED <<generation, pseg, slot>> /\ ppc = "reap" /\ ppc' = "scan"
        /\ cc' = [cc EXCEPT ![pseg] = cc[pseg] \ stale] /\ pseg \in Segs
    BY <1>7 DEF PubReap, PubOK, Types
  <2>2. \A i \in Slots : Kept(i)' <=> Kept(i)
    BY <1>1, <2>1, PubKeeps
  <2>3. \A b : Left(b) /\ b \notin stale => Left(b)'
    BY <1>1, <2>1 DEF Left, Types
  <2>4. ASSUME NEW i \in Slots, slot'[i].cc # 0, ~Kept(i)'
        PROVE  /\ Left(slot[i].cc)'
               /\ \A j \in Slots \ {i} : slot'[j].cc = slot'[i].cc => Kept(j)'
    <3>1. slot[i].cc # 0 /\ ~Kept(i)
      BY <2>1, <2>2, <2>4
    <3>2. Left(slot[i].cc) /\ \A j \in Slots \ {i} : slot[j].cc = slot[i].cc => Kept(j)
      BY <2>1, <3>1 DEF SlotOK
    <3>3. slot[i].cc \notin stale
      BY <2>1, <3>1 DEF SlotOK
    <3>4. Left(slot[i].cc)'
      BY <1>1, <2>1, <3>2, <3>3 DEF Left, Types
    <3> QED
      BY <2>1, <2>2, <3>2, <3>4
  <2> QED
    BY <2>1, <2>4 DEF SlotOK
<1> QED
  BY <1>2, <1>3, <1>4, <1>5, <1>6, <1>7 DEF PubAction, PubStep

\* A subscriber with no slot keeps none; one with a slot keeps it while it has the slot and
\* its connection, or has taken it too late.
LEMMA KeepsOn ==
    ASSUME Types, NEW s \in Subs, Others(s), NEW i \in Slots, slot'[i].cc = slot[i].cc, Kept(i),
           \/ mine[s] # i
           \/ /\ mine'[s] = mine[s] /\ attached'[s] = attached[s]
              /\ conn'[s] = conn[s] \/ Late(s)
    PROVE  Kept(i)'
<1>1. UNCHANGED <<generation, ppc, pseg>>
  BY DEF Others, pubVars
<1>2. PICK t \in Subs : mine[t] = i /\ (Late(t) \/ conn[t] = [seg |-> pseg, bit |-> slot[i].cc])
  BY DEF Kept
<1>3. /\ mine'[t] = i /\ attached'[t] = attached[t]
      /\ conn'[t] = conn[t] \/ Late(t)
  BY <1>2 DEF Others
<1>4. mine'[t] = i /\ (Late(t)' \/ conn'[t] = [seg |-> pseg, bit |-> slot[i].cc])
  BY <1>1, <1>2, <1>3 DEF Late
<1> QED
  BY <1>1, <1>4 DEF Kept

LEMMA SubSlots ==
    ASSUME Types, PubOK, \A t \in Subs : SubOK(t) /\ AttachOK(t), CountOK, NameOK, BitOK, SlotOK,
           ~StaleCrash, NEW s \in Subs, SubAction(s)
    PROVE  SlotOK'
<1> USE DEF control, segment, pubVars
<1>1. Types' /\ Others(s) /\ SubOK(s) /\ AttachOK(s) /\ UNCHANGED <<generation, ppc, pseg, stale>>
  BY SubTypes DEF Others
<1>2. \A t \in Subs \ {s} : mine'[t] = mine[t]
  BY <1>1 DEF Others
<1>3. 0 \notin Slots /\ \A i \in Slots : slot[i].cc \in Bits \cup {0}
  BY DEF Slots, Types, Slot
<1>4. Serving => \A b \in Bits : Left(b) => Left(b)'
  BY <1>1, LeftStays
\* Steps that leave the slots alone, and keep the one the subscriber has.
<1>5. CASE \/ SubStart(s) \/ SubReadGeneration(s) \/ SubReadState(s) \/ SubAddGeneration(s)
           \/ SubAddReady(s) \/ SubAdd(s) \/ SubDrop(s) \/ SubRemoveGeneration(s)
           \/ SubRemove(s) \/ SubStop(s)
  <2>1. slot' = slot /\ mine' = mine /\ attached' = attached
    BY <1>5 DEF SubStart, SubReadGeneration, SubReadState, SubAddGeneration, SubAddReady, SubAdd,
                SubDrop, SubRemoveGeneration, SubRemove, SubStop
  <2>2. Serving => conn'[s] = conn[s] \/ Late(s)
    <3>1. CASE SubDrop(s)
      BY <1>1, <3>1 DEF SubDrop, AttachOK, Late
    <3>2. CASE ~SubDrop(s)
      BY <1>5, <3>2 DEF SubStart, SubReadGeneration, SubReadState, SubAddGeneration, SubAddReady,
                        SubAdd, SubRemoveGeneration, SubRemove, SubStop
    <3> QED
      BY <3>1, <3>2
  <2>3. Serving => \A i \in Slots : Kept(i) => Kept(i)'
    BY <1>1, <2>1, <2>2, KeepsOn
  <2> QED
    BY <1>1, <2>1, <2>3, SlotsFollow
\* Steps of a subscriber that has no slot.
<1>6. CASE SubClose(s) \/ SubOpen(s) \/ SubFail(s) \/ SubExit(s)
  <2>1. slot' = slot /\ mine[s] = 0 /\ mine'[s] = 0
    BY <1>1, <1>6 DEF SubClose, SubOpen, SubFail, SubExit, Forget, SubOK, Types
  <2>2. Serving => \A i \in Slots : Kept(i) => Kept(i)'
    BY <1>1, <1>3, <2>1, KeepsOn
  <2>3. \A i \in Slots : (\E t \in Subs : mine[t] = i) => \E t \in Subs : mine'[t] = i
    BY <1>2, <1>3, <2>1
  <2> QED
    BY <1>1, <2>1, <2>2, <2>3, SlotsFollow
<1>7. CASE SubAcquire(s)
  <2>1. mine[s] = 0 /\ \A i \in Slots : slot'[i].cc = slot[i].cc
    <3>1. mine[s] = 0
      BY <1>1, <1>7 DEF SubAcquire, SubOK
    <3>2. ASSUME NEW k \in Slots, slot' = [slot EXCEPT ![k].used = TRUE]
          PROVE  \A i \in Slots : slot'[i].cc = slot[i].cc
      BY <3>2 DEF Types, Slot
    <3>3. slot' = slot \/ \E k \in Slots : slot' = [slot EXCEPT ![k].used = TRUE]
      BY <1>7 DEF SubAcquire
    <3> QED
      BY <3>1, <3>2, <3>3
  <2>2. Serving => \A i \in Slots : Kept(i) => Kept(i)'
    BY <1>1, <1>3, <2>1, KeepsOn
  <2>3. \A i \in Slots : (\E t \in Subs : mine[t] = i) => \E t \in Subs : mine'[t] = i
    BY <1>2, <1>3, <2>1
  <2> QED
    BY <1>1, <2>1, <2>2, <2>3, SlotsFollow
\* The slot names the bit of the one that fills it, in the segment of this generation if it
\* has attached to this generation.
<1>8. CASE SubFill(s)
  <2>0. PICK m \in Slots : m = mine[s]
    BY <1>1, <1>8 DEF SubFill, SubOK, Types
  <2>1. /\ mine' = mine /\ attached' = attached /\ conn' = conn /\ cc' = cc
        /\ conn[s].bit # 0
    BY <1>1, <1>8 DEF SubFill, SubOK, Types
  <2>2. slot'[m].cc = conn[s].bit /\ \A i \in Slots \ {m} : slot'[i].cc = slot[i].cc
    BY <1>8, <2>0, <2>1 DEF SubFill, Types, Slot
  <2>3. ASSUME Serving PROVE Kept(m)'
    <3>1. CASE attached[s] # generation
      BY <1>1, <2>0, <2>1, <3>1 DEF Kept, Late
    <3>2. CASE attached[s] = generation
      <4>1. conn[s].seg = pseg
        BY <1>1, <1>3, <2>0, <2>1, <2>3, <3>2 DEF AttachOK
      <4>2. conn[s] = [seg |-> pseg, bit |-> slot'[m].cc]
        BY <2>2, <4>1, ConnIs
      <4> QED
        BY <1>1, <2>0, <2>1, <4>2 DEF Kept
    <3> QED
      BY <3>1, <3>2
  <2>4. ASSUME NEW i \in Slots \ {m}, Kept(i) PROVE Kept(i)'
    BY <1>1, <2>0, <2>1, <2>2, <2>4, KeepsOn
  <2>5. ppc = "bump" \/ Rebuilding =>
           \A i \in Slots : slot'[i].cc # 0 => \E t \in Subs : mine'[t] = i
    BY <2>0, <2>1, <2>2 DEF SlotOK
  <2>6. ASSUME Serving, NEW i \in Slots, slot'[i].cc # 0, ~Kept(i)'
        PROVE  /\ Left(slot[i].cc)'
               /\ \A j \in Slots \ {i} : slot'[j].cc = slot'[i].cc => Kept(j)'
    <3>1. i # m /\ slot'[i].cc = slot[i].cc /\ slot[i].cc # 0 /\ ~Kept(i)
      BY <2>2, <2>3, <2>4, <2>6
    <3>2. Left(slot[i].cc) /\ \A j \in Slots \ {i} : slot[j].cc = slot[i].cc => Kept(j)
      BY <2>6, <3>1 DEF SlotOK
    <3>3. Left(slot[i].cc)'
      BY <1>1, <2>1, <3>1, <3>2 DEF Left
    <3>4. ASSUME NEW j \in Slots \ {i}, slot'[j].cc = slot'[i].cc PROVE Kept(j)'
      <4>1. CASE j = m
        BY <2>3, <2>6, <4>1
      <4>2. CASE j # m
        BY <2>2, <2>4, <3>1, <3>2, <3>4, <4>2
      <4> QED
        BY <4>1, <4>2
    <3> QED
      BY <3>3, <3>4
  <2>7. ASSUME ppc = "reap", NEW b \in stale
        PROVE  Left(b)' /\ \A i \in Slots : slot'[i].cc = b => Kept(i)'
    <3>1. Serving /\ Left(b) /\ \A i \in Slots : slot[i].cc = b => Kept(i)
      BY <2>7 DEF SlotOK, Serving
    <3>2. Left(b)'
      BY <1>1, <2>1, <3>1 DEF Left
    <3> QED
      BY <2>2, <2>3, <2>4, <3>1, <3>2
  <2> QED
    BY <1>1, <2>5, <2>6, <2>7 DEF SlotOK, Rebuilding, Serving
<1>9. CASE SubRelease(s)
  <2> DEFINE m == mine[s]
  <2>1. /\ mine'[s] = 0 /\ attached' = attached /\ conn' = conn /\ cc' = cc
        /\ slot' = [i \in Slots |-> IF i = m THEN Free ELSE slot[i]]
    BY <1>9 DEF SubRelease, Types
  <2>2. \A i \in Slots : /\ i = m => slot'[i].cc = 0
                         /\ i # m => slot'[i].cc = slot[i].cc
    BY <2>1 DEF Free
  <2>3. ASSUME NEW i \in Slots, i # m, Kept(i) PROVE Kept(i)'
    BY <1>1, <2>2, <2>3, KeepsOn
  <2>4. ppc = "bump" \/ Rebuilding =>
           \A i \in Slots : slot'[i].cc # 0 => \E t \in Subs : mine'[t] = i
    <3>1. SUFFICES ASSUME ppc = "bump" \/ Rebuilding, NEW i \in Slots, slot'[i].cc # 0
                   PROVE  \E t \in Subs : mine'[t] = i
      OBVIOUS
    <3>2. i # m /\ slot[i].cc # 0
      BY <2>2, <3>1
    <3>3. PICK t \in Subs : mine[t] = i
      BY <3>1, <3>2 DEF SlotOK
    <3> QED
      BY <1>2, <3>2, <3>3
  <2>5. ASSUME Serving, NEW i \in Slots, slot'[i].cc # 0, ~Kept(i)'
        PROVE  /\ Left(slot[i].cc)'
               /\ \A j \in Slots \ {i} : slot'[j].cc = slot'[i].cc => Kept(j)'
    <3>1. i # m /\ slot'[i].cc = slot[i].cc /\ slot[i].cc # 0 /\ ~Kept(i)
      BY <2>2, <2>3, <2>5
    <3>2. Left(slot[i].cc) /\ \A j \in Slots \ {i} : slot[j].cc = slot[i].cc => Kept(j)
      BY <2>5, <3>1 DEF SlotOK
    <3>3. Left(slot[i].cc)'
      BY <1>1, <2>1, <3>1, <3>2 DEF Left
    <3>4. ASSUME NEW j \in Slots \ {i}, slot'[j].cc = slot'[i].cc PROVE Kept(j)'
      <4>1. j # m /\ slot[j].cc = slot[i].cc
        BY <2>2, <2>5, <3>1, <3>4
      <4> QED
        BY <2>3, <3>2, <4>1
    <3> QED
      BY <3>3, <3>4
  <2>6. ASSUME ppc = "reap", NEW b \in stale
        PROVE  Left(b)' /\ \A i \in Slots : slot'[i].cc = b => Kept(i)'
    <3>1. b # 0 /\ Left(b) /\ \A i \in Slots : slot[i].cc = b => Kept(i)
      BY <2>6 DEF SlotOK, Types, Bits
    <3>2. Left(b)'
      BY <1>1, <2>1, <3>1 DEF Left
    <3>3. ASSUME NEW i \in Slots, slot'[i].cc = b PROVE Kept(i)'
      BY <2>2, <2>3, <3>1, <3>3
    <3> QED
      BY <3>2, <3>3
  <2> QED
    BY <1>1, <2>4, <2>5, <2>6 DEF SlotOK, Rebuilding, Serving
\* One that dies leaves its slot with its bit, or has none.
<1>10. CASE SubCrash(s)
  <2> DEFINE m == mine[s]
  <2>1. /\ slot' = slot /\ cc' = cc /\ mine'[s] = 0 /\ conn'[s] = NoConn
        /\ m = 0 \/ (attached[s] = generation /\ ppc # "bump")
    BY <1>10 DEF SubCrash, Forget, Types
  <2>2. ASSUME NEW i \in Slots, i # m, Kept(i) PROVE Kept(i)'
    BY <1>1, <2>1, <2>2, KeepsOn
  <2>3. ASSUME ppc = "bump" \/ Rebuilding PROVE m = 0
    BY <1>1, <2>1, <2>3 DEF AttachOK, Rebuilding
  <2>4. ppc = "bump" \/ Rebuilding =>
           \A i \in Slots : slot'[i].cc # 0 => \E t \in Subs : mine'[t] = i
    <3>1. SUFFICES ASSUME ppc = "bump" \/ Rebuilding, NEW i \in Slots, slot'[i].cc # 0
                   PROVE  \E t \in Subs : mine'[t] = i
      OBVIOUS
    <3>2. PICK t \in Subs : mine[t] = i
      BY <2>1, <3>1 DEF SlotOK
    <3>3. i # m
      BY <1>3, <2>3, <3>1
    <3> QED
      BY <1>2, <3>2, <3>3
  \* The slot of the one that dies, where it was kept by nobody else.
  <2>5. ASSUME NEW i \in Slots, Kept(i), ~Kept(i)'
        PROVE  i = m /\ conn[s] = [seg |-> pseg, bit |-> slot[i].cc]
    <3>1. i = m
      BY <2>2, <2>5
    <3>2. PICK t \in Subs : mine[t] = i /\ (Late(t) \/ conn[t] = [seg |-> pseg, bit |-> slot[i].cc])
      BY <2>5 DEF Kept
    <3>3. t = s
      <4>1. SUFFICES ASSUME t # s PROVE FALSE
        OBVIOUS
      <4>2. /\ mine'[t] = i /\ attached'[t] = attached[t] /\ conn'[t] = conn[t]
        BY <1>1, <3>2, <4>1 DEF Others
      <4> QED
        BY <1>1, <2>1, <2>5, <3>2, <4>2 DEF Kept, Late
    <3>4. ~Late(s)
      BY <1>3, <2>1, <3>1 DEF Late
    <3> QED
      BY <3>1, <3>2, <3>3, <3>4
  <2>6. ASSUME Serving, NEW i \in Slots, slot[i].cc # 0, ~Kept(i)'
        PROVE  /\ Left(slot[i].cc)'
               /\ \A j \in Slots \ {i} : slot[j].cc = slot[i].cc => Kept(j)'
    <3>1. CASE Kept(i)
      <4>1. i = m /\ conn[s] = [seg |-> pseg, bit |-> slot[i].cc]
        BY <2>5, <2>6, <3>1
      <4>2. conn[s].seg = pseg /\ conn[s].bit = slot[i].cc
        BY <4>1
      <4>3. slot[i].cc \in cc[pseg] /\ \A t \in Subs \ {s} : conn[t] # conn[s]
        BY <2>6, <4>2 DEF BitOK
      <4>4. \A t \in Subs : conn'[t] # [seg |-> pseg, bit |-> slot[i].cc]
        <5>1. \A t \in Subs \ {s} : conn'[t] = conn[t]
          BY <1>1 DEF Others
        <5>2. pseg # 0
          BY <2>6 DEF PubOK, Serving
        <5> QED
          BY <2>1, <4>1, <4>3, <5>1, <5>2 DEF NoConn
      <4>5. Left(slot[i].cc)'
        BY <1>1, <2>1, <4>3, <4>4 DEF Left
      <4>6. ASSUME NEW j \in Slots \ {i}, slot[j].cc = slot[i].cc PROVE Kept(j)'
        <5>1. ~Left(slot[j].cc)
          BY <4>1, <4>6 DEF Left
        <5>2. Kept(j)
          BY <2>6, <4>6, <5>1 DEF SlotOK
        <5> QED
          BY <2>2, <4>1, <4>6, <5>2
      <4> QED
        BY <4>5, <4>6
    <3>2. CASE ~Kept(i)
      <4>1. Left(slot[i].cc) /\ \A j \in Slots \ {i} : slot[j].cc = slot[i].cc => Kept(j)
        BY <2>6, <3>2 DEF SlotOK
      <4>2. Left(slot[i].cc)'
        BY <1>3, <1>4, <2>1, <2>6, <4>1 DEF Left
      <4>3. ASSUME NEW j \in Slots \ {i}, slot[j].cc = slot[i].cc PROVE Kept(j)'
        <5>1. Kept(j) /\ conn[s] # [seg |-> pseg, bit |-> slot[j].cc]
          BY <4>1, <4>3 DEF Left
        <5> QED
          BY <2>5, <5>1
      <4> QED
        BY <4>2, <4>3
    <3> QED
      BY <3>1, <3>2
  <2>7. ASSUME ppc = "reap", NEW b \in stale
        PROVE  Left(b)' /\ \A i \in Slots : slot[i].cc = b => Kept(i)'
    <3>1. /\ Serving /\ b \in Bits /\ Left(b)
          /\ \A i \in Slots : slot[i].cc = b => Kept(i)
      BY <2>7 DEF SlotOK, Serving, Types
    <3>2. conn[s] # [seg |-> pseg, bit |-> b]
      BY <3>1 DEF Left
    <3>3. ASSUME NEW i \in Slots, slot[i].cc = b PROVE Kept(i)'
      BY <2>5, <3>1, <3>2, <3>3
    <3> QED
      BY <1>4, <3>1, <3>3
  <2> QED
    BY <1>1, <2>1, <2>4, <2>6, <2>7 DEF SlotOK, Rebuilding, Serving
<1> QED
  BY <1>5, <1>6, <1>7, <1>8, <1>9, <1>10 DEF SubAction, SubStep

-----------------------------------------------------------------------------
(* The theorems *)

\* The counters stay within the model's bounds.
Bounds ==
    /\ ppc \in {"drain", "wipe", "bump"} => generation < MaxGen
    /\ generation <= MaxGen /\ segs <= MaxSeg /\ peers \in Nat

Actions == PubAction \/ \E s \in Subs : SubAction(s)

LEMMA OpenBound == OpenSegment /\ segs <= MaxSeg => segs' <= MaxSeg
BY TopicAssumption DEF OpenSegment, Opened, Segs

LEMMA NextIsActions == Next => Actions
BY TopicAssumption DEF Next, Actions, PubAction, SubAction

LEMMA InitAttaching == Init => Attaching /\ BitOK /\ SlotOK
BY InitTypes, InitPlaces, InitCounts, InitAttach, InitBits DEF Attaching

LEMMA AttachingKept ==
    ASSUME Attaching, ~QuickRestart, [Next]_vars
    PROVE  Attaching'
<1>1. CASE PubAction
  <2>1. Types' /\ PubOK' /\ (\A s \in Subs : SubOK(s)') /\ CountOK' /\ NameOK'
    BY <1>1, PubTypes, PubPlaces, PubCounts, PubNames DEF Attaching
  <2>2. ASSUME NEW s \in Subs PROVE AttachOK(s)'
    BY <1>1, PubAttach DEF Attaching
  <2> QED
    BY <2>1, <2>2 DEF Attaching
<1>2. ASSUME NEW s \in Subs, SubAction(s) PROVE Attaching'
  <2>1. Types' /\ PubOK' /\ (\A t \in Subs : SubOK(t)') /\ CountOK' /\ NameOK'
    BY <1>2, SubTypes, SubPlaces, SubCounts, SubNames DEF Attaching
  <2>2. \A t \in Subs : AttachOK(t)'
    BY <1>2, SubAttach DEF Attaching
  <2> QED
    BY <2>1, <2>2 DEF Attaching
<1>3. CASE UNCHANGED vars
  <2>1. UNCHANGED <<control, segment, pubVars, subVars>>
    BY <1>3 DEF vars
  <2>2. Types' /\ PubOK'
    BY <2>1 DEF Attaching, Types, PubOK, Rebuilding, Serving, control, segment, pubVars, subVars
  <2>3. \A s \in Subs : SubOK(s)' /\ AttachOK(s)'
    BY <2>1 DEF Attaching, SubOK, AttachOK, Alive, Opens, Rebuilding, Serving, control, pubVars,
                subVars
  <2>4. CountOK' /\ NameOK'
    BY <2>1 DEF Attaching, CountOK, NameOK, Count, Users, Orphaned, Renewed, Opens, Serving,
                control, segment, pubVars, subVars
  <2> QED
    BY <2>2, <2>3, <2>4 DEF Attaching
<1> QED
  BY <1>1, <1>2, <1>3, NextIsActions DEF Actions

LEMMA WholeKept ==
    ASSUME Whole, ~QuickRestart, ~StaleCrash, [Next]_vars
    PROVE  Whole'
<1>1. Attaching'
  BY AttachingKept DEF Whole
<1>2. CASE PubAction
  BY <1>1, <1>2, PubBits, PubSlots DEF Whole, Attaching
<1>3. ASSUME NEW s \in Subs, SubAction(s) PROVE Whole'
  BY <1>1, <1>3, SubBits, SubSlots DEF Whole, Attaching
<1>4. CASE UNCHANGED vars
  <2>1. BitOK' /\ SlotOK'
    BY <1>4 DEF Whole, BitOK, SlotOK, Kept, Late, Left, Rebuilding, Serving, vars, control, segment,
                pubVars, subVars
  <2> QED
    BY <1>1, <2>1 DEF Whole
<1> QED
  BY <1>2, <1>3, <1>4, NextIsActions DEF Actions

\* What holds however soon a publisher follows another.
Placed == Types /\ PubOK /\ (\A s \in Subs : SubOK(s)) /\ CountOK /\ Bounds

LEMMA PlacedKept ==
    ASSUME Placed, [Next]_vars
    PROVE  Placed'
<1> USE DEF control, segment, subVars, pubVars
<1>1. CASE PubAction
  <2>1. Types' /\ PubOK' /\ (\A s \in Subs : SubOK(s)') /\ CountOK'
    BY <1>1, PubTypes, PubPlaces, PubCounts DEF Placed
  <2>2. ppc' \in {"drain", "wipe", "bump"} => generation' < MaxGen
    BY <1>1 DEF Placed, Bounds, PubAction, PubStep, PubStart, PubDrain, PubWipe, PubBump, PubClear,
                PubRoute, PubReady, PubCollect, PubReap, PubStop, PubLeave, PubCrash
  <2>3. generation' <= MaxGen /\ peers' \in Nat
    <3>1. CASE PubBump
      BY <3>1, TopicAssumption DEF Placed, Types, Bounds, PubBump
    <3>2. CASE ~PubBump
      BY <1>1, <3>2 DEF Placed, Bounds, PubAction, PubStep, PubStart, PubDrain, PubWipe, PubClear,
                PubRoute, PubReady, PubCollect, PubReap, PubStop, PubLeave, PubCrash
    <3> QED
      BY <3>1, <3>2
  <2>4. segs' <= MaxSeg
    <3>1. CASE PubRoute
      BY <3>1, OpenBound DEF Placed, Bounds, PubRoute
    <3>2. CASE ~PubRoute
      BY <1>1, <3>2 DEF Placed, Bounds, PubAction, PubStep, PubStart, PubDrain, PubWipe, PubBump,
                PubClear, PubReady, PubCollect, PubReap, PubStop, PubLeave, PubCrash
    <3> QED
      BY <3>1, <3>2
  <2> QED
    BY <2>1, <2>2, <2>3, <2>4 DEF Placed, Bounds
<1>2. ASSUME NEW s \in Subs, SubAction(s) PROVE Placed'
  <2>1. Types' /\ PubOK' /\ (\A t \in Subs : SubOK(t)') /\ CountOK'
    BY <1>2, SubTypes, SubPlaces, SubCounts DEF Placed
  <2>2. ppc' = ppc /\ generation' = generation
    BY <1>2, SubTypes DEF Placed, Others
  <2>3. peers' \in Nat
    BY <1>2 DEF Placed, Bounds, SubAction, SubStep, SubStart, SubReadGeneration, SubReadState,
           SubClose, SubOpen, SubAddGeneration, SubAddReady, SubAdd, SubFail, SubAcquire, SubFill,
           SubDrop, SubRemoveGeneration, SubRemove, SubRelease, SubExit, SubStop, SubCrash
  <2>4. segs' <= MaxSeg
    <3>1. CASE Stays(s) \/ LetsGo(s)
      BY <3>1 DEF Stays, LetsGo, Placed, Bounds
    <3>2. CASE Closing(s)
      BY <3>2 DEF Closing, CloseSegment, Placed, Bounds
    <3>3. CASE Opening(s)
      BY <3>3, OpenBound DEF Opening, Placed, Bounds
    <3> QED
      BY <1>2, <3>1, <3>2, <3>3, SubKinds DEF Placed
  <2> QED
    BY <2>1, <2>2, <2>3, <2>4 DEF Placed, Bounds
<1>3. CASE UNCHANGED vars
  <2>1. UNCHANGED <<control, segment, pubVars, subVars>>
    BY <1>3 DEF vars
  <2>2. Types' /\ PubOK' /\ Bounds'
    BY <2>1 DEF Placed, Types, PubOK, Bounds, Rebuilding, Serving
  <2>3. (\A s \in Subs : SubOK(s)') /\ CountOK'
    BY <2>1 DEF Placed, SubOK, Alive, CountOK, Count, Users
  <2> QED
    BY <2>2, <2>3 DEF Placed
<1> QED
  BY <1>1, <1>2, <1>3, NextIsActions DEF Actions

\* The variables keep their types; no subscriber knows a generation that is yet to come.
THEOREM TypeCorrect == Spec => []TypeOK
<1>1. Init => Placed
  <2>1. ASSUME Init PROVE Bounds
    BY <2>1, TopicAssumption DEF Init, Bounds
  <2> QED
    BY <2>1, InitAttaching DEF Placed, Attaching
<1>2. Placed /\ [Next]_vars => Placed'
  BY PlacedKept
<1>3. Placed => TypeOK
  <2>1. SUFFICES ASSUME Placed PROVE TypeOK
    OBVIOUS
  <2>2. generation \in 0..MaxGen /\ segs \in Segs \cup {0} /\ peers \in Nat
    BY <2>1, TopicAssumption DEF Placed, Bounds, Types, Segs
  <2>3. gen \in [Subs -> 0..MaxGen] /\ attached \in [Subs -> 0..MaxGen]
    <3>1. \A s \in Subs : gen[s] \in 0..MaxGen /\ attached[s] \in 0..MaxGen
      BY <2>1, <2>2, TopicAssumption DEF Placed, SubOK, Types
    <3> QED
      BY <2>1, <3>1 DEF Placed, Types
  <2>4. /\ state \in States /\ slot \in [Slots -> [used : BOOLEAN, cc : Bits \cup {0}]]
        /\ conn \in [Subs -> [seg : Segs \cup {0}, bit : Bits \cup {0}]]
    BY <2>1 DEF Placed, Types, Slot, Conn
  <2> QED
    BY <2>1, <2>2, <2>3, <2>4 DEF Placed, Types, TypeOK
<1> QED
  BY <1>1, <1>2, <1>3, PTL DEF Spec

\* A publisher follows one that died while it served, or one that stopped and that its
\* subscribers have seen stop.  Then a subscriber that takes itself for attached reads the
\* segment the publisher writes: sub_handshake, add_peer and InitChannel, in any order.
THEOREM AttachedReadsItsPublisher ==
    ASSUME ~QuickRestart
    PROVE  Spec => []AttachedToPublisher
<1>1. Init => Attaching
  BY InitAttaching
<1>2. Attaching /\ [Next]_vars => Attaching'
  BY AttachingKept
<1>3. Attaching => AttachedToPublisher
  BY DEF Attaching, AttachOK, AttachedToPublisher, Content
<1> QED
  BY <1>1, <1>2, <1>3, PTL DEF Spec

\* If besides a subscriber dies with a slot only where it took it for the present generation,
\* collect_stale_peers and disconnect_receivers take the bits of the dead only, and connect()
\* gives nobody a bit that somebody living has.
THEOREM BitsAreKept ==
    ASSUME ~QuickRestart, ~StaleCrash
    PROVE  Spec => []LivingKeepTheirBit
<1>1. Init => Whole
  BY InitAttaching DEF Whole
<1>2. Whole /\ [Next]_vars => Whole'
  BY WholeKept
<1>3. Whole => LivingKeepTheirBit
  BY DEF Whole, BitOK, LivingKeepTheirBit
<1> QED
  BY <1>1, <1>2, <1>3, PTL DEF Spec
=============================================================================
