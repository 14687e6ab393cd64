---------------------------- MODULE StagingProofs ----------------------------
(* What holds of the stage for any trees, sources, overlays and packages,   *)
(* after any number of makes with any variables, stopped anywhere (module   *)
(* Staging).                                                                *)
EXTENDS Staging, FiniteSetTheorems, SequenceTheorems, TLAPS

-----------------------------------------------------------------------------
(* A set written down as a sequence is all of it and nothing else.          *)
LEMMA AllWritten ==
  ASSUME NEW S, IsFiniteSet(S)
  PROVE  SetToSeq(S) \in Seq(S) /\ Range(SetToSeq(S)) = S
<1> DEFINE n == Cardinality(S)
           s == SetToSeq(S)
<1>1. n \in Nat /\ ExistsBijection(1..n, S)
  BY FS_CardinalityType
<1>2. \E f \in [1..n -> S] : IsInjective(f)
  BY <1>1 DEF ExistsBijection, Bijection, Injection, IsInjective
<1>3. s \in [1..n -> S] /\ IsInjective(s)
  BY <1>2 DEF SetToSeq
<1>4. s \in Injection(1..n, S)
  BY <1>3 DEF Injection, IsInjective
<1>5. IsFiniteSet(1..n) /\ Cardinality(1..n) = n
  BY <1>1, FS_Interval
<1>6. s \in Surjection(1..n, S)
  BY <1>4, <1>5, FS_Injection
<1>7. Range(s) = S
  BY <1>3, <1>6 DEF Surjection, Range
<1>8. s \in Seq(S)
  BY <1>1, <1>3, SeqDef
<1>9. QED
  BY <1>7, <1>8

LEMMA FirstAndRest ==
  ASSUME NEW S, NEW s \in Seq(S)
  PROVE  /\ Range(s) \subseteq S
         /\ s = <<>> <=> Range(s) = {}
         /\ s # <<>> => /\ Head(s) \in S /\ Tail(s) \in Seq(S)
                        /\ Range(s) = {Head(s)} \cup Range(Tail(s))
<1>1. Range(s) = {s[i] : i \in 1..Len(s)} /\ Len(s) \in Nat
  BY RangeEquality
<1>2. s = <<>> => Range(s) = {}
  BY DEF Range
<1>3. CASE s # <<>>
  <2>1. /\ Head(s) \in S /\ Tail(s) \in Seq(S) /\ Len(Tail(s)) = Len(s) - 1
        /\ \A i \in 1..Len(Tail(s)) : Tail(s)[i] = s[i + 1]
    BY <1>3, HeadTailProperties
  <2>2. Range(Tail(s)) = {Tail(s)[i] : i \in 1..Len(Tail(s))}
    BY <2>1, RangeEquality
  <2>3. Len(s) > 0 /\ Head(s) = s[1]
    BY <1>3, EmptySeq
  <2>4. Range(s) = {Head(s)} \cup Range(Tail(s))
    <3>1. ASSUME NEW i \in 1..Len(s)
          PROVE  s[i] \in {Head(s)} \cup Range(Tail(s))
      <4>1. CASE i = 1
        BY <2>3, <4>1
      <4>2. CASE i # 1
        <5>1. i - 1 \in 1..Len(Tail(s)) /\ Tail(s)[i - 1] = s[i]
          BY <1>1, <2>1, <4>2
        <5>2. QED
          BY <2>2, <5>1
      <4>3. QED
        BY <4>1, <4>2
    <3>2. ASSUME NEW i \in 1..Len(Tail(s))
          PROVE  Tail(s)[i] \in Range(s)
      BY <1>1, <2>1
    <3>3. Head(s) \in Range(s)
      BY <1>1, <2>3
    <3>4. QED
      BY <1>1, <2>2, <3>1, <3>2, <3>3
  <2>5. QED
    BY <1>1, <2>1, <2>4
<1>4. Range(s) \subseteq S
  BY <1>1, ElementOfSeq
<1>5. QED
  BY <1>2, <1>3, <1>4

LEMMA OrderIs ==
  /\ Order \in Seq(Sources) /\ Len(Order) \in Nat /\ Len(Order) = 4 + Len(Overlays)
  /\ Order[1] = "coreutils"
  /\ \A i \in 1..Len(Order) : Order[i] \in Sources
  /\ \A i \in 2..Len(Order) :
       Order[i] \in {"clients", "share", "suites"} \cup Range(Overlays)
  /\ Sources \cap (Records \cup {None, Ours, "cache", "trees"}) = {}
<1> DEFINE four == <<"coreutils", "clients", "share", "suites">>
           Tags == {"coreutils", "clients", "share", "suites"} \cup Range(Overlays)
<1>1. /\ four \in Seq({"coreutils", "clients", "share", "suites"}) /\ Len(four) = 4
      /\ four[1] = "coreutils" /\ four[2] = "clients" /\ four[3] = "share" /\ four[4] = "suites"
  OBVIOUS
<1>2. Overlays \in Seq(Range(Overlays)) /\ Len(Overlays) \in Nat
  BY StagingAssumption, SeqOfRange
<1> HIDE DEF four
<1>3. four \in Seq(Tags) /\ Overlays \in Seq(Tags)
  BY <1>1, <1>2, SeqMonotonic
<1> HIDE DEF Tags
<1>4. /\ Order \in Seq(Tags) /\ Len(Order) = 4 + Len(Overlays)
      /\ \A i \in 1..(4 + Len(Overlays)) :
           Order[i] = IF i <= 4 THEN four[i] ELSE Overlays[i - 4]
  BY <1>1, <1>3, ConcatProperties DEF Order, four
<1>5. ASSUME NEW i \in 5..Len(Order)
      PROVE  Order[i] \in Range(Overlays)
  <2>1. i - 4 \in 1..Len(Overlays) /\ Order[i] = Overlays[i - 4]
    BY <1>2, <1>4
  <2>2. QED
    BY <1>2, <2>1, RangeEquality
<1>6. \A i \in 2..Len(Order) : Order[i] \in {"clients", "share", "suites"} \cup Range(Overlays)
  <2>1. TAKE i \in 2..Len(Order)
  <2>2. i \in {2, 3, 4} \/ i \in 5..Len(Order)
    BY <1>2, <1>4
  <2>3. QED
    BY <1>1, <1>2, <1>4, <1>5, <2>2
<1>7. Order[1] = "coreutils"
  BY <1>1, <1>2, <1>4
<1>8. Order \in Seq(Sources) /\ Sources = {Order[i] : i \in 1..Len(Order)}
  BY <1>4, SeqOfRange, RangeEquality DEF Sources
<1>9. Sources \cap (Records \cup {None, Ours, "cache", "trees"}) = {}
  <2>1. ASSUME NEW s \in Sources
        PROVE  s \in {"coreutils", "clients", "share", "suites"} \cup Range(Overlays)
    BY <1>4, <2>1, FirstAndRest DEF Sources, Tags
  <2>2. QED
    BY <2>1, StagingAssumption DEF Records, None, Ours
<1>10. \A i \in 1..Len(Order) : Order[i] \in Sources
  BY <1>8
<1>11. Order \in Seq(Sources) /\ Len(Order) \in Nat /\ Len(Order) = 4 + Len(Overlays)
  BY <1>2, <1>4, <1>8
<1>12. QED
  BY <1>6, <1>7, <1>9, <1>10, <1>11
-----------------------------------------------------------------------------
(* Where a make is, and what it has in hand there.                          *)
Steps == {"idle", "forget", "install", "coreutils", "copy", "as", "cargo",
          "caches", "hostile", "packages", "done"}
Rest(i) == SubSeq(Order, i, Len(Order))
QueueOK ==
  /\ step = "forget" =>
       queue \in {<<".clients", ".suites", ".overlays">>, <<".suites", ".overlays">>,
                  <<".overlays">>, <<>>}
  /\ step = "install" => queue \in {<<"trees">>, <<>>}
  /\ step = "coreutils" => queue \in {<<".coreutils">>, <<>>}
  /\ step = "copy" => \E i \in 1..(Len(Order) + 1) : queue = Rest(i)
  /\ step = "as" => queue \in {<<"as">>, <<>>}
  /\ step = "caches" => queue \in {<<"caches">>, <<>>}
  /\ step \in {"idle", "cargo", "hostile", "packages", "done"} => queue = <<>>
InHand ==
  /\ IsFiniteSet(fresh)
  /\ Range(own) \subseteq Range(Own) \cup Grows
  /\ step = "install" => Range(todo) \subseteq Range(own)
  /\ Copying => Range(todo) \subseteq Range(Given[Head(queue)])
  /\ Copying /\ todo # <<>> => VariableOf(Head(queue)) \in asked
  /\ step = "caches" => Range(todo) \subseteq Range(Caches) /\ fresh \subseteq Range(Caches)
  /\ step \in {"copy", "as", "caches"} /\ queue = <<>> => fresh = {}
  /\ step = "as" => fresh \subseteq {AsTarget} /\ todo = <<>>
  /\ step = "caches" /\ queue # <<>> => MakesCaches
TypeInv == TypeOK /\ step \in Steps /\ QueueOK /\ InHand


LEMMA RestIs ==
  /\ Order = Rest(1) /\ Rest(Len(Order) + 1) = <<>>
  /\ \A i \in 1..Len(Order) : /\ Rest(i) # <<>> /\ Head(Rest(i)) = Order[i]
                             /\ Tail(Rest(i)) = Rest(i + 1)
  /\ \A i \in 1..(Len(Order) + 1) : Len(Rest(i)) = Len(Order) + 1 - i
<1>1. Order \in Seq(Sources) /\ Len(Order) \in Nat /\ Len(Order) > 0
  BY OrderIs, StagingAssumption
<1>2. Order = Rest(1)
  BY <1>1, SubSeqFull DEF Rest
<1>3. Rest(Len(Order) + 1) = <<>>
  BY <1>1, SubSeqEmpty DEF Rest
<1>4. ASSUME NEW i \in 1..(Len(Order) + 1)
      PROVE  Len(Rest(i)) = Len(Order) + 1 - i
  <2>1. \A j \in i..Len(Order) : Order[j] \in Sources
    BY <1>1, ElementOfSeq
  <2>2. Len(Rest(i)) = IF i <= Len(Order) THEN Len(Order) - i + 1 ELSE 0
    BY <1>1, <2>1, SubSeqProperties DEF Rest
  <2>3. QED
    BY <1>1, <2>2
<1>5. ASSUME NEW i \in 1..Len(Order)
      PROVE  /\ Rest(i) # <<>> /\ Head(Rest(i)) = Order[i]
             /\ Tail(Rest(i)) = Rest(i + 1)
  <2>1. Len(Rest(i)) = Len(Order) + 1 - i
    BY <1>1, <1>4
  <2>2. Rest(i) # <<>>
    BY <1>1, <2>1
  <2>3. QED
    BY <1>1, <2>2, HeadTailOfSubSeq DEF Rest
<1>6. QED
  BY <1>2, <1>3, <1>4, <1>5

(* What there is to go through of each kind of list.                        *)
LEMMA LinesAre ==
  /\ Lines(<<>>) = <<>>
  /\ \A q : q # <<>> /\ Head(q) = "trees" => Lines(q) = own
  /\ \A q : q # <<>> /\ Head(q) \in Records => Lines(q) = rec[Head(q)]
  /\ \A q : q # <<>> /\ Head(q) \in Sources =>
       Lines(q) = IF VariableOf(Head(q)) \in asked THEN Given[Head(q)] ELSE <<>>
<1>1. "trees" \notin Records
  BY DEF Records
<1>2. Sources \cap (Records \cup {"trees"}) = {}
  BY OrderIs
<1>3. QED
  BY <1>1, <1>2 DEF Lines

LEMMA ListsAre ==
  /\ QueueOf("forget") = <<".clients", ".suites", ".overlays">>
  /\ QueueOf("install") = <<"trees">>
  /\ QueueOf("coreutils") = <<".coreutils">>
  /\ QueueOf("copy") = Order
  /\ QueueOf("as") = <<>>
BY DEF QueueOf, Forgets

LEMMA ThenIs ==
  /\ Then("forget") = "install" /\ Then("install") = "coreutils"
  /\ Then("coreutils") = "copy" /\ Then("copy") = "as" /\ Then("as") = "cargo"
  /\ Then("cargo") = "caches" /\ Then("caches") = "hostile"
  /\ Then("hostile") = "packages" /\ Then("packages") = "done"
BY DEF Then

LEMMA PathsAre ==
  /\ {AsBin, AsTarget, Cargo, Conf, Hostile} \subseteq Files
  /\ Range(Own) \subseteq Files /\ Grows \subseteq Files /\ Range(Caches) \subseteq Files
  /\ Range(Twin) \subseteq Files
  /\ \A s \in Sources : Given[s] \in Seq(Files) /\ Range(Given[s]) \subseteq Files
  /\ None \notin Sources \cup {Ours, "cache"} /\ Ours \notin Sources \cup {"cache"}
<1>1. /\ {AsBin, AsTarget, Cargo, Conf, Hostile} \subseteq Files
      /\ Range(Own) \subseteq Files /\ Grows \subseteq Files /\ Range(Caches) \subseteq Files
      /\ Range(Twin) \subseteq Files
  BY DEF Files
<1>2. \A s \in Sources : Given[s] \in Seq(Files) /\ Range(Given[s]) \subseteq Files
  BY StagingAssumption, FirstAndRest
<1>3. None \notin Sources \cup {Ours, "cache"} /\ Ours \notin Sources \cup {"cache"}
  BY OrderIs DEF None, Ours
<1>4. QED
  BY <1>1, <1>2, <1>3

(* What every step may take from the types.                                 *)
LEMMA Typed ==
  ASSUME TypeInv
  PROVE  /\ stage \in [Files -> Sources \cup {None, Ours, "cache"}]
         /\ rec \in [Records -> Seq(Files)]
         /\ own \in Seq(Files) /\ Range(own) \subseteq Files
         /\ todo \in Seq(Files) /\ Range(todo) \subseteq Files
         /\ todo # <<>> => /\ queue # <<>> /\ Head(todo) \in Range(todo)
                           /\ Head(todo) \in Files /\ Tail(todo) \in Seq(Files)
                           /\ Range(todo) = {Head(todo)} \cup Range(Tail(todo))
         /\ todo = <<>> => Range(todo) = {}
         /\ fresh \subseteq Files
         /\ SetToSeq(fresh) \in Seq(Files) /\ Range(SetToSeq(fresh)) = fresh
<1>1. /\ stage \in [Files -> Sources \cup {None, Ours, "cache"}]
      /\ rec \in [Records -> Seq(Files)] /\ own \in Seq(Files) /\ todo \in Seq(Files)
      /\ todo # <<>> => queue # <<>>
      /\ fresh \subseteq Staged \cup missed /\ missed \subseteq Files
      /\ IsFiniteSet(fresh)
  BY DEF TypeInv, TypeOK, InHand
<1>2. fresh \subseteq Files
  BY <1>1 DEF Staged
<1>3. SetToSeq(fresh) \in Seq(Files) /\ Range(SetToSeq(fresh)) = fresh
  BY <1>1, <1>2, AllWritten, SeqMonotonic
<1>4. Range(own) \subseteq Files /\ Range(todo) \subseteq Files
  BY <1>1, FirstAndRest
<1>5. todo # <<>> => /\ Head(todo) \in Files /\ Tail(todo) \in Seq(Files)
                    /\ Range(todo) = {Head(todo)} \cup Range(Tail(todo))
  BY <1>1, FirstAndRest
<1>6. todo = <<>> => Range(todo) = {}
  BY <1>1, FirstAndRest
<1>7. QED
  BY <1>1, <1>2, <1>3, <1>4, <1>5, <1>6

(* Going on to the next command of the recipe.                              *)
LEMMA EnterTyped ==
  ASSUME TypeInv, NEW s \in {"forget", "install", "coreutils", "copy", "as"}, Enter(s),
         fresh = {}, UNCHANGED <<stage, rec, own, fresh, stray, upsets>>,
         asked' \subseteq Variables, missed' \subseteq Files,
         s = "copy" => asked' = asked
  PROVE  TypeInv'
<1>1. step' = s /\ queue' = QueueOf(s) /\ todo' = Lines(QueueOf(s))
  BY DEF Enter
<1>2. CASE s = "forget"
  <2>1. queue' = <<".clients", ".suites", ".overlays">> /\ queue' # <<>>
    BY <1>1, <1>2, ListsAre
  <2>2. Head(queue') = ".clients" /\ ".clients" \in Records
    BY <2>1 DEF Records
  <2>3. todo' = rec[".clients"]
    BY <1>1, <2>1, <2>2, LinesAre
  <2>4. TypeOK'
    BY <1>1, <1>2, <2>1, <2>2, <2>3, Typed DEF TypeInv, TypeOK, Staged
  <2>5. QueueOK'
    BY <1>1, <1>2, <2>1 DEF QueueOK
  <2>6. InHand'
    BY <1>1, <1>2 DEF TypeInv, InHand, Copying
  <2>7. QED
    BY <1>1, <1>2, <2>4, <2>5, <2>6 DEF TypeInv, Steps
<1>3. CASE s = "install"
  <2>1. queue' = <<"trees">> /\ queue' # <<>> /\ Head(queue') = "trees"
    BY <1>1, <1>3, ListsAre
  <2>2. todo' = own
    BY <1>1, <2>1, LinesAre
  <2>3. TypeOK'
    BY <1>1, <1>3, <2>1, <2>2, Typed DEF TypeInv, TypeOK, Staged
  <2>4. QueueOK'
    BY <1>1, <1>3, <2>1 DEF QueueOK
  <2>5. InHand'
    BY <1>1, <1>3, <2>2 DEF TypeInv, InHand, Copying
  <2>6. QED
    BY <1>1, <1>3, <2>3, <2>4, <2>5 DEF TypeInv, Steps
<1>4. CASE s = "coreutils"
  <2>1. queue' = <<".coreutils">> /\ queue' # <<>>
    BY <1>1, <1>4, ListsAre
  <2>2. Head(queue') = ".coreutils" /\ ".coreutils" \in Records
    BY <2>1 DEF Records
  <2>3. todo' = rec[".coreutils"]
    BY <1>1, <2>1, <2>2, LinesAre
  <2>4. TypeOK'
    BY <1>1, <1>4, <2>1, <2>2, <2>3, Typed DEF TypeInv, TypeOK, Staged
  <2>5. QueueOK'
    BY <1>1, <1>4, <2>1 DEF QueueOK
  <2>6. InHand'
    BY <1>1, <1>4 DEF TypeInv, InHand, Copying
  <2>7. QED
    BY <1>1, <1>4, <2>4, <2>5, <2>6 DEF TypeInv, Steps
<1>5. CASE s = "copy"
  <2>1. /\ queue' = Rest(1) /\ queue' # <<>> /\ 1 \in 1..Len(Order)
        /\ Head(queue') = "coreutils" /\ "coreutils" \in Sources
    BY <1>1, <1>5, ListsAre, RestIs, OrderIs, StagingAssumption
  <2>2. todo' = IF VariableOf("coreutils") \in asked THEN Given["coreutils"] ELSE <<>>
    BY <1>1, <1>5, <2>1, LinesAre, ListsAre, RestIs
  <2>3. todo' \in Seq(Files) /\ Range(todo') \subseteq Range(Given["coreutils"])
    <3>1. Given["coreutils"] \in Seq(Files) /\ <<>> \in Seq(Files)
      BY <2>1, PathsAre
    <3>2. Range(<<>>) = {}
      BY <3>1, FirstAndRest
    <3>3. QED
      BY <2>2, <3>1, <3>2
  <2>4. TypeOK'
    BY <1>1, <1>5, <2>1, <2>3, Typed DEF TypeInv, TypeOK, Staged
  <2>5. QueueOK'
    <3>1. 1 \in 1..(Len(Order) + 1)
      BY OrderIs
    <3>2. QED
      BY <1>1, <1>5, <2>1, <3>1 DEF QueueOK
  <2>6. InHand'
    BY <1>1, <1>5, <2>1, <2>2, <2>3 DEF TypeInv, InHand, Copying
  <2>7. QED
    BY <1>1, <1>5, <2>4, <2>5, <2>6 DEF TypeInv, Steps
<1>6. CASE s = "as"
  <2>0. queue' = <<>> /\ todo' = <<>>
    BY <1>1, <1>6, ListsAre, LinesAre
  <2>1. todo' = <<>> /\ queue' = <<>> /\ todo' \in Seq(Files)
    BY <2>0, EmptySeq
  <2>2. TypeOK'
    BY <1>1, <1>6, <2>1, Typed DEF TypeInv, TypeOK, Staged
  <2>3. QueueOK'
    BY <1>1, <1>6, <2>1 DEF QueueOK
  <2>4. InHand'
    BY <1>1, <1>6, <2>1 DEF TypeInv, InHand, Copying
  <2>5. QED
    BY <1>1, <1>6, <2>2, <2>3, <2>4 DEF TypeInv, Steps
<1>7. QED
  BY <1>2, <1>3, <1>4, <1>5, <1>6

LEMMA RecordsGo ==
  ASSUME TypeInv, Forgetting
  PROVE  /\ Head(queue) \in Records /\ Range(queue) \subseteq Records
         /\ Range(queue) = {Head(queue)} \cup Range(Tail(queue))
         /\ Head(queue) \notin Range(Tail(queue))
         /\ step = "forget" =>
              /\ Head(queue) \in {".clients", ".suites", ".overlays"}
              /\ Tail(queue) \in {<<".suites", ".overlays">>, <<".overlays">>, <<>>}
         /\ step = "coreutils" => Head(queue) = ".coreutils" /\ Tail(queue) = <<>>
         /\ Tail(queue) # <<>> => /\ Head(Tail(queue)) \in Range(Tail(queue))
                                  /\ Lines(Tail(queue)) = rec[Head(Tail(queue))]
         /\ Lines(Tail(queue)) \in Seq(Files)
<1>1. queue \in {<<".clients", ".suites", ".overlays">>, <<".suites", ".overlays">>,
                 <<".overlays">>, <<".coreutils">>}
  BY DEF TypeInv, QueueOK, Forgetting
<1>2. /\ step = "forget" => queue \in {<<".clients", ".suites", ".overlays">>,
                                       <<".suites", ".overlays">>, <<".overlays">>}
      /\ step = "coreutils" => queue = <<".coreutils">>
  BY DEF TypeInv, QueueOK, Forgetting
<1>3. queue \in Seq(Records)
  <2>1. /\ <<".clients", ".suites", ".overlays">> \in Seq(Records)
        /\ <<".suites", ".overlays">> \in Seq(Records)
        /\ <<".overlays">> \in Seq(Records) /\ <<".coreutils">> \in Seq(Records)
    BY DEF Records
  <2>2. QED
    BY <1>1, <2>1
<1>4. /\ Range(queue) \subseteq Records /\ Head(queue) \in Records
      /\ Tail(queue) \in Seq(Records)
      /\ Range(queue) = {Head(queue)} \cup Range(Tail(queue))
  BY <1>3, FirstAndRest DEF Forgetting
<1>5. ASSUME Tail(queue) # <<>>
      PROVE  Head(Tail(queue)) \in Range(Tail(queue)) /\ Head(Tail(queue)) \in Records
  <2> DEFINE q == Tail(queue)
  <2>1. q \in Seq(Records) /\ q # <<>>
    BY <1>4, <1>5
  <2>2. QED
    BY <2>1, FirstAndRest
<1>6. /\ Tail(<<".clients", ".suites", ".overlays">>) = <<".suites", ".overlays">>
      /\ Tail(<<".suites", ".overlays">>) = <<".overlays">>
      /\ Tail(<<".overlays">>) = <<>> /\ Tail(<<".coreutils">>) = <<>>
      /\ Head(<<".clients", ".suites", ".overlays">>) = ".clients"
      /\ Head(<<".suites", ".overlays">>) = ".suites"
      /\ Head(<<".overlays">>) = ".overlays" /\ Head(<<".coreutils">>) = ".coreutils"
  OBVIOUS
<1>7. /\ step = "forget" =>
           /\ Head(queue) \in {".clients", ".suites", ".overlays"}
           /\ Tail(queue) \in {<<".suites", ".overlays">>, <<".overlays">>, <<>>}
      /\ step = "coreutils" => Head(queue) = ".coreutils" /\ Tail(queue) = <<>>
  BY <1>2, <1>6
<1>8. Head(queue) \notin Range(Tail(queue))
  <2>1. /\ <<".suites", ".overlays">> \in Seq({".suites", ".overlays"})
        /\ <<".overlays">> \in Seq({".overlays"}) /\ <<>> \in Seq({})
    OBVIOUS
  <2>2. /\ Range(<<".suites", ".overlays">>) \subseteq {".suites", ".overlays"}
        /\ Range(<<".overlays">>) \subseteq {".overlays"} /\ Range(<<>>) \subseteq {}
    BY <2>1, FirstAndRest
  <2>3. QED
    BY <1>1, <1>6, <2>2
<1>9. Tail(queue) # <<>> => Lines(Tail(queue)) = rec[Head(Tail(queue))]
  BY <1>5, LinesAre
<1>10. Lines(Tail(queue)) \in Seq(Files)
  <2>1. CASE Tail(queue) = <<>>
    BY <2>1, LinesAre, EmptySeq
  <2>2. CASE Tail(queue) # <<>>
    BY <2>2, <1>5, <1>9, Typed
  <2>3. QED
    BY <2>1, <2>2
<1>11. QED
  BY <1>4, <1>5, <1>7, <1>8, <1>9, <1>10

LEMMA SourcesGo ==
  ASSUME TypeInv, Copying
  PROVE  \E i \in 1..Len(Order) :
           /\ queue = Rest(i) /\ Head(queue) = Order[i] /\ Order[i] \in Sources
           /\ i - 1 = Len(Order) - Len(queue)
           /\ Tail(queue) = Rest(i + 1) /\ i + 1 \in 1..(Len(Order) + 1)
           /\ i - 1 = Len(Order) - Len(Tail(queue)) - 1
           /\ i = Len(Order) => Tail(queue) = <<>> /\ Lines(Tail(queue)) = <<>>
           /\ i < Len(Order) =>
                /\ Tail(queue) # <<>> /\ Head(Tail(queue)) = Order[i + 1]
                /\ Lines(Tail(queue)) = IF VariableOf(Order[i + 1]) \in asked
                                       THEN Given[Order[i + 1]] ELSE <<>>
<1>1. PICK i \in 1..(Len(Order) + 1) : queue = Rest(i)
  BY DEF TypeInv, QueueOK, Copying
<1>2. Len(Order) \in Nat
  BY OrderIs
<1>3. i \in 1..Len(Order)
  BY <1>1, <1>2, RestIs DEF Copying
<1>4. /\ Head(queue) = Order[i] /\ Order[i] \in Sources /\ Tail(queue) = Rest(i + 1)
      /\ i + 1 \in 1..(Len(Order) + 1) /\ i - 1 = Len(Order) - Len(queue)
      /\ i - 1 = Len(Order) - Len(Tail(queue)) - 1
  <2>1. Head(queue) = Order[i] /\ Order[i] \in Sources /\ Tail(queue) = Rest(i + 1)
    BY <1>1, <1>3, RestIs, OrderIs
  <2>2. i + 1 \in 1..(Len(Order) + 1)
    BY <1>2, <1>3
  <2>3. Len(queue) = Len(Order) + 1 - i /\ Len(Tail(queue)) = Len(Order) + 1 - (i + 1)
    BY <1>1, <2>1, <2>2, RestIs
  <2>4. QED
    BY <1>2, <2>1, <2>2, <2>3
<1>5. i = Len(Order) => Tail(queue) = <<>> /\ Lines(Tail(queue)) = <<>>
  BY <1>4, RestIs, LinesAre
<1>6. ASSUME i < Len(Order)
      PROVE  /\ Tail(queue) # <<>> /\ Head(Tail(queue)) = Order[i + 1]
             /\ Lines(Tail(queue)) = IF VariableOf(Order[i + 1]) \in asked
                                    THEN Given[Order[i + 1]] ELSE <<>>
  <2>1. i + 1 \in 1..Len(Order) /\ Order[i + 1] \in Sources
    BY <1>2, <1>3, <1>6, OrderIs
  <2>2. Tail(queue) # <<>> /\ Head(Tail(queue)) = Order[i + 1]
    BY <1>4, <2>1, RestIs
  <2>3. QED
    BY <2>1, <2>2, LinesAre
<1>7. QED
  BY <1>1, <1>3, <1>4, <1>5, <1>6

(* What is written down is added to its record.                             *)
LEMMA Appended ==
  ASSUME rec \in [Records -> Seq(Files)], SetToSeq(fresh) \in Seq(Files), NEW r
  PROVE  /\ [rec EXCEPT ![r] = @ \o SetToSeq(fresh)] \in [Records -> Seq(Files)]
         /\ \A s \in Records :
              Range([rec EXCEPT ![r] = @ \o SetToSeq(fresh)][s]) =
                Range(rec[s]) \cup (IF s = r THEN Range(SetToSeq(fresh)) ELSE {})
<1> DEFINE more == [rec EXCEPT ![r] = @ \o SetToSeq(fresh)]
<1>1. ASSUME NEW s \in Records
      PROVE  /\ rec[s] \o SetToSeq(fresh) \in Seq(Files)
             /\ Range(rec[s] \o SetToSeq(fresh)) = Range(rec[s]) \cup Range(SetToSeq(fresh))
  <2>1. rec[s] \in Seq(Files)
    OBVIOUS
  <2>2. QED
    BY <2>1, ConcatProperties, RangeConcatenation
<1>2. \A s \in Records : more[s] = IF s = r THEN rec[s] \o SetToSeq(fresh) ELSE rec[s]
  OBVIOUS
<1>3. more \in [Records -> Seq(Files)]
  BY <1>1, <1>2
<1>4. ASSUME NEW s \in Records
      PROVE  Range(more[s]) = Range(rec[s]) \cup (IF s = r THEN Range(SetToSeq(fresh)) ELSE {})
  BY <1>1, <1>2
<1>5. QED
  BY <1>3, <1>4

LEMMA OneMore ==
  ASSUME own \in Seq(Files), NEW f \in Files
  PROVE  Append(own, f) \in Seq(Files) /\ Range(Append(own, f)) = Range(own) \cup {f}
<1>1. Append(own, f) = own \o <<f>> /\ <<f>> \in Seq(Files) /\ Append(own, f) \in Seq(Files)
  BY AppendIsConcat, AppendProperties
<1>2. Range(<<f>>) = {f}
  <2>1. Head(<<f>>) = f /\ Tail(<<f>>) = <<>> /\ <<f>> # <<>> /\ <<>> \in Seq(Files)
    BY <1>1, EmptySeq
  <2>2. QED
    BY <1>1, <2>1, FirstAndRest
<1> DEFINE one == <<f>>
<1> HIDE DEF one
<1>4. one \in Seq(Files) => Range(own \o one) = Range(own) \cup Range(one)
  BY RangeConcatenation
<1>5. QED
  BY <1>1, <1>2, <1>4 DEF one

(* coreutils' record is the one that is gone through at coreutils' turn.    *)
LEMMA WhoseRecord ==
  ASSUME TypeInv, Forgetting
  PROVE  Head(queue) = ".coreutils" <=> step = "coreutils"
<1>1. CASE step = "coreutils"
  <2>1. queue = <<".coreutils">>
    BY <1>1 DEF TypeInv, QueueOK, Forgetting
  <2>2. QED
    BY <1>1, <2>1
<1>2. CASE step = "forget"
  <2>1. queue \in {<<".clients", ".suites", ".overlays">>, <<".suites", ".overlays">>,
                   <<".overlays">>}
    BY <1>2 DEF TypeInv, QueueOK, Forgetting
  <2>2. Head(queue) \in {".clients", ".suites", ".overlays"}
    BY <2>1
  <2>3. QED
    BY <1>2, <2>2
<1>3. QED
  BY <1>1, <1>2 DEF Forgetting

LEMMA StepTyped == TypeInv /\ [Next]_vars => TypeInv'
<1> SUFFICES ASSUME TypeInv, [Next]_vars
             PROVE  TypeInv'
  OBVIOUS
<1>0. TypeOK /\ step \in Steps /\ QueueOK /\ InHand
  BY DEF TypeInv
<1>1. CASE Make
  <2>1. fresh = {} /\ asked' \subseteq Variables /\ missed' \subseteq Files
    BY <1>0, <1>1 DEF Make, TypeOK
  <2>2. QED
    BY <1>1, <2>1, EnterTyped DEF Make
<1>2. CASE StepDone
  <2>1. /\ fresh = {} /\ asked' = asked /\ missed' = missed
        /\ asked \subseteq Variables /\ missed \subseteq Files
    BY <1>0, <1>2 DEF StepDone, TypeOK, InHand
  <2>2. Then(step) \in {"forget", "install", "coreutils", "copy", "as"} /\ Enter(Then(step))
    BY <1>2, ThenIs DEF StepDone
  <2>3. QED
    BY <1>2, <2>1, <2>2, EnterTyped DEF StepDone
<1>3. CASE RemoveFile
  <2>1. fresh = {} /\ fresh' = {} /\ step' = step /\ step \in {"forget", "coreutils"}
    BY <1>0, <1>3 DEF RemoveFile, Forgetting, TypeOK
  <2>2. TypeOK'
    BY <1>0, <1>3, <2>1, Typed DEF RemoveFile, TypeOK, Staged
  <2>3. QueueOK'
    BY <1>0, <1>3 DEF RemoveFile, QueueOK
  <2>4. InHand'
    BY <1>0, <1>3, <2>1 DEF RemoveFile, InHand, Copying
  <2>5. QED
    BY <1>0, <2>1, <2>2, <2>3, <2>4 DEF TypeInv
<1>4. CASE RemoveRecord
  <2>1. fresh = {} /\ fresh' = {} /\ step' = step /\ step \in {"forget", "coreutils"}
    BY <1>0, <1>4 DEF RemoveRecord, Forgetting, TypeOK
  <2>2. /\ queue' = Tail(queue) /\ todo' = Lines(Tail(queue)) /\ todo' \in Seq(Files)
        /\ Head(queue) \in Records /\ <<>> \in Seq(Files)
    BY <1>4, RecordsGo, EmptySeq DEF RemoveRecord, NextList
  <2>3. queue' = <<>> => todo' = <<>>
    BY <2>2, LinesAre
  <2>4. rec' \in [Records -> Seq(Files)]
    BY <1>4, <2>2, Typed DEF RemoveRecord
  <2>5. TypeOK'
    BY <1>0, <1>4, <2>1, <2>2, <2>3, <2>4 DEF RemoveRecord, TypeOK, Staged
  <2>6. QueueOK'
    BY <1>0, <1>4, <2>1, <2>2, RecordsGo DEF RemoveRecord, QueueOK
  <2>7. InHand'
    BY <1>0, <1>4, <2>1 DEF RemoveRecord, InHand, Copying
  <2>8. QED
    BY <1>0, <2>1, <2>5, <2>6, <2>7 DEF TypeInv
<1>5. CASE Install
  <2>1. fresh = {} /\ fresh' = {} /\ step' = step /\ step = "install"
    BY <1>0, <1>5 DEF Install, TypeOK
  <2>2. TypeOK'
    BY <1>0, <1>5, <2>1, Typed DEF Install, TypeOK, Staged
  <2>3. QueueOK'
    BY <1>0, <1>5, <2>1 DEF Install, QueueOK
  <2>4. InHand'
    BY <1>0, <1>5, <2>1, Typed DEF Install, InHand, Copying
  <2>5. QED
    BY <1>0, <2>1, <2>2, <2>3, <2>4 DEF TypeInv
<1>5a. CASE InstallFails
  <2>1. fresh = {} /\ fresh' = {} /\ step' = step /\ step = "install"
    BY <1>0, <1>5a DEF InstallFails, TypeOK
  <2>2. upsets' \in 0..MaxUpsets
    BY <1>0, <1>5a, StagingAssumption DEF InstallFails, TypeOK
  <2>3. stage' \in [Files -> Sources \cup {None, Ours, "cache"}]
    BY <1>5a, Typed DEF InstallFails
  <2>4. TypeOK'
    BY <1>0, <1>5a, <2>1, <2>2, <2>3, Typed DEF InstallFails, TypeOK, Staged
  <2>5. QueueOK'
    BY <1>0, <1>5a, <2>1 DEF InstallFails, QueueOK
  <2>6. InHand'
    BY <1>0, <1>5a, <2>1, Typed DEF InstallFails, InHand, Copying
  <2>7. QED
    BY <1>0, <2>1, <2>4, <2>5, <2>6 DEF TypeInv
<1>6. CASE Keep
  <2>1. /\ step' = step /\ step = "copy" /\ queue' = queue /\ queue # <<>> /\ fresh' = {}
        /\ missed' \subseteq Files /\ fresh = {}
    BY <1>0, <1>6, Typed DEF Keep, Copying, TypeOK
  <2>2. TypeOK'
    BY <1>0, <1>6, <2>1, Typed DEF Keep, TypeOK, Staged
  <2>3. QueueOK'
    BY <1>0, <1>6, <2>1 DEF Keep, QueueOK
  <2>4. InHand'
    BY <1>0, <1>6, <2>1, Typed DEF Keep, InHand, Copying
  <2>5. QED
    BY <1>0, <2>1, <2>2, <2>3, <2>4 DEF TypeInv
<1>7. CASE Copy
  <2>1. /\ step' = step /\ step = "copy" /\ queue' = queue /\ queue # <<>>
        /\ Head(queue) \in Sources
    BY <1>7, SourcesGo DEF Copy, Copying
  <2>2. /\ stage' \in [Files -> Sources \cup {None, Ours, "cache"}]
        /\ \A f \in Files : stage'[f] = IF f = Head(todo) THEN Head(queue) ELSE stage[f]
    BY <1>7, <2>1, Typed DEF Copy
  <2>3. fresh' \subseteq Staged' \cup missed'
    BY <1>0, <1>7, <2>1, <2>2, Typed, PathsAre DEF Copy, TypeOK, Staged
  <2>4. TypeOK'
    BY <1>0, <1>7, <2>1, <2>2, <2>3, Typed DEF Copy, TypeOK
  <2>5. QueueOK'
    BY <1>0, <1>7, <2>1 DEF Copy, QueueOK
  <2>6. IsFiniteSet(fresh')
    BY <1>0, <1>7, FS_AddElement DEF Copy, InHand
  <2>7. InHand'
    BY <1>0, <1>7, <2>1, <2>6, Typed DEF Copy, InHand, Copying
  <2>8. QED
    BY <1>0, <2>1, <2>4, <2>5, <2>7 DEF TypeInv
<1>8. CASE CopyFails
  <2>1. /\ step' = step /\ step = "copy" /\ queue' = queue /\ queue # <<>>
        /\ Head(queue) \in Sources
    BY <1>8, SourcesGo DEF CopyFails, Copying
  <2>2. upsets' \in 0..MaxUpsets
    BY <1>0, <1>8, StagingAssumption DEF CopyFails, TypeOK
  <2>3. /\ stage' \in [Files -> Sources \cup {None, Ours, "cache"}]
        /\ \A f \in Files : stage'[f] = stage[f] \/ stage'[f] = Head(queue)
    BY <1>8, <2>1, Typed DEF CopyFails
  <2>4. fresh' \subseteq Staged' \cup missed'
    BY <1>0, <1>8, <2>1, <2>3, Typed, PathsAre DEF CopyFails, TypeOK, Staged
  <2>5. TypeOK'
    BY <1>0, <1>8, <2>1, <2>2, <2>3, <2>4, Typed DEF CopyFails, TypeOK
  <2>6. QueueOK'
    BY <1>0, <1>8, <2>1 DEF CopyFails, QueueOK
  <2>7. IsFiniteSet(fresh')
    BY <1>0, <1>8, FS_AddElement DEF CopyFails, InHand
  <2>8. InHand'
    BY <1>0, <1>8, <2>1, <2>7, Typed DEF CopyFails, InHand, Copying
  <2>9. QED
    BY <1>0, <2>1, <2>5, <2>6, <2>8 DEF TypeInv
<1>9. CASE WriteDown
  <2>1. /\ step' = step /\ step = "copy" /\ queue' = queue /\ queue # <<>> /\ fresh' = {}
    BY <1>9 DEF WriteDown, Copying
  <2>2. rec' \in [Records -> Seq(Files)]
    BY <1>9, Typed, Appended DEF WriteDown
  <2>3. TypeOK'
    BY <1>0, <1>9, <2>1, <2>2 DEF WriteDown, TypeOK, Staged
  <2>4. QueueOK'
    BY <1>0, <1>9, <2>1 DEF WriteDown, QueueOK
  <2>5. IsFiniteSet(fresh')
    BY <2>1, FS_EmptySet
  <2>6. InHand'
    BY <1>0, <1>9, <2>1, <2>5 DEF WriteDown, InHand, Copying
  <2>7. QED
    BY <1>0, <2>1, <2>3, <2>4, <2>6 DEF TypeInv
<1>9a. CASE WriteDownFails
  <2>1. /\ step' = step /\ step \in {"copy", "as"} /\ queue' = queue /\ fresh' = {}
        /\ stray' = stray \cup fresh /\ missed' = missed \cup fresh
        /\ UNCHANGED <<stage, rec, own, asked, todo, lists>>
    BY <1>9a DEF WriteDownFails, Copying
  <2>2. upsets' \in 0..MaxUpsets
    BY <1>0, <1>9a, StagingAssumption DEF WriteDownFails, TypeOK
  <2>3. TypeOK'
    BY <1>0, <2>1, <2>2, Typed DEF TypeOK, Staged
  <2>4. QueueOK'
    BY <1>0, <2>1 DEF QueueOK
  <2>5. IsFiniteSet(fresh')
    BY <2>1, FS_EmptySet
  <2>6. InHand'
    BY <1>0, <2>1, <2>5 DEF InHand, Copying
  <2>7. QED
    BY <1>0, <2>1, <2>3, <2>4, <2>6 DEF TypeInv
<1>10. CASE NextSource
  <2>1. /\ step' = step /\ step = "copy" /\ Copying /\ fresh = {} /\ fresh' = {}
        /\ queue' = Tail(queue) /\ todo' = Lines(Tail(queue))
    BY <1>10 DEF NextSource, Copying, NextList
  <2>2. PICK i \in 1..Len(Order) :
           /\ Tail(queue) = Rest(i + 1) /\ i + 1 \in 1..(Len(Order) + 1)
           /\ i = Len(Order) => Tail(queue) = <<>> /\ Lines(Tail(queue)) = <<>>
           /\ i < Len(Order) =>
                /\ Tail(queue) # <<>> /\ Head(Tail(queue)) = Order[i + 1]
                /\ Lines(Tail(queue)) = IF VariableOf(Order[i + 1]) \in asked
                                       THEN Given[Order[i + 1]] ELSE <<>>
    BY <2>1, SourcesGo
  <2>3. CASE i = Len(Order)
    <3>1. queue' = <<>> /\ todo' = <<>> /\ todo' \in Seq(Files)
      <4>1. queue' = <<>> /\ todo' = <<>>
        BY <2>1, <2>2, <2>3
      <4>2. QED
        BY <4>1, EmptySeq
    <3>2. TypeOK'
      BY <1>0, <1>10, <2>1, <3>1 DEF NextSource, TypeOK, Staged
    <3>3. QueueOK'
      BY <2>1, <2>2 DEF QueueOK
    <3>4. InHand'
      BY <1>0, <1>10, <2>1, <3>1 DEF NextSource, InHand, Copying
    <3>5. QED
      BY <1>0, <2>1, <3>2, <3>3, <3>4 DEF TypeInv
  <2>4. CASE i < Len(Order)
    <3>1. i + 1 \in 1..Len(Order) /\ Order[i + 1] \in Sources
      BY <2>2, <2>4, OrderIs
    <3>2. queue' # <<>> /\ Head(queue') = Order[i + 1]
      BY <2>1, <2>2, <2>4
    <3>3. /\ todo' \in Seq(Files) /\ Range(todo') \subseteq Range(Given[Order[i + 1]])
          /\ todo' # <<>> => VariableOf(Order[i + 1]) \in asked
      <4>1. CASE VariableOf(Order[i + 1]) \in asked
        BY <2>1, <2>2, <2>4, <3>1, <4>1, PathsAre
      <4>2. CASE VariableOf(Order[i + 1]) \notin asked
        <5>1. todo' = <<>>
          BY <2>1, <2>2, <2>4, <4>2
        <5>2. todo' \in Seq(Files) /\ Range(todo') = {}
          BY <5>1, EmptySeq, FirstAndRest
        <5>3. QED
          BY <5>1, <5>2
      <4>3. QED
        BY <4>1, <4>2
    <3>4. TypeOK'
      BY <1>0, <1>10, <2>1, <3>2, <3>3 DEF NextSource, TypeOK, Staged
    <3>5. QueueOK'
      BY <2>1, <2>2 DEF QueueOK
    <3>6. InHand'
      BY <1>0, <1>10, <2>1, <3>2, <3>3 DEF NextSource, InHand, Copying
    <3>7. QED
      BY <1>0, <2>1, <3>4, <3>5, <3>6 DEF TypeInv
  <2>5. QED
    BY <2>2, <2>3, <2>4, OrderIs
<1>11. CASE MoveAs
  <2>1. /\ step' = step /\ step = "as" /\ queue' = <<"as">> /\ queue' # <<>>
        /\ todo' = todo /\ todo = <<>>
    BY <1>0, <1>11 DEF MoveAs, InHand
  <2>2. AsBin \in Files /\ AsTarget \in Files /\ AsBin # AsTarget
    BY PathsAre, StagingAssumption
  <2>3. /\ stage' \in [Files -> Sources \cup {None, Ours, "cache"}]
        /\ stage'[AsTarget] = stage[AsBin] /\ stage'[AsBin] = None
    BY <1>11, <2>2, Typed DEF MoveAs
  <2>4. fresh' = {AsTarget} /\ fresh' \subseteq Staged' /\ IsFiniteSet(fresh')
    <3>1. fresh' = {AsTarget} /\ fresh' \subseteq Staged'
      BY <1>11, <2>2, <2>3 DEF MoveAs, Staged
    <3>2. QED
      BY <3>1, FS_Singleton
  <2>5. TypeOK'
    BY <1>0, <1>11, <2>1, <2>2, <2>3, <2>4 DEF MoveAs, TypeOK
  <2>6. QueueOK'
    BY <1>0, <1>11, <2>1 DEF MoveAs, QueueOK
  <2>7. InHand'
    BY <1>0, <1>11, <2>1, <2>3, <2>4 DEF MoveAs, InHand, Copying
  <2>8. QED
    BY <1>0, <2>1, <2>5, <2>6, <2>7 DEF TypeInv
<1>11a. CASE MoveAsFails
  <2>1. /\ step' = step /\ step = "as" /\ queue' = <<"as">> /\ queue' # <<>>
        /\ todo' = todo /\ todo = <<>> /\ AsTarget \in Files
    BY <1>0, <1>11a, PathsAre DEF MoveAsFails, InHand
  <2>2. upsets' \in 0..MaxUpsets
    BY <1>0, <1>11a, StagingAssumption DEF MoveAsFails, TypeOK
  <2>3. fresh' = {AsTarget} /\ fresh' \subseteq missed' /\ IsFiniteSet(fresh')
    <3>1. fresh' = {AsTarget} /\ fresh' \subseteq missed'
      BY <1>11a DEF MoveAsFails
    <3>2. QED
      BY <3>1, FS_Singleton
  <2>4. TypeOK'
    BY <1>0, <1>11a, <2>1, <2>2, <2>3 DEF MoveAsFails, TypeOK
  <2>5. QueueOK'
    BY <2>1 DEF QueueOK
  <2>6. InHand'
    BY <1>0, <1>11a, <2>1, <2>3 DEF MoveAsFails, InHand, Copying
  <2>7. QED
    BY <1>0, <2>1, <2>4, <2>5, <2>6 DEF TypeInv
<1>12. CASE WriteDownAs
  <2>1. /\ step' = step /\ step = "as" /\ fresh' = {}
    BY <1>12 DEF WriteDownAs
  <2>2. rec' \in [Records -> Seq(Files)]
    BY <1>12, Typed, Appended DEF WriteDownAs
  <2>3. TypeOK'
    BY <1>0, <1>12, <2>1, <2>2 DEF WriteDownAs, TypeOK, Staged
  <2>4. QueueOK'
    BY <1>0, <1>12, <2>1 DEF WriteDownAs, QueueOK
  <2>5. IsFiniteSet(fresh')
    BY <2>1, FS_EmptySet
  <2>6. InHand'
    BY <1>0, <1>12, <2>1, <2>5 DEF WriteDownAs, InHand, Copying
  <2>7. QED
    BY <1>0, <2>1, <2>3, <2>4, <2>6 DEF TypeInv
<1>13. CASE PutAsBack
  <2>1. /\ step' = step /\ step = "as" /\ fresh' = {} /\ fresh = {} /\ AsBin \in Files
        /\ queue' = <<>> /\ todo' = todo /\ todo = <<>>
    BY <1>0, <1>13, PathsAre DEF PutAsBack, InHand
  <2>2. TypeOK'
    BY <1>0, <1>13, <2>1 DEF PutAsBack, TypeOK
  <2>3. QueueOK'
    BY <2>1 DEF QueueOK
  <2>4. InHand'
    BY <1>0, <1>13, <2>1 DEF PutAsBack, InHand, Copying
  <2>5. QED
    BY <1>0, <2>1, <2>2, <2>3, <2>4 DEF TypeInv
<1>14. CASE AsDone
  <2>1. step' = "cargo" /\ step = "as" /\ fresh = {} /\ fresh' = {} /\ queue' = queue /\ queue = <<>>
    BY <1>0, <1>14, ThenIs DEF AsDone, InHand
  <2>2. TypeOK'
    BY <1>0, <1>14, <2>1 DEF AsDone, TypeOK, Staged
  <2>3. QueueOK'
    BY <1>0, <1>14, <2>1 DEF AsDone, QueueOK
  <2>4. InHand'
    BY <1>0, <1>14, <2>1 DEF AsDone, InHand, Copying
  <2>5. QED
    BY <1>0, <2>1, <2>2, <2>3, <2>4 DEF TypeInv, Steps
<1>15. CASE CargoConfig
  <2>1. /\ step' = "caches" /\ step = "cargo" /\ fresh = {} /\ fresh' = {} /\ queue' = queue
        /\ queue = <<>> /\ todo = <<>> /\ todo' = todo /\ Cargo \in Files
    BY <1>0, <1>15, ThenIs, PathsAre DEF CargoConfig, QueueOK, TypeOK
  <2>2. TypeOK'
    BY <1>0, <1>15, <2>1 DEF CargoConfig, TypeOK
  <2>3. QueueOK'
    BY <1>0, <1>15, <2>1 DEF CargoConfig, QueueOK
  <2>4. InHand'
    <3>1. Range(todo') = {}
      BY <2>1, Typed
    <3>2. QED
      BY <1>0, <1>15, <2>1, <3>1 DEF CargoConfig, InHand, Copying
  <2>5. QED
    BY <1>0, <2>1, <2>2, <2>3, <2>4 DEF TypeInv, Steps
<1>16. CASE ClearCaches
  <2>1. /\ step' = "caches" /\ step = "caches" /\ fresh = {} /\ fresh' = {}
        /\ queue' = <<"caches">> /\ queue' # <<>> /\ todo' = Caches /\ todo' \in Seq(Files)
    BY <1>0, <1>16, StagingAssumption DEF ClearCaches, InHand
  <2>2. /\ stage' \in [Files -> Sources \cup {None, Ours, "cache"}]
        /\ stage'[Conf] = stage[Conf] /\ Conf \in Files /\ MakesCaches /\ asked' = asked
    BY <1>16, Typed, PathsAre, StagingAssumption DEF ClearCaches
  <2>3. TypeOK'
    BY <1>0, <1>16, <2>1, <2>2 DEF ClearCaches, TypeOK
  <2>4. QueueOK'
    BY <1>0, <1>16, <2>1 DEF ClearCaches, QueueOK
  <2>5. InHand'
    BY <1>0, <1>16, <2>1, <2>2 DEF ClearCaches, MakesCaches, InHand, Copying
  <2>6. QED
    BY <1>0, <2>1, <2>3, <2>4, <2>5 DEF TypeInv
<1>17. CASE WriteCache
  <2>1. /\ step' = step /\ step = "caches" /\ queue' = queue /\ queue # <<>>
        /\ Head(todo) \in Range(Caches)
    BY <1>0, <1>17, Typed DEF WriteCache, InHand
  <2>2. /\ stage' \in [Files -> Sources \cup {None, Ours, "cache"}]
        /\ \A f \in Files : stage'[f] = IF f = Head(todo) THEN "cache" ELSE stage[f]
    BY <1>17, Typed DEF WriteCache
  <2>3. fresh' \subseteq Staged' \cup missed'
    BY <1>0, <1>17, <2>2, Typed, PathsAre DEF WriteCache, TypeOK, Staged
  <2>4. TypeOK'
    BY <1>0, <1>17, <2>1, <2>2, <2>3, Typed DEF WriteCache, TypeOK
  <2>5. QueueOK'
    BY <1>0, <1>17, <2>1 DEF WriteCache, QueueOK
  <2>6. IsFiniteSet(fresh')
    BY <1>0, <1>17, FS_AddElement DEF WriteCache, InHand
  <2>7. MakesCaches'
    BY <1>0, <1>17, <2>1, <2>2, PathsAre DEF WriteCache, MakesCaches, InHand
  <2>8. InHand'
    BY <1>0, <1>17, <2>1, <2>6, <2>7, Typed DEF WriteCache, InHand, Copying
  <2>9. QED
    BY <1>0, <2>1, <2>4, <2>5, <2>8 DEF TypeInv
<1>18. CASE WriteDownCaches
  <2>1. step' = "hostile" /\ step = "caches" /\ fresh' = {} /\ queue' = <<>> /\ todo' = <<>>
    BY <1>18, ThenIs DEF WriteDownCaches
  <2>2. rec' \in [Records -> Seq(Files)]
    BY <1>18, Typed, Appended DEF WriteDownCaches
  <2>3. TypeOK'
    BY <1>0, <1>18, <2>1, <2>2 DEF WriteDownCaches, TypeOK, Staged
  <2>4. QueueOK'
    BY <2>1 DEF QueueOK
  <2>5. IsFiniteSet(fresh')
    BY <2>1, FS_EmptySet
  <2>6. InHand'
    BY <1>0, <1>18, <2>1, <2>5 DEF WriteDownCaches, InHand, Copying
  <2>7. QED
    BY <1>0, <2>1, <2>3, <2>4, <2>6 DEF TypeInv, Steps
<1>19. CASE NoCaches
  <2>1. /\ step' = "hostile" /\ step = "caches" /\ fresh' = {} /\ fresh = {}
        /\ queue' = queue /\ queue = <<>> /\ todo' = todo /\ todo = <<>>
    BY <1>0, <1>19, ThenIs DEF NoCaches, InHand, TypeOK
  <2>2. TypeOK'
    BY <1>0, <1>19, <2>1 DEF NoCaches, TypeOK, Staged
  <2>3. QueueOK'
    BY <2>1 DEF QueueOK
  <2>4. InHand'
    BY <1>0, <1>19, <2>1 DEF NoCaches, InHand, Copying
  <2>5. QED
    BY <1>0, <2>1, <2>2, <2>3, <2>4 DEF TypeInv, Steps
<1>20. CASE WriteHostile
  <2>1. /\ step' = "packages" /\ step = "hostile" /\ fresh' = {} /\ fresh = {}
        /\ queue' = queue /\ queue = <<>> /\ Hostile \in Files
    BY <1>0, <1>20, ThenIs, PathsAre DEF WriteHostile, QueueOK, TypeOK
  <2>2. TypeOK'
    BY <1>0, <1>20, <2>1 DEF WriteHostile, TypeOK
  <2>3. QueueOK'
    BY <2>1 DEF QueueOK
  <2>4. InHand'
    BY <1>0, <1>20, <2>1 DEF WriteHostile, InHand, Copying
  <2>5. QED
    BY <1>0, <2>1, <2>2, <2>3, <2>4 DEF TypeInv, Steps
<1>21. CASE WritePackages
  <2>1. /\ step' = "done" /\ step = "packages" /\ fresh' = {} /\ fresh = {}
        /\ queue' = queue /\ queue = <<>>
    BY <1>0, <1>21, ThenIs DEF WritePackages, QueueOK, TypeOK
  <2>2. TypeOK'
    BY <1>0, <1>21, <2>1 DEF WritePackages, TypeOK, Staged
  <2>3. QueueOK'
    BY <2>1 DEF QueueOK
  <2>4. InHand'
    BY <1>0, <1>21, <2>1 DEF WritePackages, InHand, Copying
  <2>5. QED
    BY <1>0, <2>1, <2>2, <2>3, <2>4 DEF TypeInv, Steps
<1>22. CASE Stop
  <2>1. /\ step' = "idle" /\ fresh' = {} /\ queue' = <<>> /\ todo' = <<>>
        /\ todo' \in Seq(Files) /\ upsets' \in 0..MaxUpsets
    BY <1>0, <1>22, StagingAssumption, EmptySeq DEF Stop, TypeOK
  <2>2. TypeOK'
    BY <1>0, <1>22, <2>1, Typed DEF Stop, TypeOK, Staged
  <2>3. QueueOK'
    BY <2>1 DEF QueueOK
  <2>4. IsFiniteSet(fresh')
    BY <2>1, FS_EmptySet
  <2>5. InHand'
    BY <1>0, <1>22, <2>1, <2>4 DEF Stop, InHand, Copying
  <2>6. QED
    BY <1>0, <2>1, <2>2, <2>3, <2>5 DEF TypeInv, Steps
<1>23. CASE TreesGrow
  <2>1. PICK f \in Grows \ Range(own) : own' = Append(own, f)
    BY <1>23 DEF TreesGrow
  <2>2. /\ own' \in Seq(Files) /\ Range(own') = Range(own) \cup {f}
    BY <2>1, Typed, PathsAre, OneMore
  <2>3. /\ step' = "idle" /\ fresh' = {} /\ fresh = {} /\ queue' = queue /\ queue = <<>>
        /\ upsets' \in 0..MaxUpsets
    BY <1>0, <1>23, StagingAssumption, SMTT(30) DEF TreesGrow, TypeOK, QueueOK
  <2>4. TypeOK'
    BY <1>0, <1>23, <2>2, <2>3 DEF TreesGrow, TypeOK, Staged
  <2>5. QueueOK'
    BY <2>3 DEF QueueOK
  <2>6. InHand'
    BY <1>0, <1>23, <2>1, <2>2, <2>3 DEF TreesGrow, InHand, Copying
  <2>7. QED
    BY <1>0, <2>3, <2>4, <2>5, <2>6 DEF TypeInv, Steps
<1>24. CASE UNCHANGED vars
  BY <1>0, <1>24 DEF vars, TypeInv, TypeOK, Staged, QueueOK, InHand, Copying, MakesCaches
<1>25. QED
  BY <1>1, <1>2, <1>3, <1>4, <1>5, <1>5a, <1>6, <1>7, <1>8, <1>9, <1>9a, <1>10, <1>11, <1>11a,
     <1>12, <1>13, <1>14, <1>15, <1>16, <1>17, <1>18, <1>19, <1>20, <1>21, <1>22, <1>23, <1>24
  DEF Next

LEMMA InitTyped == Init => TypeInv
<1> SUFFICES ASSUME Init
             PROVE  TypeInv
  OBVIOUS
<1>1. <<>> \in Seq(Files) /\ IsFiniteSet({}) /\ Range(<<>>) = {}
  BY EmptySeq, FS_EmptySet, FirstAndRest
<1>2. TypeOK
  BY <1>1, StagingAssumption DEF Init, TypeOK, Staged
<1>3. QueueOK /\ InHand
  BY <1>1 DEF Init, QueueOK, InHand, Copying
<1>4. QED
  BY <1>2, <1>3 DEF TypeInv, Steps, Init

(* Every variable of the staging stays in its range, and what a copy needs  *)
(* to know is there only while it copies: nothing a make had in hand when   *)
(* it was stopped is taken up by the next (Makefile:134-254).               *)
THEOREM TypeCorrect == Spec => []TypeOK
<1>1. TypeInv => TypeOK
  BY DEF TypeInv
<1>2. QED
  BY <1>1, InitTyped, StepTyped, PTL DEF Spec

-----------------------------------------------------------------------------
(* What is gone through of a record is out of the stage.                    *)
GoneThrough ==
  Forgetting => \A f \in Range(rec[Head(queue)]) : f \in Range(todo) \/ stage[f] = None
WrittenInv == WrittenDown /\ GoneThrough

LEMMA WrittenIs ==
  WrittenDown <=>
    \A f \in Files : stage[f] \in Sources \cup {"cache"} =>
      (\E r \in Records : f \in Range(rec[r])) \/ f \in fresh \cup stray
<1>1. \A f : f \in UNION {Range(rec[r]) : r \in Records} <=> \E r \in Records : f \in Range(rec[r])
  OBVIOUS
<1> DEFINE named == UNION {Range(rec[r]) : r \in Records}
<1>2. \A f : f \in named <=> \E r \in Records : f \in Range(rec[r])
  BY <1>1
<1>3. WrittenDown <=>
        \A f \in Files : stage[f] \in Sources \cup {"cache"} => f \in named \cup fresh \cup stray
  BY DEF WrittenDown
<1> HIDE DEF named
<1>4. QED
  BY <1>2, <1>3

(* What is in hand is added to a record.                                    *)
LEMMA MoreWritten ==
  ASSUME TypeInv, NEW r \in Records, rec' = [rec EXCEPT ![r] = @ \o SetToSeq(fresh)]
  PROVE  \A f : (\E q \in Records : f \in Range(rec'[q])) <=>
                 (\E q \in Records : f \in Range(rec[q])) \/ f \in fresh
<1>1. /\ rec \in [Records -> Seq(Files)] /\ SetToSeq(fresh) \in Seq(Files)
      /\ Range(SetToSeq(fresh)) = fresh
  BY Typed
<1>2. \A q \in Records :
        Range([rec EXCEPT ![r] = @ \o SetToSeq(fresh)][q]) =
          Range(rec[q]) \cup (IF q = r THEN Range(SetToSeq(fresh)) ELSE {})
  BY <1>1, Appended
<1>3. \A q \in Records : Range(rec'[q]) = Range(rec[q]) \cup (IF q = r THEN fresh ELSE {})
  BY <1>1, <1>2
<1>4. QED
  BY <1>3

(* A step that only goes on, or that has nothing to take out.               *)
LEMMA EnterGone ==
  ASSUME NEW s \in {"forget", "install", "coreutils", "copy", "as"}, Enter(s), rec' = rec
  PROVE  GoneThrough'
<1> SUFFICES ASSUME Forgetting'
             PROVE  Range(rec[Head(queue')]) = Range(todo')
  BY DEF GoneThrough
<1>1. s \in {"forget", "coreutils"} /\ queue' = QueueOf(s) /\ todo' = Lines(QueueOf(s))
  BY DEF Enter, Forgetting
<1>2. QueueOf(s) # <<>> /\ Head(QueueOf(s)) \in Records
  BY <1>1, ListsAre DEF Records
<1>3. todo' = rec[Head(queue')]
  BY <1>1, <1>2, LinesAre
<1>4. QED
  BY <1>3

LEMMA StepWritten == TypeInv /\ WrittenInv /\ [Next]_vars => WrittenInv'
<1> SUFFICES ASSUME TypeInv, WrittenInv, [Next]_vars
             PROVE  WrittenInv'
  OBVIOUS
<1>0. /\ \A f \in Files : stage[f] \in Sources \cup {"cache"} =>
           (\E r \in Records : f \in Range(rec[r])) \/ f \in fresh \cup stray
      /\ GoneThrough
  BY WrittenIs DEF WrittenInv
<1> DEFINE NowWritten ==
      \A f \in Files : stage'[f] \in Sources \cup {"cache"} =>
        (\E r \in Records : f \in Range(rec'[r])) \/ f \in fresh' \cup stray'
<1>q. NowWritten => WrittenDown'
  <2>1. \A f : f \in UNION {Range(rec'[r]) : r \in Records}
               <=> \E r \in Records : f \in Range(rec'[r])
    OBVIOUS
  <2> DEFINE named == UNION {Range(rec'[r]) : r \in Records}
  <2>2. \A f : f \in named <=> \E r \in Records : f \in Range(rec'[r])
    BY <2>1
  <2>3. (\A f \in Files : stage'[f] \in Sources \cup {"cache"} =>
            f \in named \cup fresh' \cup stray') => WrittenDown'
    BY DEF WrittenDown
  <2> HIDE DEF named
  <2>4. QED
    BY <2>2, <2>3
<1> HIDE DEF NowWritten
<1>1. CASE Make \/ StepDone
  <2>1. NowWritten
    BY <1>0, <1>1 DEF Make, StepDone, NowWritten
  <2>2. PICK s \in {"forget", "install", "coreutils", "copy", "as"} : Enter(s)
    BY <1>1, ThenIs DEF Make, StepDone
  <2>3. GoneThrough'
    BY <1>1, <2>2, EnterGone DEF Make, StepDone
  <2>4. QED
    BY <1>q, <2>1, <2>3 DEF WrittenInv
<1>2. CASE RemoveFile
  <2>1. /\ Forgetting /\ stage' = [stage EXCEPT ![Head(todo)] = None] /\ todo' = Tail(todo)
        /\ stray' = stray \ {Head(todo)} /\ UNCHANGED <<rec, step, queue, fresh>>
        /\ todo # <<>>
    BY <1>2 DEF RemoveFile
  <2>2. \A f \in Files : stage'[f] = IF f = Head(todo) THEN None ELSE stage[f]
    BY <2>1, Typed
  <2>3. NowWritten
    BY <1>0, <2>1, <2>2, PathsAre DEF NowWritten
  <2>4. Range(rec[Head(queue)]) \subseteq Files
    BY <2>1, RecordsGo, Typed, FirstAndRest
  <2>5. \A f \in Range(rec[Head(queue)]) : f \in Range(todo') \/ stage'[f] = None
    BY <1>0, <2>1, <2>2, <2>4, Typed DEF GoneThrough
  <2>6. GoneThrough'
    BY <2>1, <2>5 DEF GoneThrough
  <2>7. QED
    BY <1>q, <2>3, <2>6 DEF WrittenInv
<1>3. CASE RemoveRecord
  <2>1. /\ Forgetting /\ todo = <<>> /\ rec' = [rec EXCEPT ![Head(queue)] = <<>>]
        /\ queue' = Tail(queue) /\ todo' = Lines(Tail(queue))
        /\ UNCHANGED <<stage, step, fresh, stray>>
    BY <1>3 DEF RemoveRecord, NextList
  <2>2. \A f \in Range(rec[Head(queue)]) : stage[f] = None
    BY <1>0, <2>1, Typed DEF GoneThrough
  <2>3. \A r \in Records : rec'[r] = IF r = Head(queue) THEN <<>> ELSE rec[r]
    BY <2>1, Typed
  <2>4. NowWritten
    BY <1>0, <2>1, <2>2, <2>3, PathsAre DEF NowWritten
  <2>5. queue' # <<>> => Range(rec'[Head(queue')]) = Range(todo')
    BY <2>1, <2>3, RecordsGo
  <2>6. GoneThrough'
    BY <2>5 DEF GoneThrough, Forgetting
  <2>7. QED
    BY <1>q, <2>4, <2>6 DEF WrittenInv
<1>4. CASE Install
  <2>1. \A f \in Files : stage'[f] = IF f = Head(todo) THEN Ours ELSE stage[f]
    BY <1>4, Typed DEF Install
  <2>2. NowWritten
    BY <1>0, <1>4, <2>1, PathsAre DEF Install, NowWritten
  <2>3. GoneThrough'
    BY <1>4 DEF Install, GoneThrough, Forgetting
  <2>4. QED
    BY <1>q, <2>2, <2>3 DEF WrittenInv
<1>4a. CASE InstallFails
  <2>1. \A f \in Files : stage'[f] = stage[f] \/ stage'[f] = Ours
    BY <1>4a, Typed DEF InstallFails
  <2>2. NowWritten
    BY <1>0, <1>4a, <2>1, PathsAre DEF InstallFails, NowWritten
  <2>3. GoneThrough'
    BY <1>4a DEF InstallFails, GoneThrough, Forgetting
  <2>4. QED
    BY <1>q, <2>2, <2>3 DEF WrittenInv
<1>4b. CASE CopyFails
  <2>1. \A f \in Files : f # Head(todo) => stage'[f] = stage[f]
    BY <1>4b, Typed DEF CopyFails
  <2>2. NowWritten
    BY <1>0, <1>4b, <2>1 DEF CopyFails, NowWritten
  <2>3. GoneThrough'
    BY <1>4b DEF CopyFails, Copying, GoneThrough, Forgetting
  <2>4. QED
    BY <1>q, <2>2, <2>3 DEF WrittenInv
<1>4c. CASE WriteDownFails \/ MoveAsFails
  <2>1. UNCHANGED <<stage, rec, step>> /\ fresh \cup stray \subseteq fresh' \cup stray'
        /\ step \in {"copy", "as"}
    <3>1. MoveAsFails => fresh = {}
      BY DEF MoveAsFails, TypeInv, InHand
    <3>2. QED
      BY <1>4c, <3>1 DEF WriteDownFails, MoveAsFails, Copying
  <2>2. NowWritten
    BY <1>0, <2>1 DEF NowWritten
  <2>3. GoneThrough'
    BY <2>1 DEF GoneThrough, Forgetting
  <2>4. QED
    BY <1>q, <2>2, <2>3 DEF WrittenInv
<1>5. CASE Keep \/ NextSource
  <2>1. NowWritten
    BY <1>0, <1>5 DEF Keep, NextSource, NowWritten
  <2>2. GoneThrough'
    BY <1>5 DEF Keep, NextSource, Copying, GoneThrough, Forgetting
  <2>3. QED
    BY <1>q, <2>1, <2>2 DEF WrittenInv
<1>6. CASE Copy
  <2>1. \A f \in Files : stage'[f] = IF f = Head(todo) THEN Head(queue) ELSE stage[f]
    BY <1>6, Typed DEF Copy
  <2>2. NowWritten
    BY <1>0, <1>6, <2>1 DEF Copy, NowWritten
  <2>3. GoneThrough'
    BY <1>6 DEF Copy, Copying, GoneThrough, Forgetting
  <2>4. QED
    BY <1>q, <2>2, <2>3 DEF WrittenInv
<1>7. CASE WriteDown
  <2>1. /\ rec' = [rec EXCEPT ![RecordOf(Head(queue))] = @ \o SetToSeq(fresh)]
        /\ RecordOf(Head(queue)) \in Records
    BY <1>7 DEF WriteDown, RecordOf, Records
  <2>2. NowWritten
    BY <1>0, <1>7, <2>1, MoreWritten DEF WriteDown, NowWritten
  <2>3. GoneThrough'
    BY <1>7 DEF WriteDown, Copying, GoneThrough, Forgetting
  <2>4. QED
    BY <1>q, <2>2, <2>3 DEF WrittenInv
<1>8. CASE MoveAs
  <2>1. /\ \A f \in Files : stage'[f] = IF f = AsBin THEN None
                                     ELSE IF f = AsTarget THEN stage[AsBin] ELSE stage[f]
        /\ fresh = {}
    BY <1>8, Typed, PathsAre, StagingAssumption DEF MoveAs, TypeInv, InHand
  <2>2. NowWritten
    BY <1>0, <1>8, <2>1, PathsAre DEF MoveAs, NowWritten
  <2>3. GoneThrough'
    BY <1>8 DEF MoveAs, GoneThrough, Forgetting
  <2>4. QED
    BY <1>q, <2>2, <2>3 DEF WrittenInv
<1>9. CASE WriteDownAs
  <2>1. NowWritten
    <3>1. rec' = [rec EXCEPT ![".overlays"] = @ \o SetToSeq(fresh)] /\ ".overlays" \in Records
      BY <1>9 DEF WriteDownAs, Records
    <3>2. QED
      BY <1>0, <1>9, <3>1, MoreWritten DEF WriteDownAs, NowWritten
  <2>2. GoneThrough'
    BY <1>9 DEF WriteDownAs, GoneThrough, Forgetting
  <2>3. QED
    BY <1>q, <2>1, <2>2 DEF WrittenInv
<1>10. CASE PutAsBack \/ CargoConfig \/ WriteHostile
  <2>1. /\ \A f \in Files : stage'[f] \in {stage[f], Ours, None}
        /\ UNCHANGED <<rec, fresh>>
        /\ \A f \in stray : f \in stray' \/ (f = AsBin /\ stage'[f] = Ours)
    BY <1>10, Typed, PathsAre DEF PutAsBack, CargoConfig, WriteHostile
  <2>2. NowWritten
    BY <1>0, <2>1, PathsAre DEF NowWritten
  <2>3. GoneThrough'
    BY <1>10, ThenIs DEF PutAsBack, CargoConfig, WriteHostile, GoneThrough, Forgetting
  <2>4. QED
    BY <1>q, <2>2, <2>3 DEF WrittenInv
<1>11. CASE AsDone \/ NoCaches \/ WritePackages
  <2>1. NowWritten
    BY <1>0, <1>11 DEF AsDone, NoCaches, WritePackages, NowWritten
  <2>2. GoneThrough'
    BY <1>11, ThenIs DEF AsDone, NoCaches, WritePackages, GoneThrough, Forgetting
  <2>3. QED
    BY <1>q, <2>1, <2>2 DEF WrittenInv
<1>12. CASE ClearCaches
  <2>1. \A f \in Files : stage'[f] = IF f \in Range(Caches) THEN None ELSE stage[f]
    BY <1>12 DEF ClearCaches
  <2>2. NowWritten
    BY <1>0, <1>12, <2>1, PathsAre DEF ClearCaches, NowWritten
  <2>3. GoneThrough'
    BY <1>12 DEF ClearCaches, GoneThrough, Forgetting
  <2>4. QED
    BY <1>q, <2>2, <2>3 DEF WrittenInv
<1>13. CASE WriteCache
  <2>1. \A f \in Files : stage'[f] = IF f = Head(todo) THEN "cache" ELSE stage[f]
    BY <1>13, Typed DEF WriteCache
  <2>2. NowWritten
    BY <1>0, <1>13, <2>1 DEF WriteCache, NowWritten
  <2>3. GoneThrough'
    BY <1>13 DEF WriteCache, GoneThrough, Forgetting
  <2>4. QED
    BY <1>q, <2>2, <2>3 DEF WrittenInv
<1>14. CASE WriteDownCaches
  <2>1. NowWritten
    <3>1. rec' = [rec EXCEPT ![".overlays"] = @ \o SetToSeq(fresh)] /\ ".overlays" \in Records
      BY <1>14 DEF WriteDownCaches, Records
    <3>2. QED
      BY <1>0, <1>14, <3>1, MoreWritten DEF WriteDownCaches, NowWritten
  <2>2. GoneThrough'
    BY <1>14, ThenIs DEF WriteDownCaches, GoneThrough, Forgetting
  <2>3. QED
    BY <1>q, <2>1, <2>2 DEF WrittenInv
<1>15. CASE Stop
  <2>1. NowWritten
    BY <1>0, <1>15 DEF Stop, NowWritten
  <2>2. GoneThrough'
    BY <1>15 DEF Stop, GoneThrough, Forgetting
  <2>3. QED
    BY <1>q, <2>1, <2>2 DEF WrittenInv
<1>16. CASE TreesGrow
  <2>1. NowWritten
    BY <1>0, <1>16 DEF TreesGrow, NowWritten
  <2>2. GoneThrough'
    BY <1>16 DEF TreesGrow, GoneThrough, Forgetting
  <2>3. QED
    BY <1>q, <2>1, <2>2 DEF WrittenInv
<1>17. CASE UNCHANGED vars
  <2>1. NowWritten
    BY <1>0, <1>17 DEF vars, NowWritten
  <2>2. GoneThrough'
    BY <1>0, <1>17 DEF vars, GoneThrough, Forgetting
  <2>3. QED
    BY <1>q, <2>1, <2>2 DEF WrittenInv
<1>18. QED
  BY <1>1, <1>2, <1>3, <1>4, <1>4a, <1>4b, <1>4c, <1>5, <1>6, <1>7, <1>8, <1>9, <1>10, <1>11,
     <1>12, <1>13, <1>14, <1>15, <1>16, <1>17 DEF Next

(* What is somebody else's in the stage is written down, in hand, or was in *)
(* the hand of a make that was stopped or could not write it down, whatever *)
(* was made before and whatever failed (tools/stage-forget.sh:7-8).         *)
THEOREM WrittenDownHolds == Spec => []WrittenDown
<1>1. Init => WrittenInv
  BY PathsAre DEF Init, WrittenInv, WrittenDown, GoneThrough, Forgetting
<1>2. WrittenInv => WrittenDown
  BY DEF WrittenInv
<1>3. QED
  BY <1>1, <1>2, InitTyped, StepTyped, StepWritten, PTL DEF Spec

-----------------------------------------------------------------------------
(* This system's own files: nothing else counts as them, coreutils' record  *)
(* names programs of coreutils', and once installed they stay, but for      *)
(* those the make goes on without, the moment in which the assembler is     *)
(* moved and the one in which the caches are made.                          *)
OnlyOurs == \A f \in Files : stage[f] = Ours => f \in Range(own) \cup {Cargo, Hostile}
OthersPrograms ==
  /\ Range(rec[".coreutils"]) \subseteq Range(Given["coreutils"])
  /\ Copying /\ Head(queue) = "coreutils" => fresh \subseteq Range(Given["coreutils"])
  /\ step = "coreutils" => Range(todo) \subseteq Range(Given["coreutils"])
Installed ==
  /\ step = "install" =>
       \A f \in Range(own) : \/ f \in Range(todo) \cup missed
                             \/ stage[f] = Ours /\ f \notin stray
  /\ step = "coreutils" => \A f \in Range(own) : stage[f] = Ours \/ f \in missed
  /\ step \in {"coreutils", "copy", "as", "cargo", "caches", "hostile", "packages", "done"} =>
       Range(own) \cap stray \subseteq missed
  /\ step \in {"copy", "cargo", "hostile", "packages", "done"} =>
       \A f \in Range(own) \ missed : stage[f] # None
  /\ step = "as" => \A f \in Range(own) \ missed :
                      stage[f] # None \/ (f = AsBin /\ queue # <<>>)
  /\ step = "caches" => \A f \in Range(own) \ missed : f \in Range(todo) \/ stage[f] # None
OursInv == OnlyOurs /\ OthersPrograms /\ Installed

(* The paths this system's files are not.                                   *)
LEMMA OwnIs ==
  ASSUME TypeInv
  PROVE  /\ Range(own) \subseteq Files /\ AsBin \in Range(own) /\ Cargo \notin Range(own)
         /\ AsBin \notin {AsTarget, Cargo, Conf, Hostile} /\ AsTarget \notin {Cargo, Conf, Hostile}
         /\ {AsBin, AsTarget, Cargo, Conf, Hostile} \cap Range(Caches) = {}
         /\ Cargo # Hostile /\ Conf \notin {Cargo, Hostile}
         /\ Range(<<>>) = {}
<1>1. Range(own) \subseteq Files /\ Range(Own) \subseteq Range(own)
      /\ Range(own) \subseteq Range(Own) \cup Grows
  BY Typed DEF TypeInv, TypeOK, InHand
<1>2. Range(<<>>) = {}
  BY EmptySeq, FirstAndRest
<1>3. QED
  BY <1>1, <1>2, StagingAssumption

LEMMA StepOurs == TypeInv /\ OursInv /\ [Next]_vars => OursInv'
<1> SUFFICES ASSUME TypeInv, OursInv, [Next]_vars
             PROVE  OursInv'
  OBVIOUS
<1>0. OnlyOurs /\ OthersPrograms /\ Installed
  BY DEF OursInv
<1>1. CASE Make
  <2>1. /\ step' = "forget" /\ UNCHANGED <<stage, rec, own>>
    BY <1>1 DEF Make, Enter
  <2>2. OnlyOurs' /\ OthersPrograms' /\ Installed'
    BY <1>0, <2>1 DEF OnlyOurs, OthersPrograms, Installed, Copying
  <2>3. QED
    BY <2>2 DEF OursInv
<1>2. CASE StepDone
  <2>1. /\ step' = Then(step) /\ todo' = Lines(QueueOf(Then(step)))
        /\ step \in {"forget", "install", "coreutils", "copy"} /\ queue = <<>> /\ todo = <<>>
        /\ fresh = {} /\ fresh' = {} /\ UNCHANGED <<stage, rec, own, asked, stray, missed>>
    BY <1>2 DEF StepDone, Enter, TypeInv, TypeOK, InHand
  <2>2. Range(todo) = {}
    BY <2>1, OwnIs
  <2>3. OnlyOurs'
    BY <1>0, <2>1 DEF OnlyOurs
  <2>4. CASE step = "forget"
    <3>1. step' = "install" /\ todo' = own
      BY <2>1, <2>4, ThenIs, ListsAre, LinesAre
    <3>2. OthersPrograms' /\ Installed'
      BY <1>0, <2>1, <3>1 DEF OthersPrograms, Installed, Copying
    <3>3. QED
      BY <2>3, <3>2 DEF OursInv
  <2>5. CASE step = "install"
    <3>1. step' = "coreutils" /\ todo' = rec[".coreutils"]
      BY <2>1, <2>5, ThenIs, ListsAre, LinesAre DEF Records
    <3>2. OthersPrograms' /\ Installed'
      BY <1>0, <2>1, <2>2, <2>5, <3>1, OwnIs, PathsAre DEF OthersPrograms, Installed, Copying
    <3>3. QED
      BY <2>3, <3>2 DEF OursInv
  <2>6. CASE step = "coreutils"
    <3>1. step' = "copy"
      BY <2>1, <2>6, ThenIs
    <3>2. OthersPrograms' /\ Installed'
      BY <1>0, <2>1, <2>6, <3>1, PathsAre DEF OthersPrograms, Installed, Copying
    <3>3. QED
      BY <2>3, <3>2 DEF OursInv
  <2>7. CASE step = "copy"
    <3>1. step' = "as"
      BY <2>1, <2>7, ThenIs
    <3>2. OthersPrograms' /\ Installed'
      BY <1>0, <2>1, <2>7, <3>1, OwnIs DEF OthersPrograms, Installed, Copying
    <3>3. QED
      BY <2>3, <3>2 DEF OursInv
  <2>8. QED
    BY <2>1, <2>4, <2>5, <2>6, <2>7
<1>3. CASE RemoveFile
  <2>1. /\ step \in {"forget", "coreutils"} /\ todo # <<>> /\ todo' = Tail(todo)
        /\ stray' = stray \ {Head(todo)} /\ UNCHANGED <<rec, own, step, queue, fresh>>
        /\ missed \subseteq missed'
        /\ step = "coreutils" /\ Head(todo) \in Range(own) => Head(todo) \in missed'
    BY <1>3, WhoseRecord DEF RemoveFile, Forgetting
  <2>2. \A f \in Files : stage'[f] = IF f = Head(todo) THEN None ELSE stage[f]
    BY <1>3, Typed DEF RemoveFile
  <2>3. Range(todo) = {Head(todo)} \cup Range(todo')
    BY <2>1, Typed
  <2>4. OnlyOurs'
    BY <1>0, <2>1, <2>2, PathsAre DEF OnlyOurs
  <2>5. OthersPrograms'
    BY <1>0, <2>1, <2>3 DEF OthersPrograms, Copying
  <2>6. Installed'
    BY <1>0, <2>1, <2>2, <2>3, OwnIs DEF Installed, OthersPrograms
  <2>7. QED
    BY <2>4, <2>5, <2>6 DEF OursInv
<1>4. CASE RemoveRecord
  <2>1. /\ step \in {"forget", "coreutils"} /\ todo = <<>> /\ Forgetting
        /\ todo' = Lines(Tail(queue)) /\ UNCHANGED <<stage, own, step, stray, missed>>
    BY <1>4 DEF RemoveRecord, Forgetting, NextList
  <2>2. /\ \A r \in Records : rec'[r] = IF r = Head(queue) THEN <<>> ELSE rec[r]
        /\ ".coreutils" \in Records
    BY <1>4, Typed DEF RemoveRecord, Records
  <2>3. step = "coreutils" => todo' = <<>>
    BY <2>1, RecordsGo, LinesAre
  <2>4. OnlyOurs'
    BY <1>0, <2>1 DEF OnlyOurs
  <2>5. OthersPrograms'
    BY <1>0, <2>1, <2>2, <2>3, OwnIs DEF OthersPrograms, Copying
  <2>6. Installed'
    BY <1>0, <2>1 DEF Installed
  <2>7. QED
    BY <2>4, <2>5, <2>6 DEF OursInv
<1>5. CASE Install
  <2>1. /\ step = "install" /\ todo # <<>> /\ todo' = Tail(todo)
        /\ stray' = stray \ {Head(todo)} /\ UNCHANGED <<rec, own, step, fresh, missed>>
    BY <1>5 DEF Install
  <2>2. \A f \in Files : stage'[f] = IF f = Head(todo) THEN Ours ELSE stage[f]
    BY <1>5, Typed DEF Install
  <2>3. Range(todo) = {Head(todo)} \cup Range(todo') /\ Range(todo) \subseteq Range(own)
    BY <2>1, Typed DEF TypeInv, InHand
  <2>4. OnlyOurs'
    BY <1>0, <2>1, <2>2, <2>3 DEF OnlyOurs
  <2>5. OthersPrograms'
    BY <1>0, <2>1 DEF OthersPrograms, Copying
  <2>6. Installed'
    BY <1>0, <2>1, <2>2, <2>3, OwnIs DEF Installed
  <2>7. QED
    BY <2>4, <2>5, <2>6 DEF OursInv
<1>5a. CASE InstallFails
  <2>1. /\ step = "install" /\ todo # <<>> /\ todo' = Tail(todo)
        /\ missed' = missed \cup {Head(todo)} /\ UNCHANGED <<rec, own, step, fresh, stray>>
    BY <1>5a DEF InstallFails
  <2>2. \A f \in Files : stage'[f] = stage[f] \/ (f = Head(todo) /\ stage'[f] = Ours)
    BY <1>5a, Typed DEF InstallFails
  <2>3. Range(todo) = {Head(todo)} \cup Range(todo') /\ Range(todo) \subseteq Range(own)
    BY <2>1, Typed DEF TypeInv, InHand
  <2>4. OnlyOurs'
    BY <1>0, <2>1, <2>2, <2>3 DEF OnlyOurs
  <2>5. OthersPrograms'
    BY <1>0, <2>1 DEF OthersPrograms, Copying
  <2>6. Installed'
    BY <1>0, <2>1, <2>2, <2>3, OwnIs DEF Installed
  <2>7. QED
    BY <2>4, <2>5, <2>6 DEF OursInv
<1>6. CASE Keep \/ NextSource
  <2>1. /\ step = "copy" /\ fresh = {} /\ UNCHANGED <<stage, rec, own, asked, step, fresh, stray>>
        /\ missed \subseteq missed'
    BY <1>6 DEF Keep, NextSource, Copying
  <2>2. OnlyOurs' /\ OthersPrograms' /\ Installed'
    BY <1>0, <2>1 DEF OnlyOurs, OthersPrograms, Installed, Copying
  <2>3. QED
    BY <2>2 DEF OursInv
<1>7. CASE Copy
  <2>1. /\ step = "copy" /\ Copying /\ todo # <<>> /\ ~Kept(Head(queue), Head(todo))
        /\ fresh' = fresh \cup {Head(todo)} /\ stray' = stray \ {Head(todo)}
        /\ UNCHANGED <<rec, own, asked, step, queue, missed>>
    BY <1>7 DEF Copy, Copying
  <2>2. /\ \A f \in Files : stage'[f] = IF f = Head(todo) THEN Head(queue) ELSE stage[f]
        /\ Head(todo) \in Files /\ Head(todo) \in Range(todo)
    BY <1>7, <2>1, Typed DEF Copy
  <2>3. Head(queue) \notin {Ours, None} /\ Head(todo) \in Range(Given[Head(queue)])
    BY <2>1, <2>2, SourcesGo, PathsAre DEF TypeInv, InHand
  <2>5. OnlyOurs'
    BY <1>0, <2>1, <2>2, <2>3 DEF OnlyOurs
  <2>6. OthersPrograms'
    BY <1>0, <2>1, <2>3 DEF OthersPrograms, Copying
  <2>7. Installed'
    BY <1>0, <2>1, <2>2, <2>3, OwnIs DEF Installed
  <2>8. QED
    BY <2>5, <2>6, <2>7 DEF OursInv
<1>8. CASE CopyFails
  <2>1. /\ step = "copy" /\ Copying /\ Head(queue) \in {"clients", "suites", "share"}
        /\ todo # <<>> /\ missed' = missed \cup {Head(todo)}
        /\ UNCHANGED <<rec, own, asked, step, queue, stray>>
    BY <1>8 DEF CopyFails, Copying, PassedOver
  <2>2. Head(queue) \notin {Ours, None}
    BY <2>1, SourcesGo, PathsAre
  <2>3. \A f \in Files : stage'[f] = stage[f] \/ stage'[f] = Head(queue)
    BY <1>8, Typed DEF CopyFails
  <2>4. OnlyOurs'
    BY <1>0, <2>1, <2>2, <2>3 DEF OnlyOurs
  <2>5. OthersPrograms'
    BY <1>0, <2>1 DEF OthersPrograms, Copying
  <2>6. Installed'
    BY <1>0, <2>1, <2>2, <2>3, OwnIs DEF Installed
  <2>7. QED
    BY <2>4, <2>5, <2>6 DEF OursInv
<1>8a. CASE WriteDownFails
  <2>1. /\ step \in {"copy", "as"} /\ fresh' = {} /\ stray' = stray \cup fresh
        /\ missed' = missed \cup fresh /\ UNCHANGED <<stage, rec, own, asked, step, queue>>
    BY <1>8a DEF WriteDownFails, Copying
  <2>2. OnlyOurs' /\ OthersPrograms' /\ Installed'
    BY <1>0, <2>1 DEF OnlyOurs, OthersPrograms, Installed, Copying
  <2>3. QED
    BY <2>2 DEF OursInv
<1>9. CASE WriteDown
  <2>1. /\ step = "copy" /\ Copying /\ fresh' = {}
        /\ rec' = [rec EXCEPT ![RecordOf(Head(queue))] = @ \o SetToSeq(fresh)]
        /\ UNCHANGED <<stage, own, asked, step, queue, stray, missed>>
    BY <1>9 DEF WriteDown, Copying
  <2>2. /\ rec \in [Records -> Seq(Files)] /\ SetToSeq(fresh) \in Seq(Files)
        /\ Range(SetToSeq(fresh)) = fresh /\ ".coreutils" \in Records
    BY Typed DEF Records
  <2>3. Range(rec'[".coreutils"]) =
          Range(rec[".coreutils"])
            \cup (IF ".coreutils" = RecordOf(Head(queue)) THEN Range(SetToSeq(fresh)) ELSE {})
    BY <2>1, <2>2, Appended
  <2>4. RecordOf(Head(queue)) = ".coreutils" => Head(queue) = "coreutils"
    BY DEF RecordOf
  <2>5. Range(rec'[".coreutils"]) \subseteq Range(Given["coreutils"])
    BY <1>0, <2>1, <2>2, <2>3, <2>4 DEF OthersPrograms
  <2>6. OnlyOurs' /\ Installed'
    BY <1>0, <2>1 DEF OnlyOurs, Installed
  <2>7. OthersPrograms'
    BY <2>1, <2>5 DEF OthersPrograms
  <2>8. QED
    BY <2>6, <2>7 DEF OursInv
<1>10. CASE MoveAs
  <2>1. /\ step = "as" /\ stage[AsBin] \notin {Ours, None} /\ queue' # <<>>
        /\ stray' = stray \ {AsBin, AsTarget} /\ UNCHANGED <<rec, own, asked, step, todo, missed>>
    BY <1>10 DEF MoveAs, AsReplaced
  <2>2. \A f \in Files : stage'[f] = IF f = AsBin THEN None
                                  ELSE IF f = AsTarget THEN stage[AsBin] ELSE stage[f]
    BY <1>10, Typed, PathsAre, OwnIs DEF MoveAs
  <2>3. OnlyOurs'
    BY <1>0, <2>1, <2>2, PathsAre DEF OnlyOurs
  <2>4. OthersPrograms'
    BY <1>0, <2>1 DEF OthersPrograms, Copying
  <2>5. Installed'
    BY <1>0, <2>1, <2>2, OwnIs DEF Installed
  <2>6. QED
    BY <2>3, <2>4, <2>5 DEF OursInv
<1>10a. CASE MoveAsFails
  <2>1. /\ step = "as" /\ queue' # <<>> /\ missed \subseteq missed'
        /\ UNCHANGED <<stage, rec, own, asked, step, todo, stray>>
    BY <1>10a DEF MoveAsFails
  <2>2. OnlyOurs' /\ OthersPrograms' /\ Installed'
    BY <1>0, <2>1 DEF OnlyOurs, OthersPrograms, Installed, Copying
  <2>3. QED
    BY <2>2 DEF OursInv
<1>11. CASE WriteDownAs \/ WriteDownCaches
  <2>1. /\ rec' = [rec EXCEPT ![".overlays"] = @ \o SetToSeq(fresh)]
        /\ UNCHANGED <<stage, own, asked, stray, missed>>
        /\ \/ step = "as" /\ step' = "as" /\ queue' = queue
           \/ step = "caches" /\ step' = "hostile" /\ todo = <<>>
    <3>1. CASE WriteDownAs
      BY <3>1 DEF WriteDownAs
    <3>2. CASE WriteDownCaches
      BY <3>2, ThenIs DEF WriteDownCaches
    <3>3. QED
      BY <1>11, <3>1, <3>2
  <2>2. rec'[".coreutils"] = rec[".coreutils"]
    BY <2>1, Typed DEF Records
  <2>3. OnlyOurs' /\ OthersPrograms'
    BY <1>0, <2>1, <2>2 DEF OnlyOurs, OthersPrograms, Copying
  <2>4. Installed'
    BY <1>0, <2>1, OwnIs DEF Installed
  <2>5. QED
    BY <2>3, <2>4 DEF OursInv
<1>12. CASE PutAsBack
  <2>1. /\ step = "as" /\ UNCHANGED <<rec, own, asked, step, todo, fresh, missed>>
        /\ stray' \subseteq stray
    BY <1>12 DEF PutAsBack
  <2>2. \A f \in Files : stage'[f] = IF f = AsBin THEN Ours ELSE stage[f]
    BY <1>12, Typed DEF PutAsBack
  <2>3. OnlyOurs'
    BY <1>0, <2>1, <2>2, OwnIs DEF OnlyOurs
  <2>4. OthersPrograms'
    BY <1>0, <2>1 DEF OthersPrograms, Copying
  <2>5. Installed'
    BY <1>0, <2>1, <2>2, OwnIs, PathsAre DEF Installed
  <2>6. QED
    BY <2>3, <2>4, <2>5 DEF OursInv
<1>13. CASE AsDone
  <2>1. /\ step = "as" /\ step' = "cargo" /\ queue = <<>>
        /\ UNCHANGED <<stage, rec, own, stray, missed>>
    BY <1>13, ThenIs DEF AsDone
  <2>3. OnlyOurs' /\ OthersPrograms'
    BY <1>0, <2>1 DEF OnlyOurs, OthersPrograms, Copying
  <2>4. Installed'
    BY <1>0, <2>1 DEF Installed
  <2>5. QED
    BY <2>3, <2>4 DEF OursInv
<1>14. CASE CargoConfig
  <2>1. /\ step = "cargo" /\ step' = "caches" /\ UNCHANGED <<rec, own, stray, missed>>
    BY <1>14, ThenIs DEF CargoConfig
  <2>2. \A f \in Files \ {Cargo} : stage'[f] = stage[f]
    BY <1>14, Typed DEF CargoConfig
  <2>3. OnlyOurs' /\ OthersPrograms'
    BY <1>0, <2>1, <2>2 DEF OnlyOurs, OthersPrograms, Copying
  <2>4. Installed'
    BY <1>0, <2>1, <2>2, OwnIs DEF Installed
  <2>5. QED
    BY <2>3, <2>4 DEF OursInv
<1>15. CASE ClearCaches
  <2>1. /\ step = "caches" /\ todo' = Caches /\ stray' = stray \ Range(Caches)
        /\ UNCHANGED <<rec, own, step, missed>>
        /\ \A f \in Files : stage'[f] = IF f \in Range(Caches) THEN None ELSE stage[f]
        /\ todo = <<>>
    BY <1>15 DEF ClearCaches, TypeInv, TypeOK
  <2>2. OnlyOurs' /\ OthersPrograms'
    BY <1>0, <2>1, PathsAre DEF OnlyOurs, OthersPrograms, Copying
  <2>3. Installed'
    BY <1>0, <2>1, OwnIs DEF Installed
  <2>4. QED
    BY <2>2, <2>3 DEF OursInv
<1>16. CASE WriteCache
  <2>1. /\ step = "caches" /\ todo # <<>> /\ todo' = Tail(todo)
        /\ UNCHANGED <<rec, own, step, stray, missed>>
    BY <1>16 DEF WriteCache
  <2>2. /\ \A f \in Files : stage'[f] = IF f = Head(todo) THEN "cache" ELSE stage[f]
        /\ Range(todo) = {Head(todo)} \cup Range(todo')
    BY <1>16, <2>1, Typed DEF WriteCache
  <2>3. OnlyOurs' /\ OthersPrograms'
    BY <1>0, <2>1, <2>2, PathsAre DEF OnlyOurs, OthersPrograms, Copying
  <2>4. Installed'
    BY <1>0, <2>1, <2>2, OwnIs, PathsAre DEF Installed
  <2>5. QED
    BY <2>3, <2>4 DEF OursInv
<1>17. CASE NoCaches
  <2>1. /\ step = "caches" /\ step' = "hostile" /\ UNCHANGED <<stage, rec, own, stray, missed>>
        /\ todo = <<>>
    BY <1>17, ThenIs DEF NoCaches, TypeInv, TypeOK, InHand
  <2>2. OnlyOurs' /\ OthersPrograms' /\ Installed'
    BY <1>0, <2>1, OwnIs DEF OnlyOurs, OthersPrograms, Copying, Installed
  <2>3. QED
    BY <2>2 DEF OursInv
<1>18. CASE WriteHostile
  <2>1. /\ step = "hostile" /\ step' = "packages" /\ UNCHANGED <<rec, own, stray, missed>>
        /\ \A f \in Files : stage'[f] = IF f = Hostile THEN Ours ELSE stage[f]
    BY <1>18, ThenIs, Typed DEF WriteHostile
  <2>2. OnlyOurs' /\ OthersPrograms'
    BY <1>0, <2>1 DEF OnlyOurs, OthersPrograms, Copying
  <2>3. Installed'
    BY <1>0, <2>1, OwnIs, PathsAre DEF Installed
  <2>4. QED
    BY <2>2, <2>3 DEF OursInv
<1>19. CASE WritePackages
  <2>1. /\ step = "packages" /\ step' = "done" /\ UNCHANGED <<stage, rec, own, stray, missed>>
    BY <1>19, ThenIs DEF WritePackages
  <2>2. OnlyOurs' /\ OthersPrograms' /\ Installed'
    BY <1>0, <2>1 DEF OnlyOurs, OthersPrograms, Copying, Installed
  <2>3. QED
    BY <2>2 DEF OursInv
<1>20. CASE Stop
  <2>1. step' = "idle" /\ UNCHANGED <<stage, rec, own>>
    BY <1>20 DEF Stop
  <2>2. OnlyOurs' /\ OthersPrograms' /\ Installed'
    BY <1>0, <2>1 DEF OnlyOurs, OthersPrograms, Copying, Installed
  <2>3. QED
    BY <2>2 DEF OursInv
<1>21. CASE TreesGrow
  <2>1. step' = "idle" /\ UNCHANGED <<stage, rec>>
    BY <1>21 DEF TreesGrow
  <2>2. PICK f \in Grows : Range(own') = Range(own) \cup {f}
    BY <1>21, Typed, PathsAre, OneMore DEF TreesGrow
  <2>3. OnlyOurs' /\ OthersPrograms' /\ Installed'
    BY <1>0, <2>1, <2>2 DEF OnlyOurs, OthersPrograms, Copying, Installed
  <2>4. QED
    BY <2>3 DEF OursInv
<1>22. CASE UNCHANGED vars
  BY <1>22 DEF vars, OursInv, OnlyOurs, OthersPrograms, Copying, Installed
<1>23. QED
  BY <1>1, <1>2, <1>3, <1>4, <1>5, <1>5a, <1>6, <1>7, <1>8, <1>8a, <1>9, <1>10, <1>10a, <1>11,
     <1>12, <1>13, <1>14, <1>15, <1>16, <1>17, <1>18, <1>19, <1>20, <1>21, <1>22 DEF Next

LEMMA InitOurs == Init => OursInv
<1> SUFFICES ASSUME Init
             PROVE  OursInv
  OBVIOUS
<1>1. Range(<<>>) = {} /\ ".coreutils" \in Records
  BY EmptySeq, FirstAndRest DEF Records
<1>2. OnlyOurs /\ OthersPrograms /\ Installed
  BY <1>1, PathsAre DEF Init, OnlyOurs, OthersPrograms, Copying, Installed
<1>3. QED
  BY <1>2 DEF OursInv

(* A file of this system's is in every stage that is made, whatever has     *)
(* replaced it in earlier ones and wherever those were stopped              *)
(* (tools/stage-overlays.sh:8-11), but for one whose copy failed in this    *)
(* make and nobody looked (Makefile:153-162), and one that went out with    *)
(* coreutils' of the make before (tools/stage-coreutils.sh:34-39).          *)
THEOREM OursThereHolds == Spec => []OursThere
<1>1. OursInv => OursThere
  BY DEF OursInv, Installed, OursThere
<1>2. QED
  BY <1>1, InitTyped, InitOurs, StepTyped, StepOurs, PTL DEF Spec

-----------------------------------------------------------------------------
(* The lists.  A file that is in no pattern but the last package's, and in  *)
(* no list of tests but this system's own, is the last package's.           *)
LEMMA LastPackage ==
  ASSUME TypeInv, OnlyOurs, NEW f \in Staged, stage[f] = Ours,
         \A p \in DOMAIN Claims : f \in Claims[p] => p = Len(Claims)
  PROVE  PackageOf(f) = Len(Claims)
<1>1. f \in Range(Own) \cup Grows \cup {Cargo, Hostile}
  BY DEF OnlyOurs, Staged, TypeInv, InHand
<1>2. ~(f \in Bin /\ f \in Listed)
  <2>1. SUFFICES ASSUME f \in Bin, f \in Listed
                 PROVE  FALSE
    OBVIOUS
  <2>2. PICK l \in (Staged \cap (DOMAIN Names \cup {Hostile})) \ OurLists : f \in Runs(l)
    BY <2>1 DEF Listed
  <2>3. l # Hostile /\ l \in (DOMAIN Names) \ OurLists /\ f \in Names[l]
    BY <2>2, StagingAssumption DEF Runs
  <2>4. f \notin {Cargo, Hostile}
    BY <2>1, StagingAssumption
  <2>5. QED
    BY <1>1, <2>3, <2>4, ListsAssumption
<1>3. Len(Claims) \in DOMAIN Claims /\ f \in Claims[Len(Claims)] /\ Len(Claims) \in Nat
  <2>1. Claims \in Seq(SUBSET Files) /\ Claims # <<>> /\ Claims[Len(Claims)] = Files
    BY StagingAssumption DEF Last
  <2>2. Len(Claims) \in DOMAIN Claims /\ Len(Claims) \in Nat
    BY <2>1, EmptySeq, LenProperties
  <2>3. QED
    BY <2>1, <2>2 DEF Staged
<1>4. {p \in DOMAIN Claims : Claimed(p, f)} = {Len(Claims)}
  BY <1>2, <1>3 DEF Claimed
<1>5. Min({Len(Claims)}) = Len(Claims)
  BY <1>3 DEF Min
<1>6. QED
  BY <1>4, <1>5 DEF PackageOf

LEMMA StepLists == TypeInv /\ OursInv /\ ListsDescribe /\ [Next]_vars => ListsDescribe'
<1> SUFFICES ASSUME TypeInv, OursInv, ListsDescribe, [Next]_vars
             PROVE  ListsDescribe'
  OBVIOUS
<1>1. CASE WritePackages
  <2>1. /\ lists' = [f \in Staged |-> PackageOf(f)] /\ stage' = stage
    BY <1>1 DEF WritePackages
  <2>2. Staged' = Staged
    BY <2>1 DEF Staged
  <2>3. ASSUME NEW f \in Staged, stage[f] = Ours,
               \A p \in DOMAIN Claims : f \in Claims[p] => p = Len(Claims)
        PROVE  lists'[f] = Len(Claims)
    BY <2>1, <2>3, LastPackage DEF OursInv
  <2>4. DOMAIN lists' = Staged
    BY <2>1
  <2>5. QED
    BY <2>1, <2>2, <2>3, <2>4 DEF ListsDescribe
<1>2. CASE UNCHANGED vars
  BY <1>2 DEF vars, ListsDescribe, Staged
<1>3. CASE Next /\ ~WritePackages
  <2>1. step' # "done"
    <3>1. CASE Make \/ StepDone \/ RemoveFile \/ RemoveRecord \/ Install \/ InstallFails
      BY <3>1, ThenIs DEF Make, StepDone, Enter, RemoveFile, RemoveRecord, Install, InstallFails,
                          Forgetting
    <3>2. CASE Keep \/ Copy \/ CopyFails \/ WriteDown \/ WriteDownFails \/ NextSource
      BY <3>2 DEF Keep, Copy, CopyFails, WriteDown, WriteDownFails, NextSource, Copying
    <3>3. CASE MoveAs \/ MoveAsFails \/ WriteDownAs \/ PutAsBack \/ AsDone \/ CargoConfig
      BY <3>3, ThenIs DEF MoveAs, MoveAsFails, WriteDownAs, PutAsBack, AsDone, CargoConfig
    <3>4. CASE ClearCaches \/ WriteCache \/ WriteDownCaches \/ NoCaches \/ WriteHostile
      BY <3>4, ThenIs DEF ClearCaches, WriteCache, WriteDownCaches, NoCaches, WriteHostile
    <3>5. CASE Stop \/ TreesGrow
      BY <3>5 DEF Stop, TreesGrow
    <3>6. QED
      BY <1>3, <3>1, <3>2, <3>3, <3>4, <3>5 DEF Next
  <2>2. QED
    BY <2>1 DEF ListsDescribe
<1>4. QED
  BY <1>1, <1>2, <1>3

(* The lists describe the stage they are in, and no list of tests takes a   *)
(* program of this system's from the last package                           *)
(* (tools/stage-packages.py:83-89).                                         *)
THEOREM ListsDescribeHolds == Spec => []ListsDescribe
<1>1. Init => ListsDescribe
  BY DEF Init, ListsDescribe
<1>2. QED
  BY <1>1, InitTyped, InitOurs, StepTyped, StepOurs, StepLists, PTL DEF Spec

-----------------------------------------------------------------------------
(* What a stage is made of, source by source.                               *)
Base(f) == IF f \in Range(own) THEN Ours ELSE None
UpTo(k, f, s) ==
  \/ \E i \in 1..k : /\ Copies(asked, i, f) /\ s = Order[i]
                     /\ \A j \in (i + 1)..k : ~Copies(asked, j, f)
  \/ (\A i \in 1..k : ~Copies(asked, i, f)) /\ s = Base(f)
Past == Len(Order) - Len(queue)
Known == Files \ (stray \cup missed \cup {Cargo, Hostile})
KnownAs == Known \ (IF AsBin \in missed THEN {AsTarget} ELSE {})
Copied(f) == CopiedFrom(asked, f)
Moved == WithToolchain /\ Copied(AsBin) # Ours
AfterAs(f) ==
  IF Moved /\ f = AsBin THEN Ours
  ELSE IF Moved /\ f = AsTarget THEN Copied(AsBin)
  ELSE Copied(f)
FromNothingIn(S) == \A f \in Files \ S : stage[f] = FromNothing(asked)[f]

Emptied ==
  /\ step = "forget" =>
       \A r \in Records \ {".coreutils"} : r \in Range(queue) \/ rec[r] = <<>>
  /\ step \in {"install", "coreutils"} => \A r \in Records \ {".coreutils"} : rec[r] = <<>>
  /\ step = "coreutils" /\ queue = <<>> => rec[".coreutils"] = <<>>
Missing ==
  step \in {"forget", "install", "coreutils"} \/ (Copying /\ Head(queue) = "coreutils")
    => missed \cap Range(Twin) = {}
CopiedSoFar ==
  step = "copy" => \A f \in Known :
     \/ queue = <<>> /\ UpTo(Past, f, stage[f])
     \/ queue # <<>> /\ UpTo(Past + 1, f, stage[f])
     \/ queue # <<>> /\ f \in Range(todo) /\ UpTo(Past, f, stage[f])
AsMoved ==
  step = "as" =>
    \/ queue = <<>> /\ fresh = {} /\ \A f \in Known : stage[f] = Copied(f)
    \/ /\ WithToolchain /\ (queue = <<>> => stage[AsBin] = Ours)
       /\ AsBin \notin missed => Moved
       /\ \A f \in KnownAs \ {AsBin} : stage[f] = AfterAs(f)
Finished ==
  /\ step \in {"cargo", "caches"} /\ queue = <<>> => \A f \in KnownAs : stage[f] = AfterAs(f)
  /\ step = "caches" /\ queue # <<>> =>
       /\ \A f \in KnownAs \ Range(Caches) : stage[f] = AfterAs(f)
       /\ \A f \in Range(Caches) : f \in Range(todo) \/ stage[f] = "cache"
  /\ step = "caches" => stage[Cargo] = IF WithToolchain THEN Ours ELSE None
  /\ step = "hostile" => FromNothingIn(Touched \cup {Hostile})
  /\ step \in {"packages", "done"} => FromNothingIn(Touched)
FromInv == Emptied /\ Missing /\ CopiedSoFar /\ AsMoved /\ Finished

(* One more source: it has the file, or it has not and all is as before.    *)
LEMMA OneSourceMore ==
  ASSUME NEW k \in Nat, NEW f, NEW s, NEW to
  PROVE  /\ ~Copies(asked, k + 1, f) /\ UpTo(k, f, s) => UpTo(k + 1, f, s)
         /\ Copies(asked, k + 1, f) => UpTo(k + 1, f, Order[k + 1])
         /\ UpTo(0, f, s) <=> s = Base(f)
<1>1. /\ \A i \in 1..(k + 1) : i = k + 1 \/ i \in 1..k
      /\ \A i \in 1..k : i \in 1..(k + 1)
      /\ \A i \in Nat : \A j \in (i + 1)..(k + 1) : j = k + 1 \/ j \in (i + 1)..k
      /\ k + 1 \in 1..(k + 1) /\ (k + 2)..(k + 1) = {} /\ 1..0 = {}
      /\ \A i \in 1..k : i \in Nat
  OBVIOUS
<1> DEFINE C(i) == Copies(asked, i, f)
<1>2. \A m, t : UpTo(m, f, t) <=>
        \/ \E i \in 1..m : C(i) /\ t = Order[i] /\ \A j \in (i + 1)..m : ~C(j)
        \/ (\A i \in 1..m : ~C(i)) /\ t = Base(f)
  BY DEF UpTo
<1> HIDE DEF C
<1>3. ASSUME ~C(k + 1), UpTo(k, f, s)
      PROVE  UpTo(k + 1, f, s)
  <2>1. CASE \E i \in 1..k : C(i) /\ s = Order[i] /\ \A j \in (i + 1)..k : ~C(j)
    <3>1. PICK i \in 1..k : C(i) /\ s = Order[i] /\ \A j \in (i + 1)..k : ~C(j)
      BY <2>1
    <3>2. \A j \in (i + 1)..(k + 1) : ~C(j)
      BY <1>1, <1>3, <3>1
    <3>3. QED
      BY <1>1, <1>2, <3>1, <3>2
  <2>2. CASE (\A i \in 1..k : ~C(i)) /\ s = Base(f)
    BY <1>1, <1>2, <1>3, <2>2
  <2>3. QED
    BY <1>2, <1>3, <2>1, <2>2
<1>4. C(k + 1) => UpTo(k + 1, f, Order[k + 1])
  <2>1. \A j \in (k + 1 + 1)..(k + 1) : ~C(j)
    BY <1>1
  <2>2. QED
    BY <1>1, <1>2, <2>1
<1>5. UpTo(0, f, s) <=> s = Base(f)
  BY <1>1, <1>2
<1>6. QED
  BY <1>3, <1>4, <1>5 DEF C

(* After the last of them a file is the one that copying leaves.            *)
LEMMA AllSources ==
  ASSUME NEW f, NEW s, UpTo(Len(Order), f, s)
  PROVE  s = Copied(f)
<1> DEFINE having == {i \in DOMAIN Order : Copies(asked, i, f)}
<1>1. Len(Order) \in Nat /\ DOMAIN Order = 1..Len(Order)
  BY OrderIs
<1>2. Copied(f) = IF having # {} THEN Order[Max(having)]
                 ELSE IF f \in Range(own) THEN Ours ELSE None
  BY DEF Copied, CopiedFrom
<1>3. CASE \E i \in 1..Len(Order) : /\ Copies(asked, i, f) /\ s = Order[i]
                                    /\ \A j \in (i + 1)..Len(Order) : ~Copies(asked, j, f)
  <2>1. PICK i \in 1..Len(Order) : /\ Copies(asked, i, f) /\ s = Order[i]
                                   /\ \A j \in (i + 1)..Len(Order) : ~Copies(asked, j, f)
    BY <1>3
  <2>2. i \in having /\ \A j \in having : j \in 1..Len(Order) /\ j \notin (i + 1)..Len(Order)
    BY <1>1, <2>1
  <2>3. \A j \in having : j \in Nat /\ i >= j
    BY <1>1, <2>2
  <2> HIDE DEF having
  <2>4. \A x \in having : (\A y \in having : x >= y) <=> x = i
    BY <2>2, <2>3
  <2>5. Max(having) = i
    <3>1. i \in having /\ \A y \in having : i >= y
      BY <2>2, <2>4
    <3> DEFINE m == CHOOSE x \in having : \A y \in having : x >= y
    <3>2. m \in having /\ \A y \in having : m >= y
      BY <3>1
    <3>3. m = i
      BY <2>4, <3>2
    <3>4. QED
      BY <3>3 DEF Max
  <2>6. QED
    BY <1>2, <2>1, <2>2, <2>5
<1>4. CASE (\A i \in 1..Len(Order) : ~Copies(asked, i, f)) /\ s = Base(f)
  <2>1. having = {}
    BY <1>1, <1>4
  <2>2. QED
    BY <1>2, <1>4, <2>1 DEF Base
<1>5. QED
  BY <1>3, <1>4 DEF UpTo

(* All of it depends on nothing but the variables asked for and the trees.  *)
LEMMA SameSources ==
  ASSUME asked' = asked, own' = own
  PROVE  /\ \A f : Copied(f)' = Copied(f)
         /\ \A f : AfterAs(f)' = AfterAs(f)
         /\ Moved' = Moved /\ WithToolchain' = WithToolchain
         /\ \A f : FromNothing(asked)'[f] = FromNothing(asked)[f]
<1>1. \A f : Copied(f)' = Copied(f)
  BY DEF Copied, CopiedFrom, Copies
<1>2. Moved' = Moved /\ WithToolchain' = WithToolchain
  BY <1>1 DEF Moved, WithToolchain
<1>3. \A f : AfterAs(f)' = AfterAs(f)
  BY <1>1, <1>2 DEF AfterAs
<1>4. FromNothing(asked)' = FromNothing(asked)
  BY DEF FromNothing, CopiedFrom, Copies
<1>5. QED
  BY <1>1, <1>2, <1>3, <1>4

LEMMA StepEmptied == TypeInv /\ Emptied /\ [Next]_vars => Emptied'
<1> SUFFICES ASSUME TypeInv, Emptied, [Next]_vars
             PROVE  Emptied'
  OBVIOUS
<1> DEFINE three == <<".clients", ".suites", ".overlays">>
<1>1. CASE Make
  <2>1. step' = "forget" /\ queue' = three
    BY <1>1, ListsAre DEF Make, Enter
  <2>2. three \in Seq(Records) /\ \A r \in Records \ {".coreutils"} : r \in Range(three)
    <3>1. three[1] = ".clients" /\ three[2] = ".suites" /\ three[3] = ".overlays"
      OBVIOUS
    <3>2. three \in Seq(Records) /\ Len(three) = 3
      BY DEF Records
    <3>3. Range(three) = {three[k] : k \in 1..3}
      BY <3>2, RangeEquality
    <3>4. 1 \in 1..3 /\ 2 \in 1..3 /\ 3 \in 1..3
      OBVIOUS
    <3>5. QED
      BY <3>1, <3>2, <3>3, <3>4 DEF Records
  <2>3. QED
    BY <2>1, <2>2 DEF Emptied
<1>2. CASE StepDone
  <2>1. /\ step' = Then(step) /\ queue' = QueueOf(Then(step)) /\ rec' = rec /\ queue = <<>>
        /\ step \in {"forget", "install", "coreutils", "copy"}
    BY <1>2 DEF StepDone, Enter
  <2>2. Range(queue) = {}
    BY <2>1, OwnIs
  <2>3. step = "forget" => \A r \in Records \ {".coreutils"} : rec[r] = <<>>
    BY <2>2 DEF Emptied
  <2>4. step' \in {"install", "coreutils", "copy", "as"} /\ (step' = "install" => step = "forget")
        /\ (step' = "coreutils" => step = "install" /\ queue' # <<>>)
    BY <2>1, ThenIs, ListsAre
  <2>5. QED
    BY <2>1, <2>3, <2>4 DEF Emptied
<1>3. CASE RemoveRecord
  <2>1. /\ Forgetting /\ queue' = Tail(queue) /\ step' = step
        /\ \A r \in Records : rec'[r] = IF r = Head(queue) THEN <<>> ELSE rec[r]
    BY <1>3, Typed DEF RemoveRecord, NextList
  <2>2. /\ Range(queue) = {Head(queue)} \cup Range(queue')
        /\ step = "coreutils" => Head(queue) = ".coreutils"
        /\ step \in {"forget", "coreutils"} /\ ".coreutils" \in Records
    BY <2>1, RecordsGo DEF Forgetting, Records
  <2>3. QED
    BY <2>1, <2>2 DEF Emptied
<1>4. CASE RemoveFile \/ Install \/ InstallFails
  <2>1. /\ step' = step /\ rec' = rec
        /\ queue' = queue \/ step = "install"
    BY <1>4 DEF RemoveFile, Install, InstallFails
  <2>2. QED
    BY <2>1 DEF Emptied
<1>5. CASE Keep \/ Copy \/ CopyFails \/ WriteDown \/ WriteDownFails \/ NextSource
  BY <1>5 DEF Keep, Copy, CopyFails, WriteDown, WriteDownFails, NextSource, Copying, Emptied
<1>6. CASE MoveAs \/ MoveAsFails \/ WriteDownAs \/ PutAsBack \/ AsDone \/ CargoConfig
  BY <1>6, ThenIs DEF MoveAs, MoveAsFails, WriteDownAs, PutAsBack, AsDone, CargoConfig, Emptied
<1>7. CASE ClearCaches \/ WriteCache \/ WriteDownCaches \/ NoCaches \/ WriteHostile
  BY <1>7, ThenIs DEF ClearCaches, WriteCache, WriteDownCaches, NoCaches, WriteHostile, Emptied
<1>8. CASE WritePackages \/ Stop \/ TreesGrow
  BY <1>8, ThenIs DEF WritePackages, Stop, TreesGrow, Emptied
<1>9. CASE UNCHANGED vars
  BY <1>9 DEF vars, Emptied
<1>10. QED
  BY <1>1, <1>2, <1>3, <1>4, <1>5, <1>6, <1>7, <1>8, <1>9 DEF Next

(* Nothing that has a name for FAT is passed over before coreutils' turn is *)
(* over.                                                                    *)
LEMMA StepMissing == TypeInv /\ OursInv /\ Missing /\ [Next]_vars => Missing'
<1> SUFFICES ASSUME TypeInv, OursInv, Missing, [Next]_vars
             PROVE  Missing'
  OBVIOUS
<1>1. CASE Make
  BY <1>1 DEF Make, Enter, Missing, Copying
<1>2. CASE StepDone
  <2>1. /\ step' = Then(step) /\ step \in {"forget", "install", "coreutils", "copy"}
        /\ missed' = missed
    BY <1>2 DEF StepDone, Enter
  <2>2. QED
    BY <2>1, ThenIs DEF Missing, Copying
<1>3. CASE RemoveFile
  <2>1. /\ step \in {"forget", "coreutils"} /\ step' = step /\ Head(todo) \in Range(todo)
        /\ missed' \subseteq missed \cup (IF step = "coreutils" THEN {Head(todo)} ELSE {})
    BY <1>3, Typed, WhoseRecord DEF RemoveFile, Forgetting
  <2>2. step = "coreutils" => Head(todo) \notin Range(Twin)
    BY <2>1, TwinAssumption DEF OursInv, OthersPrograms
  <2>3. QED
    BY <2>1, <2>2 DEF Missing, Copying
<1>4. CASE RemoveRecord \/ Install
  BY <1>4 DEF RemoveRecord, Install, Forgetting, Missing, Copying
<1>5. CASE InstallFails
  BY <1>5, TwinAssumption DEF InstallFails, Missing, Copying
<1>6. CASE Keep
  <2>1. /\ Copying /\ Copying' /\ queue' = queue /\ Head(queue) = "coreutils"
        /\ Head(todo) \in Range(Given[Head(queue)]) /\ missed' \subseteq missed \cup {Head(todo)}
    BY <1>6, Typed DEF Keep, Kept, Copying, TypeInv, InHand
  <2>2. Head(todo) \notin Range(Twin)
    BY <2>1, TwinAssumption
  <2>3. QED
    BY <2>1, <2>2 DEF Missing
<1>7. CASE CopyFails
  BY <1>7 DEF CopyFails, Copying, PassedOver, Missing
<1>8. CASE Copy \/ WriteDown
  BY <1>8 DEF Copy, WriteDown, Missing, Copying
<1>9. CASE WriteDownFails
  BY <1>9 DEF WriteDownFails, Copying, PassedOver, Missing
<1>10. CASE NextSource
  <2>1. Copying /\ queue' = Tail(queue) /\ step' = "copy"
    BY <1>10 DEF NextSource, NextList, Copying
  <2>2. queue' # <<>> => Head(queue') # "coreutils"
    <3>1. PICK i \in 1..Len(Order) :
             /\ i = Len(Order) => Tail(queue) = <<>>
             /\ i < Len(Order) => Head(Tail(queue)) = Order[i + 1]
      BY <2>1, SourcesGo
    <3>2. i < Len(Order) => i + 1 \in 2..Len(Order)
      BY OrderIs
    <3>3. i < Len(Order) => Order[i + 1] # "coreutils"
      BY <3>2, OrderIs, StagingAssumption
    <3>4. QED
      BY <2>1, <3>1, <3>3, OrderIs
  <2>3. QED
    BY <2>1, <2>2 DEF Missing, Copying
<1>11. CASE MoveAs \/ MoveAsFails \/ WriteDownAs \/ PutAsBack \/ AsDone \/ CargoConfig
  BY <1>11, ThenIs DEF MoveAs, MoveAsFails, WriteDownAs, PutAsBack, AsDone, CargoConfig,
                       Missing, Copying
<1>12. CASE ClearCaches \/ WriteCache \/ WriteDownCaches \/ NoCaches \/ WriteHostile
  BY <1>12, ThenIs DEF ClearCaches, WriteCache, WriteDownCaches, NoCaches, WriteHostile,
                       Missing, Copying
<1>13. CASE WritePackages \/ Stop \/ TreesGrow
  BY <1>13, ThenIs DEF WritePackages, Stop, TreesGrow, Missing, Copying
<1>14. CASE UNCHANGED vars
  BY <1>14 DEF vars, Missing, Copying
<1>15. QED
  BY <1>1, <1>2, <1>3, <1>4, <1>5, <1>6, <1>7, <1>8, <1>9, <1>10, <1>11, <1>12, <1>13, <1>14
     DEF Next

(* The copies.  What has been copied is told by the sources gone through.   *)
LEMMA CopiedThen ==
  ASSUME asked' = asked, own' = own, step' = "copy",
         \A f \in Known' :
           \/ queue' = <<>> /\ UpTo(Len(Order) - Len(queue'), f, stage'[f])
           \/ queue' # <<>> /\ UpTo(Len(Order) - Len(queue') + 1, f, stage'[f])
           \/ /\ queue' # <<>> /\ f \in Range(todo')
              /\ UpTo(Len(Order) - Len(queue'), f, stage'[f])
  PROVE  CopiedSoFar'
BY ZenonT(30) DEF CopiedSoFar, Past, UpTo, Copies, Base

(* A stage the installs have just been over has nothing but this system's   *)
(* files, and what a make that was stopped had in hand.                     *)
LEMMA OnlyInstalled ==
  ASSUME TypeInv, WrittenInv, OursInv, Emptied, step = "coreutils", queue = <<>>,
         NEW f \in Files \ (stray \cup missed \cup {Cargo, Hostile})
  PROVE  stage[f] = Base(f)
<1>1. fresh = {} /\ stage[f] \in Sources \cup {None, Ours, "cache"} /\ f \in Files
      /\ f \notin stray \cup missed
  BY Typed DEF TypeInv, TypeOK
<1>2. \A r \in Records : Range(rec[r]) = {}
  BY OwnIs DEF Emptied, Records
<1>3. stage[f] \notin Sources \cup {"cache"}
  BY <1>1, <1>2, WrittenIs DEF WrittenInv
<1>4. CASE f \in Range(own)
  BY <1>4 DEF OursInv, Installed, Base
<1>5. CASE f \notin Range(own)
  BY <1>1, <1>3, <1>5 DEF OursInv, OnlyOurs, Base
<1>6. QED
  BY <1>4, <1>5

LEMMA StepCopied ==
  TypeInv /\ WrittenInv /\ OursInv /\ Emptied /\ Missing /\ CopiedSoFar /\ [Next]_vars
    => CopiedSoFar'
<1> SUFFICES ASSUME TypeInv, WrittenInv, OursInv, Emptied, Missing, CopiedSoFar, [Next]_vars,
                    step' = "copy"
             PROVE  CopiedSoFar'
  BY DEF CopiedSoFar
<1>1. CASE StepDone
  <2>1. /\ step \in {"forget", "install", "coreutils", "copy"} /\ step' = Then(step)
        /\ queue' = QueueOf("copy") /\ todo' = Lines(QueueOf("copy")) /\ queue = <<>>
        /\ UNCHANGED <<stage, own, asked, stray, missed>>
    BY <1>1 DEF StepDone, Enter
  <2>2. step = "coreutils"
    BY <2>1, ThenIs
  <2>3. /\ queue' = Order /\ queue' # <<>> /\ Head(queue') = "coreutils"
        /\ Len(Order) - Len(queue') = 0
    BY <2>1, ListsAre, RestIs, OrderIs, StagingAssumption
  <2>4. todo' = IF VariableOf("coreutils") \in asked THEN Given["coreutils"] ELSE <<>>
    <3>1. "coreutils" \in Sources /\ Order # <<>> /\ Head(Order) = "coreutils"
      BY <2>3, OrderIs, StagingAssumption
    <3>2. QED
      BY <2>1, <3>1, ListsAre, LinesAre
  <2>5. ASSUME NEW f \in Known'
        PROVE  UpTo(0 + 1, f, stage[f]) \/ (f \in Range(todo') /\ UpTo(0, f, stage[f]))
    <3>1. f \in Files \ (stray \cup missed \cup {Cargo, Hostile})
      BY <2>1, <2>5 DEF Known
    <3>2. UpTo(0, f, stage[f])
      BY <2>1, <2>2, <3>1, OnlyInstalled, OneSourceMore
    <3>3. f \notin Range(todo') => ~Copies(asked, 0 + 1, f)
      BY <2>4, OrderIs DEF Copies
    <3>4. QED
      BY <3>2, <3>3, OneSourceMore
  <2>6. QED
    BY <1>1, <2>1, <2>3, <2>5, CopiedThen
<1>2. CASE step = "copy" /\ (Keep \/ Copy \/ CopyFails \/ WriteDown \/ WriteDownFails)
  <2>1. PICK k \in Nat : /\ Copying /\ k = Len(Order) - Len(queue) /\ Head(queue) = Order[k + 1]
                         /\ Head(queue) \in Sources /\ (Head(queue) = "coreutils" => k = 0)
    <3>1. Copying
      BY <1>2 DEF Keep, Copy, CopyFails, WriteDown, WriteDownFails
    <3>2. PICK i \in 1..Len(Order) : Head(queue) = Order[i] /\ i - 1 = Len(Order) - Len(queue)
                                     /\ Order[i] \in Sources
      BY <3>1, SourcesGo
    <3>3. i - 1 \in Nat /\ i = (i - 1) + 1 /\ (i = 1 \/ i \in 2..Len(Order))
      BY OrderIs
    <3>4. Order[i] = "coreutils" => i = 1
      BY <3>3, OrderIs, StagingAssumption
    <3> DEFINE k == i - 1
    <3>5. k \in Nat /\ i = k + 1 /\ (Order[i] = "coreutils" => k = 0)
      BY <3>3, <3>4
    <3> HIDE DEF k
    <3>6. k = Len(Order) - Len(queue)
      BY <3>2 DEF k
    <3>7. QED
      BY <3>1, <3>2, <3>5, <3>6
  <2>2. /\ queue # <<>> /\ step = "copy" /\ UNCHANGED <<own, asked, queue>>
    BY <1>2 DEF Keep, Copy, CopyFails, WriteDown, WriteDownFails, Copying
  <2>3. \A f \in Known : UpTo(k + 1, f, stage[f]) \/ (f \in Range(todo) /\ UpTo(k, f, stage[f]))
    BY <2>1, <2>2 DEF CopiedSoFar, Past
  <2>4. ASSUME \A f \in Known' : UpTo(k + 1, f, stage'[f])
                                 \/ (f \in Range(todo') /\ UpTo(k, f, stage'[f]))
        PROVE  CopiedSoFar'
    BY <2>1, <2>2, <2>4, CopiedThen
  <2>5. ASSUME todo # <<>>
        PROVE  /\ Head(todo) \in Files /\ Head(todo) \in Range(Given[Head(queue)])
               /\ Range(todo) = {Head(todo)} \cup Range(Tail(todo))
               /\ VariableOf(Head(queue)) \in asked
    BY <2>1, <2>5, Typed DEF TypeInv, InHand
  <2>6. CASE Keep
    <3>1. /\ todo # <<>> /\ Head(queue) = "coreutils" /\ k = 0 /\ todo' = Tail(todo)
          /\ stage[Head(todo)] # None \/ stage[Twin[Head(todo)]] # None
          /\ missed' = IF stage[Head(todo)] = None /\ Twin[Head(todo)] \in stray
                       THEN missed \cup {Head(todo)} ELSE missed
          /\ UNCHANGED <<stage, stray>>
      BY <2>1, <2>6 DEF Keep, Kept
    <3>2. SUFFICES ASSUME Head(todo) \in Known', UpTo(k, Head(todo), stage[Head(todo)])
                   PROVE  UpTo(k + 1, Head(todo), stage[Head(todo)])
      BY <2>3, <2>4, <2>5, <3>1 DEF Known
    <3> DEFINE f == Head(todo)
               t == Twin[f]
    <3>3. f \in Range(Given["coreutils"]) /\ t \in Range(Twin) /\ t \in Files
          /\ t \notin Range(Given["coreutils"]) /\ t \notin {Cargo, Hostile}
      <4>1. f \in DOMAIN Twin
        BY <2>5, <3>1, TwinAssumption
      <4>2. t \in Range(Twin)
        BY <4>1 DEF Range
      <4>3. QED
        BY <2>5, <3>1, <4>2, TwinAssumption, StagingAssumption, PathsAre
    <3>4. stage[f] = Base(f)
      BY <3>1, <3>2, OneSourceMore
    <3>5. ~Copies(asked, k + 1, f)
      <4>1. SUFFICES ASSUME f \notin Range(own), t \notin Range(own)
                     PROVE  FALSE
        BY <2>1, <3>1 DEF Copies
      <4>2. stage[f] = None /\ stage[t] # None
        BY <3>1, <3>4, <4>1 DEF Base
      <4>3. t \notin stray /\ t \notin missed
        BY <2>1, <3>1, <3>2, <3>3, <4>2 DEF Known, Missing
      <4>4. t \in Known /\ t \notin Range(todo)
        BY <2>1, <3>1, <3>3, <4>3 DEF Known, TypeInv, InHand
      <4>5. UpTo(k + 1, t, stage[t])
        BY <2>3, <4>4
      <4>6. ~Copies(asked, 1, t)
        BY <3>3, OrderIs DEF Copies
      <4>7. stage[t] = Base(t)
        <5>1. \A i \in 1..1 : i = 1
          OBVIOUS
        <5>2. UpTo(1, t, stage[t])
          BY <3>1, <4>5
        <5>3. QED
          BY <4>6, <5>1, <5>2 DEF UpTo
      <4>8. QED
        BY <4>1, <4>2, <4>7 DEF Base
    <3>6. QED
      BY <3>2, <3>5, OneSourceMore
  <2>7. CASE Copy
    <3>1. /\ todo # <<>> /\ ~Kept(Head(queue), Head(todo)) /\ todo' = Tail(todo)
          /\ stray' = stray \ {Head(todo)} /\ missed' = missed
      BY <2>7 DEF Copy
    <3>2. \A f \in Files : stage'[f] = IF f = Head(todo) THEN Head(queue) ELSE stage[f]
      BY <2>7, Typed DEF Copy
    <3>3. Head(todo) \notin missed => Copies(asked, k + 1, Head(todo))
      <4>1. CASE Head(queue) # "coreutils"
        BY <2>1, <2>5, <3>1, <4>1 DEF Copies
      <4>2. CASE Head(queue) = "coreutils" /\ Head(todo) \notin missed
        <5>1. stage[Head(todo)] = None /\ stage[Twin[Head(todo)]] = None
          BY <3>1, <4>2 DEF Kept
        <5>2. Twin[Head(todo)] \notin missed
          <6>1. Head(todo) \in DOMAIN Twin
            BY <2>5, <3>1, <4>2, TwinAssumption
          <6>2. Twin[Head(todo)] \in Range(Twin)
            BY <6>1 DEF Range
          <6>3. QED
            BY <2>1, <4>2, <6>2 DEF Missing
        <5>3. {Head(todo), Twin[Head(todo)]} \cap Range(own) = {}
          BY <2>2, <4>2, <5>1, <5>2 DEF OursInv, Installed
        <5>4. QED
          BY <2>1, <2>5, <3>1, <5>3 DEF Copies
      <4>3. QED
        BY <4>1, <4>2
    <3>4. Head(todo) \notin missed => UpTo(k + 1, Head(todo), stage'[Head(todo)])
      BY <2>1, <2>5, <3>1, <3>2, <3>3, OneSourceMore
    <3>5. ASSUME NEW f \in Known', f # Head(todo)
          PROVE  f \in Known /\ stage'[f] = stage[f] /\ (f \in Range(todo) => f \in Range(todo'))
      BY <2>5, <3>1, <3>2, <3>5 DEF Known
    <3>6. Head(todo) \in Known' => Head(todo) \notin missed
      BY <3>1 DEF Known
    <3>7. QED
      BY <2>3, <2>4, <3>4, <3>5, <3>6
  <2>8. CASE CopyFails
    <3>1. /\ todo # <<>> /\ todo' = Tail(todo) /\ missed' = missed \cup {Head(todo)}
          /\ stray' = stray
      BY <2>8 DEF CopyFails
    <3>2. \A f \in Files : f # Head(todo) => stage'[f] = stage[f]
      BY <2>8, Typed DEF CopyFails
    <3>3. \A f \in Known' : /\ f \in Known /\ stage'[f] = stage[f]
                            /\ f \in Range(todo) => f \in Range(todo')
      BY <2>5, <3>1, <3>2 DEF Known
    <3>4. QED
      BY <2>3, <2>4, <3>3
  <2>9. CASE WriteDown
    <3>1. UNCHANGED <<stage, todo, stray, missed>>
      BY <2>9 DEF WriteDown
    <3>2. QED
      BY <2>3, <2>4, <3>1 DEF Known
  <2>10. CASE WriteDownFails
    <3>1. /\ UNCHANGED <<stage, todo>>
          /\ stray' = stray \cup fresh /\ missed' = missed \cup fresh
      BY <2>10 DEF WriteDownFails
    <3>2. \A f \in Known' : f \in Known
      BY <3>1 DEF Known
    <3>3. QED
      BY <2>3, <2>4, <3>1, <3>2
  <2>11. QED
    BY <1>2, <2>6, <2>7, <2>8, <2>9, <2>10
<1>3. CASE NextSource
  <2>1. /\ Copying /\ queue' = Tail(queue) /\ todo' = Lines(Tail(queue)) /\ todo = <<>>
        /\ queue # <<>> /\ step = "copy" /\ Range(todo) = {}
        /\ UNCHANGED <<stage, own, asked, stray, missed>>
    BY <1>3, Typed DEF NextSource, NextList, Copying
  <2>2. PICK i \in 1..Len(Order) :
          /\ i - 1 = Len(Order) - Len(queue) /\ i - 1 = Len(Order) - Len(Tail(queue)) - 1
          /\ i = Len(Order) => Tail(queue) = <<>>
          /\ i < Len(Order) =>
               /\ Tail(queue) # <<>>
               /\ Lines(Tail(queue)) = IF VariableOf(Order[i + 1]) \in asked
                                      THEN Given[Order[i + 1]] ELSE <<>>
    BY <2>1, SourcesGo
  <2>3. /\ i \in Nat
        /\ i < Len(Order) \/ i = Len(Order)
        /\ i = Len(Order) - Len(queue) + 1
    BY <2>2, OrderIs
  <2>4. i = Len(Order) - Len(queue')
    <3>1. PICK j \in 1..Len(Order) : Tail(queue) = Rest(j + 1) /\ j + 1 \in 1..(Len(Order) + 1)
      BY <2>1, SourcesGo
    <3>2. Len(Tail(queue)) \in Int /\ Len(Order) \in Nat
      BY <3>1, RestIs, OrderIs
    <3>3. QED
      BY <2>1, <2>2, <3>2
  <2>5. \A f \in Known : UpTo(i, f, stage[f])
    BY <2>1, <2>3 DEF CopiedSoFar, Past
  <2>6. ASSUME NEW f \in Known', i < Len(Order), f \notin Range(todo')
        PROVE  UpTo(i + 1, f, stage[f])
    <3>1. ~Copies(asked, i + 1, f)
      BY <2>1, <2>2, <2>6 DEF Copies
    <3>2. f \in Known
      BY <2>1, <2>6 DEF Known
    <3>3. QED
      BY <2>3, <2>5, <3>1, <3>2, OneSourceMore
  <2>7. \A f \in Known' : f \in Known
    BY <2>1 DEF Known
  <2>8. QED
    BY <2>1, <2>2, <2>3, <2>4, <2>5, <2>6, <2>7, CopiedThen
<1>4. CASE UNCHANGED vars
  <2>1. UNCHANGED <<stage, own, asked, step, queue, todo, stray, missed>>
    BY <1>4 DEF vars
  <2>2. step = "copy" /\ Known' = Known
    BY <2>1 DEF Known
  <2>3. QED
    BY <2>1, <2>2, CopiedThen DEF CopiedSoFar, Past
<1>5. CASE Make \/ RemoveFile \/ RemoveRecord \/ Install \/ InstallFails
  BY <1>5 DEF Make, Enter, RemoveFile, RemoveRecord, Install, InstallFails, Forgetting
<1>6. CASE MoveAs \/ MoveAsFails \/ WriteDownAs \/ PutAsBack \/ AsDone \/ CargoConfig
  BY <1>6, ThenIs DEF MoveAs, MoveAsFails, WriteDownAs, PutAsBack, AsDone, CargoConfig
<1>7. CASE ClearCaches \/ WriteCache \/ WriteDownCaches \/ NoCaches \/ WriteHostile
  BY <1>7, ThenIs DEF ClearCaches, WriteCache, WriteDownCaches, NoCaches, WriteHostile
<1>8. CASE WritePackages \/ Stop \/ TreesGrow
  BY <1>8, ThenIs DEF WritePackages, Stop, TreesGrow
<1>9. CASE step # "copy" /\ (Keep \/ Copy \/ CopyFails \/ WriteDown \/ WriteDownFails)
  BY <1>9 DEF Keep, Copy, CopyFails, WriteDown, WriteDownFails, Copying
<1>10. QED
  BY <1>1, <1>2, <1>3, <1>4, <1>5, <1>6, <1>7, <1>8, <1>9 DEF Next

(* The assembler.  Once it has been moved, its two places are other than    *)
(* the copying left them.                                                   *)
LEMMA StepAs == TypeInv /\ OursInv /\ CopiedSoFar /\ AsMoved /\ [Next]_vars => AsMoved'
<1> SUFFICES ASSUME TypeInv, OursInv, CopiedSoFar, AsMoved, [Next]_vars, step' = "as"
             PROVE  AsMoved'
  BY DEF AsMoved
<1>1. CASE StepDone
  <2>1. /\ step \in {"forget", "install", "coreutils", "copy"} /\ step' = Then(step)
        /\ queue = <<>> /\ UNCHANGED <<stage, own, asked, stray, missed, fresh>>
    BY <1>1 DEF StepDone, Enter
  <2>2. step = "copy"
    BY <2>1, ThenIs
  <2>3. fresh' = {} /\ queue' = <<>>
    BY <1>1, <2>1, <2>2, ThenIs, ListsAre DEF StepDone, Enter, TypeInv, InHand
  <2>4. ASSUME NEW f \in Known
        PROVE  stage[f] = Copied(f)
    <3>1. Past = Len(Order)
      BY <2>1, OrderIs, EmptySeq DEF Past
    <3>2. UpTo(Len(Order), f, stage[f])
      BY <2>1, <2>2, <2>4, <3>1 DEF CopiedSoFar
    <3>3. QED
      BY <3>2, AllSources
  <2>5. Known' = Known /\ \A f : Copied(f)' = Copied(f)
    BY <2>1, SameSources DEF Known
  <2>6. \A f \in Known' : stage'[f] = Copied(f)'
    BY <2>1, <2>4, <2>5
  <2>7. QED
    BY <2>3, <2>6 DEF AsMoved
<1>2. CASE MoveAs
  <2>1. /\ step = "as" /\ WithToolchain /\ stage[AsBin] \notin {Ours, None}
        /\ queue = <<>> /\ queue' # <<>>
        /\ stray' = stray \ {AsBin, AsTarget} /\ UNCHANGED <<own, asked, missed>>
    BY <1>2 DEF MoveAs, AsReplaced
  <2>2. \A f \in Files : stage'[f] = IF f = AsBin THEN None
                                  ELSE IF f = AsTarget THEN stage[AsBin] ELSE stage[f]
    BY <1>2, Typed, PathsAre, OwnIs DEF MoveAs
  <2>3. \A f \in Known : stage[f] = Copied(f)
    BY <2>1 DEF AsMoved
  <2>4. AsBin \notin missed => AsBin \in Known /\ Copied(AsBin) = stage[AsBin] /\ Moved
    <3>1. AsBin \notin {Cargo, Hostile} /\ AsBin \in Files
          /\ (AsBin \notin missed => AsBin \notin stray)
      BY <2>1, OwnIs DEF OursInv, Installed
    <3>2. AsBin \notin missed => AsBin \in Known
      BY <3>1 DEF Known
    <3>3. QED
      BY <2>1, <2>3, <3>2 DEF Moved
  <2>5. ASSUME NEW f \in KnownAs' \ {AsBin}
        PROVE  stage'[f] = AfterAs(f)
    <3>1. CASE f = AsTarget
      <4>1. AsBin \notin missed
        BY <2>1, <2>5, <3>1 DEF KnownAs
      <4>2. QED
        BY <2>2, <2>4, <3>1, <4>1, OwnIs, PathsAre DEF AfterAs
    <3>2. CASE f # AsTarget
      <4>1. f \in Known /\ f \in Files
        BY <2>1, <2>5, <3>2 DEF KnownAs, Known
      <4>2. QED
        BY <2>2, <2>3, <2>5, <3>2, <4>1 DEF AfterAs
    <3>3. QED
      BY <3>1, <3>2
  <2>6. \A f \in KnownAs' \ {AsBin} : stage'[f] = AfterAs(f)'
    BY <2>1, <2>5, SameSources
  <2>7. WithToolchain' /\ queue' # <<>> /\ (AsBin \notin missed' => Moved')
    BY <2>1, <2>4, SameSources
  <2>8. QED
    BY <2>6, <2>7 DEF AsMoved
<1>2a. CASE MoveAsFails
  <2>1. /\ step = "as" /\ WithToolchain /\ stage[AsBin] # Ours
        /\ queue = <<>> /\ queue' # <<>> /\ missed' = missed \cup {AsTarget}
        /\ UNCHANGED <<stage, stray, own, asked>>
    BY <1>2a DEF MoveAsFails, AsReplaced
  <2>2. \A f \in Known : stage[f] = Copied(f)
    BY <2>1 DEF AsMoved
  <2>3. AsBin \notin missed' => Moved
    <3>1. AsBin \notin {Cargo, Hostile} /\ AsBin \in Files
          /\ (AsBin \notin missed => AsBin \notin stray)
      BY <2>1, OwnIs DEF OursInv, Installed
    <3>2. AsBin \notin missed' => AsBin \in Known
      BY <2>1, <3>1 DEF Known
    <3>3. QED
      BY <2>1, <2>2, <3>2 DEF Moved
  <2>4. ASSUME NEW f \in KnownAs' \ {AsBin}
        PROVE  stage'[f] = AfterAs(f)
    <3>1. f \in Known /\ f # AsTarget /\ f # AsBin
      BY <2>1, <2>4 DEF KnownAs, Known
    <3>2. QED
      BY <2>1, <2>2, <3>1 DEF AfterAs
  <2>5. \A f \in KnownAs' \ {AsBin} : stage'[f] = AfterAs(f)'
    BY <2>1, <2>4, SameSources
  <2>6. WithToolchain' /\ queue' # <<>> /\ (AsBin \notin missed' => Moved')
    BY <2>1, <2>3, SameSources
  <2>7. QED
    BY <2>5, <2>6 DEF AsMoved
<1>3. CASE step = "as" /\ (WriteDownAs \/ WriteDownFails \/ PutAsBack)
  <2>1. /\ UNCHANGED <<own, asked>> /\ missed \subseteq missed'
        /\ (fresh # {} /\ queue' = queue) \/ (queue # <<>> /\ stage'[AsBin] = Ours)
        /\ stray \ {AsBin} \subseteq stray'
        /\ \A f \in Files \ {AsBin} : stage'[f] = stage[f]
        /\ fresh # {} => stage' = stage
    BY <1>3, Typed, PathsAre DEF WriteDownAs, WriteDownFails, PutAsBack
  <2>2. /\ WithToolchain /\ (queue = <<>> => stage[AsBin] = Ours)
        /\ AsBin \notin missed => Moved
        /\ \A f \in KnownAs \ {AsBin} : stage[f] = AfterAs(f)
    BY <1>3, <2>1 DEF AsMoved
  <2>3. \A f \in KnownAs' \ {AsBin} : f \in KnownAs \ {AsBin} /\ f \in Files
    BY <2>1 DEF KnownAs, Known
  <2>4. /\ \A f : AfterAs(f)' = AfterAs(f)
        /\ Moved' = Moved /\ WithToolchain' = WithToolchain
    BY <2>1, SameSources
  <2>5. \A f \in KnownAs' \ {AsBin} : stage'[f] = AfterAs(f)'
    BY <2>1, <2>2, <2>3, <2>4
  <2>6. AsBin \notin missed' => Moved'
    BY <2>1, <2>2, <2>4
  <2>7. queue' = <<>> => stage'[AsBin] = Ours
    BY <2>1, <2>2
  <2>8. QED
    BY <2>2, <2>4, <2>5, <2>6, <2>7 DEF AsMoved
<1>4. CASE UNCHANGED vars
  <2>1. UNCHANGED <<stage, own, asked, step, queue, fresh, stray, missed>>
    BY <1>4 DEF vars
  <2>2. Known' = Known /\ KnownAs' = KnownAs
    BY <2>1 DEF Known, KnownAs
  <2>3. QED
    BY <2>1, <2>2, SameSources DEF AsMoved
<1>5. CASE Make \/ RemoveFile \/ RemoveRecord \/ Install \/ InstallFails
  BY <1>5 DEF Make, Enter, RemoveFile, RemoveRecord, Install, InstallFails, Forgetting
<1>6. CASE Keep \/ Copy \/ CopyFails \/ WriteDown \/ NextSource \/ (step # "as" /\ WriteDownFails)
  BY <1>6 DEF Keep, Copy, CopyFails, WriteDown, WriteDownFails, NextSource, Copying
<1>7. CASE AsDone \/ CargoConfig \/ ClearCaches \/ WriteCache
  BY <1>7, ThenIs DEF AsDone, CargoConfig, ClearCaches, WriteCache
<1>8. CASE WriteDownCaches \/ NoCaches \/ WriteHostile
  BY <1>8, ThenIs DEF WriteDownCaches, NoCaches, WriteHostile
<1>9. CASE WritePackages \/ Stop \/ TreesGrow
  BY <1>9, ThenIs DEF WritePackages, Stop, TreesGrow
<1>10. CASE step # "as" /\ (WriteDownAs \/ PutAsBack)
  BY <1>10 DEF WriteDownAs, PutAsBack
<1>11. QED
  BY <1>1, <1>2, <1>2a, <1>3, <1>4, <1>5, <1>6, <1>7, <1>8, <1>9, <1>10 DEF Next

(* What a make with nothing stopped before it leaves of a file.             *)
LEMMA FromNothingIs ==
  ASSUME TypeInv, NEW f \in Files
  PROVE  /\ f = Cargo => FromNothing(asked)[f] = IF WithToolchain THEN Ours ELSE None
         /\ f = Hostile => FromNothing(asked)[f] = Ours
         /\ f \in Range(Caches) /\ Copied(Conf) # None /\ FcCache \in asked =>
              FromNothing(asked)[f] = "cache"
         /\ f \notin {Cargo, Hostile} /\
            (f \in Range(Caches) => Copied(Conf) = None \/ FcCache \notin asked) =>
              FromNothing(asked)[f] = AfterAs(f)
<1>1. FromNothing(asked)[f] =
        IF Moved /\ f = AsBin THEN Ours
        ELSE IF Moved /\ f = AsTarget THEN Copied(AsBin)
        ELSE IF f = Cargo THEN IF WithToolchain THEN Ours ELSE None
        ELSE IF f \in Range(Caches) /\ Copied(Conf) # None /\ FcCache \in asked THEN "cache"
        ELSE IF f = Hostile THEN Ours
        ELSE Copied(f)
  BY DEF FromNothing, Moved, WithToolchain, Copied
<1>2. QED
  BY <1>1, OwnIs DEF AfterAs

(* The rest of the recipe.                                                  *)
LEMMA StepFinished ==
  TypeInv /\ OursInv /\ AsMoved /\ Finished /\ [Next]_vars => Finished'
<1> SUFFICES ASSUME TypeInv, OursInv, AsMoved, Finished, [Next]_vars,
                    step' \in {"cargo", "caches", "hostile", "packages", "done"}
             PROVE  Finished'
  BY DEF Finished
<1>1. CASE AsDone
  <2>1. /\ step = "as" /\ step' = "cargo" /\ ~AsReplaced
        /\ UNCHANGED <<stage, own, asked, stray, missed>>
    BY <1>1, ThenIs DEF AsDone
  <2>2. WithToolchain => stage[AsBin] = Ours
    BY <2>1 DEF AsReplaced
  <2>3. ASSUME NEW f \in KnownAs
        PROVE  stage[f] = AfterAs(f)
    <3>1. CASE \A g \in Known : stage[g] = Copied(g)
      <4>1. CASE ~Moved
        BY <2>3, <3>1, <4>1 DEF AfterAs, KnownAs
      <4>2. CASE Moved
        <5>1. AsBin \notin Known
          BY <2>2, <3>1, <4>2 DEF Moved
        <5>2. AsBin \in missed
          BY <2>1, <5>1, OwnIs DEF OursInv, Installed, Known
        <5>3. f # AsBin /\ f # AsTarget /\ f \in Known
          BY <2>3, <5>1, <5>2 DEF KnownAs
        <5>4. QED
          BY <3>1, <5>3 DEF AfterAs
      <4>3. QED
        BY <4>1, <4>2
    <3>2. CASE /\ WithToolchain /\ (AsBin \notin missed => Moved)
               /\ \A g \in KnownAs \ {AsBin} : stage[g] = AfterAs(g)
      <4>1. CASE f = AsBin
        BY <2>2, <2>3, <3>2, <4>1 DEF AfterAs, KnownAs, Known
      <4>2. CASE f # AsBin
        BY <2>3, <3>2, <4>2
      <4>3. QED
        BY <4>1, <4>2
    <3>3. QED
      BY <2>1, <3>1, <3>2 DEF AsMoved
  <2>4. KnownAs' = KnownAs /\ \A f : AfterAs(f)' = AfterAs(f)
    BY <2>1, SameSources DEF KnownAs, Known
  <2>5. \A f \in KnownAs' : stage'[f] = AfterAs(f)'
    BY <2>1, <2>3, <2>4
  <2>6. QED
    BY <2>1, <2>5 DEF Finished
<1>2. CASE CargoConfig
  <2>1. /\ step = "cargo" /\ step' = "caches" /\ queue = <<>> /\ queue' = <<>>
        /\ UNCHANGED <<own, asked, stray, missed>>
    BY <1>2, ThenIs DEF CargoConfig, TypeInv, QueueOK
  <2>2. \A f \in Files : stage'[f] = IF f = Cargo THEN IF WithToolchain THEN Ours ELSE None
                                  ELSE stage[f]
    BY <1>2, Typed DEF CargoConfig
  <2>3. /\ KnownAs' = KnownAs /\ \A f \in KnownAs : f \in Files /\ f # Cargo
        /\ \A f : AfterAs(f)' = AfterAs(f)
        /\ WithToolchain' = WithToolchain
    BY <2>1, SameSources DEF KnownAs, Known
  <2>4. \A f \in KnownAs' : stage'[f] = AfterAs(f)'
    BY <2>1, <2>2, <2>3 DEF Finished
  <2>5. stage'[Cargo] = IF WithToolchain' THEN Ours ELSE None
    BY <2>2, <2>3, PathsAre
  <2>6. QED
    BY <2>1, <2>4, <2>5 DEF Finished
<1>3. CASE ClearCaches
  <2>1. /\ step = "caches" /\ step' = "caches" /\ queue = <<>> /\ queue' # <<>> /\ todo' = Caches
        /\ stray' = stray \ Range(Caches) /\ UNCHANGED <<own, asked, missed>>
        /\ \A f \in Files : stage'[f] = IF f \in Range(Caches) THEN None ELSE stage[f]
    BY <1>3 DEF ClearCaches
  <2>2. /\ \A f \in KnownAs' \ Range(Caches) : f \in KnownAs /\ f \in Files
        /\ \A f : AfterAs(f)' = AfterAs(f)
        /\ WithToolchain' = WithToolchain
    BY <2>1, SameSources DEF KnownAs, Known
  <2>3. \A f \in KnownAs' \ Range(Caches) : stage'[f] = AfterAs(f)'
    BY <2>1, <2>2 DEF Finished
  <2>4. stage'[Cargo] = IF WithToolchain' THEN Ours ELSE None
    BY <2>1, <2>2, OwnIs, PathsAre DEF Finished
  <2>5. QED
    BY <2>1, <2>3, <2>4 DEF Finished
<1>4. CASE WriteCache
  <2>1. /\ step = "caches" /\ step' = "caches" /\ todo # <<>> /\ todo' = Tail(todo)
        /\ UNCHANGED <<own, asked, queue, stray, missed>>
    BY <1>4 DEF WriteCache
  <2>2. /\ \A f \in Files : stage'[f] = IF f = Head(todo) THEN "cache" ELSE stage[f]
        /\ Range(todo) = {Head(todo)} \cup Range(todo') /\ queue # <<>>
        /\ Range(todo) \subseteq Range(Caches)
    BY <1>4, <2>1, Typed DEF WriteCache, TypeInv, InHand
  <2>3. /\ KnownAs' = KnownAs /\ \A f \in KnownAs : f \in Files
        /\ \A f : AfterAs(f)' = AfterAs(f)
        /\ WithToolchain' = WithToolchain
    BY <2>1, SameSources DEF KnownAs, Known
  <2>4. \A f \in KnownAs' \ Range(Caches) : stage'[f] = AfterAs(f)'
    BY <2>1, <2>2, <2>3 DEF Finished
  <2>5. stage'[Cargo] = IF WithToolchain' THEN Ours ELSE None
    BY <2>1, <2>2, <2>3, OwnIs, PathsAre DEF Finished
  <2>6. \A f \in Range(Caches) : f \in Range(todo') \/ stage'[f] = "cache"
    BY <2>1, <2>2, PathsAre DEF Finished
  <2>7. QED
    BY <2>1, <2>2, <2>4, <2>5, <2>6 DEF Finished
<1>5. CASE WriteDownCaches \/ NoCaches
  <2>1. /\ step = "caches" /\ step' = "hostile" /\ todo = <<>>
        /\ UNCHANGED <<stage, own, asked, stray, missed>>
        /\ \/ queue # <<>>
           \/ queue = <<>> /\ ~MakesCaches
    BY <1>5, ThenIs DEF WriteDownCaches, NoCaches, TypeInv, TypeOK, InHand
  <2>2. /\ queue # <<>> => MakesCaches
        /\ \A f \in Range(Caches) : queue # <<>> => stage[f] = "cache"
        /\ \A f \in KnownAs \ Range(Caches) : stage[f] = AfterAs(f)
        /\ queue = <<>> => \A f \in KnownAs : stage[f] = AfterAs(f)
        /\ stage[Cargo] = IF WithToolchain THEN Ours ELSE None
    BY <2>1, OwnIs DEF TypeInv, InHand, Finished
  <2>3. Conf \notin stray \cup missed => stage[Conf] = Copied(Conf)
    <3>1. Conf \notin stray \cup missed => Conf \in KnownAs \ Range(Caches)
      BY OwnIs, PathsAre DEF KnownAs, Known
    <3>2. AfterAs(Conf) = Copied(Conf)
      BY OwnIs DEF AfterAs
    <3>3. QED
      BY <2>2, <3>1, <3>2
  <2>4. ASSUME NEW f \in Files \ (Touched \cup {Hostile})
        PROVE  stage[f] = FromNothing(asked)[f]
    <3>1. /\ f \notin stray \cup missed /\ f \in Files /\ f # Hostile
          /\ f \in Range(Caches) => Conf \notin stray \cup missed
          /\ AsBin \in missed => f # AsTarget
      BY <2>4 DEF Touched
    <3>2. CASE f = Cargo
      BY <2>2, <3>1, <3>2, FromNothingIs
    <3>3. CASE f \in Range(Caches)
      BY <2>1, <2>2, <2>3, <3>1, <3>3, FromNothingIs, OwnIs DEF KnownAs, Known, MakesCaches
    <3>4. CASE f \notin Range(Caches) \cup {Cargo}
      BY <2>2, <3>1, <3>4, FromNothingIs DEF KnownAs, Known
    <3>5. QED
      BY <3>2, <3>3, <3>4
  <2>5. Touched' = Touched /\ \A f : FromNothing(asked)'[f] = FromNothing(asked)[f]
    BY <2>1, SameSources DEF Touched
  <2>6. FromNothingIn(Touched \cup {Hostile})'
    BY <2>1, <2>4, <2>5 DEF FromNothingIn
  <2>7. QED
    BY <2>1, <2>6 DEF Finished
<1>6. CASE WriteHostile
  <2>1. /\ step = "hostile" /\ step' = "packages" /\ UNCHANGED <<own, asked, stray, missed>>
        /\ \A f \in Files : stage'[f] = IF f = Hostile THEN Ours ELSE stage[f]
    BY <1>6, ThenIs, Typed DEF WriteHostile
  <2>2. FromNothingIn(Touched \cup {Hostile})
    BY <2>1 DEF Finished
  <2>3. \A f \in Files \ Touched : stage'[f] = FromNothing(asked)[f]
    BY <2>1, <2>2, FromNothingIs DEF FromNothingIn
  <2>4. Touched' = Touched /\ \A f : FromNothing(asked)'[f] = FromNothing(asked)[f]
    BY <2>1, SameSources DEF Touched
  <2>5. FromNothingIn(Touched)'
    BY <2>3, <2>4 DEF FromNothingIn
  <2>6. QED
    BY <2>1, <2>5 DEF Finished
<1>7. CASE WritePackages \/ UNCHANGED vars
  <2>1. /\ UNCHANGED <<stage, own, asked, queue, todo, stray, missed>>
        /\ \/ step = "packages" /\ step' = "done"
           \/ step' = step
    BY <1>7, ThenIs DEF WritePackages, vars
  <2>2. /\ Touched' = Touched /\ KnownAs' = KnownAs /\ Known' = Known
        /\ \A f : FromNothing(asked)'[f] = FromNothing(asked)[f]
        /\ \A f : AfterAs(f)' = AfterAs(f)
        /\ WithToolchain' = WithToolchain
    BY <2>1, SameSources DEF Touched, KnownAs, Known
  <2>3. /\ FromNothingIn(Touched) => FromNothingIn(Touched)'
        /\ FromNothingIn(Touched \cup {Hostile}) => FromNothingIn(Touched \cup {Hostile})'
    BY <2>1, <2>2 DEF FromNothingIn
  <2>4. QED
    BY <2>1, <2>2, <2>3 DEF Finished
<1>8. CASE Make \/ StepDone \/ RemoveFile \/ RemoveRecord \/ Install \/ InstallFails
  BY <1>8, ThenIs DEF Make, StepDone, Enter, RemoveFile, RemoveRecord, Install, InstallFails,
                      Forgetting
<1>9. CASE Keep \/ Copy \/ CopyFails \/ WriteDown \/ WriteDownFails \/ NextSource
  BY <1>9 DEF Keep, Copy, CopyFails, WriteDown, WriteDownFails, NextSource, Copying
<1>10. CASE MoveAs \/ MoveAsFails \/ WriteDownAs \/ PutAsBack \/ Stop \/ TreesGrow
  BY <1>10 DEF MoveAs, MoveAsFails, WriteDownAs, PutAsBack, Stop, TreesGrow
<1>11. QED
  BY <1>1, <1>2, <1>3, <1>4, <1>5, <1>6, <1>7, <1>8, <1>9, <1>10 DEF Next

LEMMA InitFrom == Init => FromInv
BY DEF Init, FromInv, Emptied, Missing, CopiedSoFar, AsMoved, Finished, Copying

(* A stage made with some variables is the one they would make of an empty  *)
(* directory, but for what was never written down, what this one passed     *)
(* over and what it took out by name (tools/stage-forget.sh:9-12).          *)
THEOREM AsFromNothingHolds == Spec => []AsFromNothing
<1>1. /\ TypeInv /\ WrittenInv /\ OursInv /\ FromInv /\ [Next]_vars => FromInv'
  BY StepEmptied, StepMissing, StepCopied, StepAs, StepFinished DEF FromInv
<1>2. FromInv => AsFromNothing
  BY DEF FromInv, Finished, FromNothingIn, AsFromNothing
<1>3. Init => WrittenInv
  BY PathsAre DEF Init, WrittenInv, WrittenDown, GoneThrough, Forgetting
<1>4. QED
  BY <1>1, <1>2, <1>3, InitTyped, InitOurs, InitFrom, StepTyped, StepWritten, StepOurs, PTL DEF Spec
=============================================================================
