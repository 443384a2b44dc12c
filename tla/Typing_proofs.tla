---------------------------- MODULE Typing_proofs ----------------------------
(***************************************************************************)
(* What is typed, composed, attached or completed arrives once and in      *)
(* order, for any number of keys, drops and panes.  Each part has an       *)
(* invariant of its own, of where its letters and images are.              *)
(***************************************************************************)
EXTENDS Typing, FiniteSetTheorems, SequenceTheorems, WellFoundedInduction, TLAPS

\* A step of each part, or none of it.
BarNext == [Ib!Next]_ibVars
MacNext == [Mi!Next]_miVars
WinNext == [Wi!Next]_wiVars
CompletionNext == [Ac!AcNext]_acVars

\* A step is a step of the part that runs.
LEMMA PartsStep ==
  ASSUME [TypingNext]_typingVars
  PROVE  /\ part' = part
         /\ part = "bar" => BarNext
         /\ part = "mac" => MacNext
         /\ part = "win" => WinNext
         /\ part = "completion" => CompletionNext
  BY DEF TypingNext, typingVars, BarNext, MacNext, WinNext, CompletionNext

\* Every nonempty set of numbers has a least element.
LEMMA LeastNumber ==
  ASSUME NEW S \in SUBSET Nat, S # {}
  PROVE  \E n \in S : \A m \in S : n <= m
<1>. DEFINE Less == OpToRel(<, Nat)
<1>1. \E n \in S : \A m \in S : ~ (<<m, n>> \in Less)
  BY NatLessThanWellFounded, WFMin
<1>2. \A n, m \in Nat : m < n => <<m, n>> \in Less
  BY DEF OpToRel
<1>. HIDE DEF Less
<1>3. PICK n \in S : \A m \in S : ~ (<<m, n>> \in Less)
  BY <1>1
<1>4. \A m \in S : ~ (m < n)
  BY <1>2, <1>3
<1>. QED
  BY <1>4

-----------------------------------------------------------------------------
\* Writes that are still to be made.
ToWrite == Seq(Ib!Write) \ {<<>>}
BarTypes == Ib!TypeOK /\ sends \in Seq(ToWrite)
\* Where an image is.
Places(att, pi, st, i) == att[i] + (IF i = pi THEN 1 ELSE 0) + (IF i \in st THEN 1 ELSE 0)
\* Every image that was dropped is in one place, what the bar is about to take is what
\* the pane keeps, and what it has taken the pane does not keep any more.
EachInOnePlace(att, pi, st, n) ==
  \A i \in Ib!Image : Places(att, pi, st, i) = IF i <= n THEN 1 ELSE 0
BarInv ==
  /\ BarTypes
  /\ EachInOnePlace(attached, pendingImages, settled, drops)
  /\ pendingImages # 0 => pendingImages # consumed
  /\ inputBarOpen /\ prop \notin {0, consumed} => prop = pendingImages
  /\ consumed <= drops

\* What is attached is what is not anywhere else.
LEMMA WhereImagesAre ==
  ASSUME BarInv
  PROVE  /\ \A i \in Ib!Image : /\ attached[i] \in {0, 1}
                                /\ i = pendingImages => attached[i] = 0 /\ i \notin settled /\ i <= drops
                                /\ attached[i] = 1 => i \notin settled /\ i <= drops
                                /\ i \in settled => i <= drops
         /\ drops \in 0 .. MaxDrops
<1>1. ASSUME NEW i \in Ib!Image
      PROVE  attached[i] \in 0 .. 2 /\ Places(attached, pendingImages, settled, i) = (IF i <= drops THEN 1 ELSE 0)
  BY <1>1 DEF BarInv, BarTypes, Ib!TypeOK, EachInOnePlace
<1>2. drops \in 0 .. MaxDrops
  BY DEF BarInv, BarTypes, Ib!TypeOK
<1>. QED
  BY <1>1, <1>2 DEF Places

\* Images that go from where they are attached are dealt with.
LEMMA Detached ==
  ASSUME BarInv, NEW images \in SUBSET Ib!Image, NEW pi \in Ib!Image \cup {0}, Ib!Detach(images),
         \A i \in images : attached[i] = 1 \/ (i = pendingImages /\ pi = 0),
         pi = pendingImages \/ (pi = 0 /\ (pendingImages # 0 => pendingImages \in images)),
         pi \notin images
  PROVE  /\ EachInOnePlace(attached', pi, settled', drops)
         /\ attached' \in [Ib!Image -> 0 .. 2] /\ settled' \subseteq Ib!Image
<1>1. attached' = [i \in Ib!Image |-> IF i \in images THEN 0 ELSE attached[i]] /\ settled' = settled \cup images
  BY DEF Ib!Detach
<1>2. attached \in [Ib!Image -> 0 .. 2] /\ settled \subseteq Ib!Image
  BY DEF BarInv, BarTypes, Ib!TypeOK
<1>3. ASSUME NEW i \in Ib!Image
      PROVE  Places(attached', pi, settled', i) = IF i <= drops THEN 1 ELSE 0
  <2>1. Places(attached, pendingImages, settled, i) = IF i <= drops THEN 1 ELSE 0
    BY <1>3 DEF BarInv, EachInOnePlace
  <2>2. drops \in Nat /\ i \in Nat /\ i # 0
    BY InputAssumption DEF Ib!Image, BarInv, BarTypes, Ib!TypeOK
  <2>. QED
    BY <1>1, <1>2, <2>1, <2>2, WhereImagesAre DEF Places
<1>. QED
  BY <1>1, <1>2, <1>3 DEF EachInOnePlace

\* An image is attached.
LEMMA OneAttached ==
  ASSUME BarInv, NEW j \in Ib!Image, NEW pi \in {0, pendingImages}, NEW n \in {drops, drops + 1}, Ib!Attach(j),
         \/ j = pendingImages /\ pi = 0 /\ n = drops
         \/ j = drops + 1 /\ n = drops + 1 /\ pi = pendingImages
  PROVE  /\ EachInOnePlace(attached', pi, settled, n)
         /\ attached' \in [Ib!Image -> 0 .. 2]
<1>1. attached' = [attached EXCEPT ![j] = @ + 1]
  BY DEF Ib!Attach
<1>2. attached \in [Ib!Image -> 0 .. 2] /\ settled \subseteq Ib!Image /\ drops \in Nat
  BY InputAssumption DEF BarInv, BarTypes, Ib!TypeOK
<1>3. attached[j] = 0
  <2>1. Places(attached, pendingImages, settled, j) = IF j <= drops THEN 1 ELSE 0
    BY DEF BarInv, EachInOnePlace
  <2>. QED
    BY <1>2, <2>1, WhereImagesAre DEF Places, Ib!Image
<1>4. attached' \in [Ib!Image -> 0 .. 2] /\ \A i \in Ib!Image : attached'[i] = IF i = j THEN 1 ELSE attached[i]
  BY <1>1, <1>2, <1>3
<1>5. ASSUME NEW i \in Ib!Image
      PROVE  Places(attached', pi, settled, i) = IF i <= n THEN 1 ELSE 0
  <2>1. Places(attached, pendingImages, settled, i) = IF i <= drops THEN 1 ELSE 0
    BY <1>5 DEF BarInv, EachInOnePlace
  <2>2. i \in Nat /\ i # 0 /\ attached[i] \in 0 .. 2
    BY <1>2 DEF Ib!Image
  <2>. QED
    BY <1>2, <1>4, <2>1, <2>2, WhereImagesAre DEF Places
<1>. QED
  BY <1>4, <1>5 DEF EachInOnePlace

\* A write is made and the rest of its send waits.
LEMMA WriteLeaves ==
  ASSUME sends \in Seq(ToWrite), NEW i \in DOMAIN sends
  PROVE  /\ Head(sends[i]) \in Ib!Write
         /\ Ib!RemoveAt(sends, i) \in Seq(ToWrite)
         /\ Len(sends[i]) # 1 => [sends EXCEPT ![i] = Tail(@)] \in Seq(ToWrite)
<1>1. sends[i] \in ToWrite
  OBVIOUS
<1>2. sends[i] \in Seq(Ib!Write) /\ sends[i] # <<>>
  BY <1>1 DEF ToWrite
<1>3. Len(sends[i]) # 1 => Tail(sends[i]) \in Seq(Ib!Write) /\ Tail(sends[i]) # <<>>
  <2>. SUFFICES ASSUME Len(sends[i]) # 1 PROVE Tail(sends[i]) \in Seq(Ib!Write) /\ Tail(sends[i]) # <<>>
    OBVIOUS
  <2>. DEFINE s == sends[i]
  <2>0. s \in Seq(Ib!Write) /\ s # <<>> /\ Len(s) # 1
    BY <1>2
  <2>. HIDE DEF s
  <2>1. Len(Tail(s)) = Len(s) - 1 /\ Tail(s) \in Seq(Ib!Write) /\ Len(s) \in Nat
    BY <2>0
  <2>2. Len(Tail(s)) # 0
    <3>1. Len(s) # 0
      BY <2>0, EmptySeq
    <3>. QED
      BY <2>0, <2>1, <3>1
  <2>3. Tail(s) # <<>>
    BY <2>1, <2>2, EmptySeq
  <2>. QED
    BY <2>1, <2>3 DEF s
<1>4. Len(sends[i]) # 1 => [sends EXCEPT ![i] = Tail(@)] \in Seq(ToWrite)
  <2>. SUFFICES ASSUME Len(sends[i]) # 1 PROVE [sends EXCEPT ![i] = Tail(@)] \in Seq(ToWrite)
    OBVIOUS
  <2>1. Tail(sends[i]) \in ToWrite
    BY <1>3 DEF ToWrite
  <2>. HIDE DEF ToWrite
  <2>. QED
    BY <2>1
<1>5. Ib!RemoveAt(sends, i) \in Seq(ToWrite)
  <2>1. i \in 1 .. Len(sends) /\ Len(sends) \in Nat
    OBVIOUS
  <2>2. SubSeq(sends, 1, i - 1) \in Seq(ToWrite) /\ SubSeq(sends, i + 1, Len(sends)) \in Seq(ToWrite)
    BY <2>1
  <2>. QED
    BY <2>2 DEF Ib!RemoveAt
<1>. QED
  BY <1>2, <1>4, <1>5

\* The bar's types do not change when only the bar's attachments do.
LEMMA ImagesMove ==
  ASSUME BarTypes, UNCHANGED <<Ib!textVars, Ib!ptyVars, texts>>, inputBarOpen' \in BOOLEAN,
         {pendingImages', prop', consumed'} \subseteq Ib!Image \cup {0},
         attached' \in [Ib!Image -> 0 .. 2],
         compressing' \subseteq Ib!Image, settled' \subseteq Ib!Image,
         drops' \in 0 .. MaxDrops, keys' \in 0 .. MaxKeys
  PROVE  BarTypes'
<1>1. /\ UNCHANGED <<value, draftStore, draftRef, history, historyIndex, bracketedPaste, sends, arrived, texts>>
  BY DEF Ib!textVars, Ib!ptyVars
<1>. QED
  BY <1>1 DEF BarTypes, Ib!TypeOK

\* Nor when only its texts do.
LEMMA TextsMove ==
  ASSUME BarTypes, UNCHANGED <<inputBarOpen, Ib!imageVars, bracketedPaste, drops>>,
         {value', draftStore', draftRef'} \subseteq Ib!Text,
         history' \in Seq(Ib!Text \ {0}), historyIndex' \in 0 .. Len(history'),
         arrived' \in Seq(Ib!Write), sends' \in Seq(ToWrite),
         texts' \in Ib!Text, keys' \in 0 .. MaxKeys
  PROVE  BarTypes'
<1>1. UNCHANGED <<pendingImages, prop, consumed, attached, compressing, settled>>
  BY DEF Ib!imageVars
<1>2. \A i \in DOMAIN sends' : sends'[i] \in Seq(Ib!Write) /\ sends'[i] # <<>>
  BY DEF ToWrite
<1>. QED
  BY <1>1, <1>2 DEF BarTypes, Ib!TypeOK

\* Every step of the bar leaves every image in one place.
LEMMA BarStep ==
  ASSUME BarInv, BarNext
  PROVE  BarInv'
<1>. USE DEF Ib!imageVars, Ib!textVars, Ib!ptyVars, Ib!counters
<1>1. /\ BarTypes /\ EachInOnePlace(attached, pendingImages, settled, drops)
      /\ pendingImages # 0 => pendingImages # consumed
      /\ inputBarOpen /\ prop \notin {0, consumed} => prop = pendingImages
      /\ consumed <= drops /\ drops \in 0 .. MaxDrops
      /\ {pendingImages, prop, consumed} \subseteq Ib!Image \cup {0}
      /\ attached \in [Ib!Image -> 0 .. 2] /\ settled \subseteq Ib!Image /\ compressing \subseteq Ib!Image
      /\ keys \in 0 .. MaxKeys /\ inputBarOpen \in BOOLEAN /\ sends \in Seq(ToWrite)
      /\ texts \in Ib!Text /\ {value, draftStore, draftRef} \subseteq Ib!Text
      /\ history \in Seq(Ib!Text \ {0}) /\ historyIndex \in 0 .. Len(history) /\ arrived \in Seq(Ib!Write)
  BY DEF BarInv, BarTypes, Ib!TypeOK
<1>2. /\ \A i \in Ib!Image : i = pendingImages => attached[i] = 0 /\ i \notin settled /\ i <= drops
      /\ Ib!Attached = {i \in Ib!Image : attached[i] = 1}
  BY <1>1, WhereImagesAre DEF Ib!Attached
<1>a2. /\ Ib!Attached \in SUBSET Ib!Image /\ pendingImages \notin Ib!Attached
       /\ \A i \in Ib!Attached : attached[i] = 1
  BY <1>2
<1>3. /\ MaxTexts \in Nat /\ MaxDrops \in Nat /\ MaxKeys \in Nat /\ 0 \notin Ib!Image
      /\ \A i \in Ib!Image : i \in Nat /\ i > 0
  BY InputAssumption DEF Ib!Image
\* What holds of the images is all that is left when the types are known.
<1>k. ASSUME BarTypes', EachInOnePlace(attached', pendingImages', settled', drops'),
             pendingImages' # 0 => pendingImages' # consumed',
             inputBarOpen' /\ prop' \notin {0, consumed'} => prop' = pendingImages',
             consumed' <= drops'
      PROVE  BarInv'
  BY <1>k DEF BarInv
<1>t. ASSUME BarTypes', UNCHANGED <<inputBarOpen, pendingImages, prop, consumed, attached, settled, drops>>
      PROVE  BarInv'
  BY <1>1, <1>k, <1>t
<1>a. CASE UNCHANGED ibVars
  BY <1>a DEF ibVars, BarInv, BarTypes, Ib!TypeOK, EachInOnePlace, Places
<1>b. CASE Ib!OpenBar
  <2>1. /\ consumed' = pendingImages /\ prop' = pendingImages /\ pendingImages' = 0
        /\ UNCHANGED <<settled, drops>> /\ inputBarOpen' = TRUE /\ keys' \in 0 .. MaxKeys
        /\ IF consumed' = 0
           THEN UNCHANGED <<attached, compressing>>
           ELSE Ib!Attach(consumed') /\ compressing' = compressing \cup {consumed'}
    BY <1>1, <1>3, <1>b DEF Ib!OpenBar
  <2>2. EachInOnePlace(attached', 0, settled, drops) /\ attached' \in [Ib!Image -> 0 .. 2]
    <3>1. CASE pendingImages = 0
      BY <1>1, <2>1, <3>1
    <3>2. CASE pendingImages # 0
      BY <1>1, <2>1, <3>2, OneAttached
    <3>. QED
      BY <3>1, <3>2
  <2>3. compressing' \subseteq Ib!Image /\ consumed' <= drops
    BY <1>1, <1>2, <1>3, <2>1
  <2>4. BarTypes'
    <3>1. {value', draftStore', draftRef'} \subseteq Ib!Text /\ historyIndex' = 0
          /\ UNCHANGED <<history, bracketedPaste, sends, arrived, texts>>
      BY <1>1, <1>3, <1>b DEF Ib!OpenBar, Ib!Text
    <3>2. historyIndex' \in 0 .. Len(history')
      BY <1>1, <3>1
    <3>. QED
      BY <1>1, <2>1, <2>2, <2>3, <3>1, <3>2 DEF BarTypes, Ib!TypeOK
  <2>. QED
    BY <1>k, <2>1, <2>2, <2>3, <2>4
<1>c. CASE Ib!CloseBar
  <2>1. /\ inputBarOpen' = FALSE /\ compressing' = {} /\ UNCHANGED <<prop, consumed, Ib!textVars, Ib!ptyVars, texts, drops, keys>>
    BY <1>c DEF Ib!CloseBar
  <2>2. /\ EachInOnePlace(attached', pendingImages', settled', drops) /\ pendingImages' \in {0, pendingImages}
        /\ attached' \in [Ib!Image -> 0 .. 2] /\ settled' \subseteq Ib!Image
    <3>1. CASE pendingImages' = 0 /\ Ib!Detach(Ib!Attached \cup ({pendingImages} \ {0}))
      BY <1>1, <1>2, <1>3, <3>1, Detached
    <3>2. CASE Ib!Detach(Ib!Attached) /\ UNCHANGED pendingImages
      <4>1. /\ EachInOnePlace(attached', pendingImages, settled', drops)
            /\ attached' \in [Ib!Image -> 0 .. 2] /\ settled' \subseteq Ib!Image
        BY <1>1, <1>a2, <3>2, Detached
      <4>. QED
        BY <2>1, <3>2, <4>1
    <3>. QED
      BY <1>c, <3>1, <3>2 DEF Ib!CloseBar
  <2>3. BarTypes'
    BY <1>1, <2>1, <2>2, ImagesMove
  <2>. QED
    BY <1>1, <1>k, <2>1, <2>2, <2>3
<1>d. CASE Ib!DropOnPane
  <2>1. /\ drops < MaxDrops /\ prop = pendingImages /\ prop \in {0, consumed}
        /\ drops' = drops + 1 /\ pendingImages' = drops + 1
        /\ UNCHANGED <<inputBarOpen, prop, consumed, attached, compressing, settled, Ib!textVars, Ib!ptyVars, texts, keys>>
    BY <1>d DEF Ib!DropOnPane
  <2>2. drops' \in Ib!Image /\ pendingImages = 0
    BY <1>1, <1>3, <2>1 DEF Ib!Image
  <2>3. EachInOnePlace(attached', pendingImages', settled', drops')
    BY <1>1, <1>2, <1>3, <2>1, <2>2 DEF EachInOnePlace, Places
  <2>4. BarTypes'
    <3>1. drops' \in 0 .. MaxDrops
      BY <1>1, <1>3, <2>1
    <3>2. {pendingImages', prop', consumed'} \subseteq Ib!Image \cup {0}
      BY <1>1, <2>1, <2>2
    <3>. QED
      BY <1>1, <2>1, <3>1, <3>2, ImagesMove
  <2>5. consumed <= drops + 1 /\ drops + 1 # consumed
    BY <1>1, <1>3
  <2>. QED
    BY <1>1, <1>k, <2>1, <2>2, <2>3, <2>4, <2>5
<1>e. CASE Ib!DropOnBar
  <2>1. /\ drops < MaxDrops /\ drops' = drops + 1 /\ Ib!Attach(drops + 1) /\ compressing' = compressing \cup {drops + 1}
        /\ UNCHANGED <<inputBarOpen, pendingImages, prop, consumed, settled, Ib!textVars, Ib!ptyVars, texts, keys>>
    BY <1>e DEF Ib!DropOnBar
  <2>2. drops + 1 \in Ib!Image
    BY <1>1, <1>3, <2>1 DEF Ib!Image
  <2>3. EachInOnePlace(attached', pendingImages, settled, drops + 1) /\ attached' \in [Ib!Image -> 0 .. 2]
    BY <1>1, <2>1, <2>2, OneAttached
  <2>4. BarTypes'
    <3>1. drops' \in 0 .. MaxDrops
      BY <1>1, <1>3, <2>1
    <3>. QED
      BY <1>1, <2>1, <2>2, <2>3, <3>1, ImagesMove
  <2>. QED
    BY <1>1, <1>3, <1>k, <2>1, <2>2, <2>3, <2>4
<1>f. ASSUME NEW i \in Ib!Image, Ib!Compressed(i) PROVE BarInv'
  <2>1. /\ compressing' \subseteq Ib!Image
        /\ UNCHANGED <<inputBarOpen, pendingImages, prop, consumed, attached, settled, Ib!textVars, Ib!ptyVars, texts, drops, keys>>
    BY <1>1, <1>f DEF Ib!Compressed
  <2>2. BarTypes'
    BY <1>1, <2>1, ImagesMove
  <2>. QED
    BY <1>t, <2>1, <2>2
<1>g. CASE Ib!PaneRenders
  <2>1. /\ prop' = pendingImages
        /\ UNCHANGED <<inputBarOpen, pendingImages, consumed, attached, compressing, settled, Ib!textVars, Ib!ptyVars, texts, drops, keys>>
    BY <1>g DEF Ib!PaneRenders
  <2>2. BarTypes'
    BY <1>1, <2>1, ImagesMove
  <2>. QED
    BY <1>1, <1>k, <2>1, <2>2
<1>h. CASE Ib!BarRenders
  <2>1. /\ inputBarOpen /\ prop \notin {0, consumed} /\ consumed' = prop /\ Ib!Attach(prop) /\ pendingImages' = 0
        /\ UNCHANGED <<inputBarOpen, prop, compressing, settled, Ib!textVars, Ib!ptyVars, texts, drops, keys>>
    BY <1>h DEF Ib!BarRenders, Ib!WhenNew
  <2>2. prop = pendingImages /\ prop \in Ib!Image /\ prop <= drops
    BY <1>1, <1>2, <2>1
  <2>3. EachInOnePlace(attached', 0, settled, drops) /\ attached' \in [Ib!Image -> 0 .. 2]
    BY <1>1, <2>1, <2>2, OneAttached
  <2>4. BarTypes'
    BY <1>1, <2>1, <2>2, <2>3, ImagesMove
  <2>. QED
    BY <1>1, <1>k, <2>1, <2>2, <2>3, <2>4
<1>i. ASSUME NEW i \in Ib!Image, Ib!RemoveImage(i) PROVE BarInv'
  <2>1. /\ i \in Ib!Attached /\ Ib!Detach({i}) /\ compressing' \subseteq Ib!Image
        /\ UNCHANGED <<inputBarOpen, pendingImages, prop, consumed, Ib!textVars, Ib!ptyVars, texts, drops, keys>>
    BY <1>1, <1>i DEF Ib!RemoveImage
  <2>2. attached[i] = 1 /\ pendingImages \notin {i}
    BY <1>2, <2>1
  <2>3. EachInOnePlace(attached', pendingImages, settled', drops) /\ attached' \in [Ib!Image -> 0 .. 2] /\ settled' \subseteq Ib!Image
    BY <1>1, <2>1, <2>2, Detached
  <2>4. BarTypes'
    BY <1>1, <2>1, <2>3, ImagesMove
  <2>. QED
    BY <1>1, <1>k, <2>1, <2>3, <2>4
<1>j. CASE Ib!Type
  <2>1. /\ texts < MaxTexts /\ texts' = texts + 1 /\ value' = texts + 1 /\ draftStore' = texts + 1 /\ historyIndex' = 0
        /\ UNCHANGED <<inputBarOpen, Ib!imageVars, draftRef, history, Ib!ptyVars, drops, keys>>
    BY <1>j DEF Ib!Type
  <2>2. texts + 1 \in Ib!Text
    BY <1>1, <1>3, <2>1 DEF Ib!Text
  <2>3. BarTypes'
    BY <1>1, <2>1, <2>2, TextsMove
  <2>. QED
    BY <1>t, <2>1, <2>3
<1>l. ASSUME NEW i \in 0 .. Len(history), Ib!Browse(i) PROVE BarInv'
  <2>1. /\ keys' \in 0 .. MaxKeys /\ historyIndex' = i /\ draftRef' \in {value, draftRef}
        /\ value' = (IF i = 0 THEN draftRef ELSE history[i]) /\ draftStore' = value'
        /\ UNCHANGED <<inputBarOpen, Ib!imageVars, history, Ib!ptyVars, texts, drops>>
    BY <1>1, <1>3, <1>l DEF Ib!Browse
  <2>2. value' \in Ib!Text
    BY <1>1, <2>1 DEF Ib!Text
  <2>3. BarTypes'
    BY <1>1, <2>1, <2>2, TextsMove
  <2>. QED
    BY <1>t, <2>1, <2>3
<1>m. CASE Ib!Send
  <2>1. /\ keys' \in 0 .. MaxKeys /\ sends' = Append(sends, Ib!Writes)
        /\ history' = IF value = 0 \/ (history # <<>> /\ Head(history) = value) THEN history ELSE <<value>> \o history
        /\ value' = 0 /\ draftStore' = 0 /\ draftRef' = 0 /\ historyIndex' = 0
        /\ Ib!Detach(Ib!Attached) /\ compressing' = {}
        /\ UNCHANGED <<inputBarOpen, pendingImages, prop, consumed, bracketedPaste, arrived, texts, drops>>
    BY <1>1, <1>3, <1>m DEF Ib!Send
  <2>2. /\ EachInOnePlace(attached', pendingImages, settled', drops)
        /\ attached' \in [Ib!Image -> 0 .. 2] /\ settled' \subseteq Ib!Image
    BY <1>1, <1>a2, <2>1, Detached
  <2>3. Ib!Writes \in ToWrite
    <3>1. <<value, "paste">> \in Ib!Write /\ <<value, "entered">> \in Ib!Write /\ Ib!Enter \in Ib!Write
      BY <1>1 DEF Ib!Write
    <3>2. \A x, y, z \in Ib!Write : {<<x>>, <<x, y>>, <<x, y, z>>} \subseteq ToWrite
      BY DEF ToWrite
    <3>. HIDE DEF ToWrite
    <3>3. \/ Ib!Writes = <<Ib!Enter>> \/ Ib!Writes = <<<<value, "entered">>>>
          \/ Ib!Writes = <<<<value, "paste">>, Ib!Enter>> \/ Ib!Writes = <<<<value, "paste">>, Ib!Enter, Ib!Enter>>
      BY DEF Ib!Writes
    <3>. QED
      BY <3>1, <3>2, <3>3
  <2>4. sends' \in Seq(ToWrite)
    BY <1>1, <2>1, <2>3
  <2>5. history' \in Seq(Ib!Text \ {0}) /\ 0 \in Ib!Text /\ historyIndex' \in 0 .. Len(history')
    <3>1. history' \in Seq(Ib!Text \ {0})
      <4>1. CASE history' = history
        BY <1>1, <4>1
      <4>2. CASE history' = <<value>> \o history /\ value # 0
        <5>1. <<value>> \in Seq(Ib!Text \ {0})
          BY <1>1, <4>2
        <5>. QED
          BY <1>1, <4>2, <5>1
      <4>. QED
        BY <2>1, <4>1, <4>2
    <3>. QED
      BY <1>3, <2>1, <3>1 DEF Ib!Text
  <2>6. BarTypes'
    <3>1. \A j \in DOMAIN sends' : sends'[j] \in Seq(Ib!Write) /\ sends'[j] # <<>>
      BY <2>4 DEF ToWrite
    <3>. QED
      BY <1>1, <2>1, <2>2, <2>4, <2>5, <3>1 DEF BarTypes, Ib!TypeOK
  <2>. QED
    BY <1>1, <1>k, <2>1, <2>2, <2>6
<1>n. ASSUME NEW i \in DOMAIN sends, Ib!WriteArrives(i) PROVE BarInv'
  <2>1. /\ arrived' = Append(arrived, Head(sends[i]))
        /\ sends' = (IF Len(sends[i]) = 1 THEN Ib!RemoveAt(sends, i) ELSE [sends EXCEPT ![i] = Tail(@)])
        /\ UNCHANGED <<inputBarOpen, Ib!imageVars, Ib!textVars, bracketedPaste, texts, drops, keys>>
    BY <1>n DEF Ib!WriteArrives
  <2>2. arrived' \in Seq(Ib!Write) /\ sends' \in Seq(ToWrite)
    BY <1>1, <2>1, WriteLeaves
  <2>3. BarTypes'
    BY <1>1, <2>1, <2>2, TextsMove
  <2>. QED
    BY <1>t, <2>1, <2>3
<1>. QED
  BY <1>a, <1>b, <1>c, <1>d, <1>e, <1>f, <1>g, <1>h, <1>i, <1>j, <1>l, <1>m, <1>n DEF BarNext, Ib!Next

\* Nothing has been dropped when the bar begins.
LEMMA BarBegins ==
  ASSUME Ib!Init
  PROVE  BarInv
<1>1. /\ pendingImages = 0 /\ prop = 0 /\ consumed = 0 /\ attached = [i \in Ib!Image |-> 0] /\ settled = {}
      /\ drops = 0 /\ sends = <<>> /\ MaxTexts \in Nat /\ MaxDrops \in Nat /\ MaxKeys \in Nat
  BY InputAssumption DEF Ib!Init
<1>2. BarTypes
  <2>1. /\ sends \in Seq(ToWrite) /\ DOMAIN sends = {} /\ arrived \in Seq(Ib!Write)
        /\ history \in Seq(Ib!Text \ {0}) /\ historyIndex \in 0 .. Len(history)
    BY <1>1 DEF Ib!Init
  <2>2. /\ inputBarOpen \in BOOLEAN /\ bracketedPaste \in BOOLEAN /\ compressing = {}
        /\ value = 0 /\ draftStore = 0 /\ draftRef = 0 /\ texts = 0 /\ keys = 0
    BY DEF Ib!Init
  <2>3. 0 \in Ib!Text /\ 0 \in 0 .. MaxKeys /\ 0 \in 0 .. MaxDrops
    BY <1>1 DEF Ib!Text
  <2>4. attached \in [Ib!Image -> 0 .. 2]
    BY <1>1
  <2>. QED
    BY <1>1, <2>1, <2>2, <2>3, <2>4 DEF BarTypes, Ib!TypeOK
<1>3. EachInOnePlace(attached, pendingImages, settled, drops)
  BY <1>1 DEF EachInOnePlace, Places, Ib!Image
<1>. QED
  BY <1>1, <1>2, <1>3 DEF BarInv

\* So no image is attached twice or lost.
LEMMA BarAttachesOnce ==
  ASSUME BarInv
  PROVE  Ib!ImagesAttachedOnce
<1>1. \A i \in 1 .. drops : i \in Ib!Image /\ i <= drops
  BY InputAssumption DEF BarInv, BarTypes, Ib!TypeOK, Ib!Image
<1>. QED
  BY <1>1 DEF BarInv, EachInOnePlace, Places, Ib!ImagesAttachedOnce

-----------------------------------------------------------------------------
AcLines == Seq(Ac!Chars)
AcPopups == [pane : AcPane \cup {NoPane}, items : Seq(Ac!Kinds), selected : Nat]
\* The popup is a popup, and is open when it has items.
PopupTyped(pp) ==
  /\ pp \in AcPopups /\ pp.selected \in 0 .. Len(pp.items) + 1
  /\ pp.pane = NoPane <=> pp.items = <<>>
\* Enter takes what was picked.
PickedIn(pp, nav, arrows) == \A p \in AcPane \ Remote : pp.pane = p /\ nav[p] => arrows
CompletionInv ==
  /\ Ac!AcTypeOK /\ PopupTyped(acPopup) /\ PickedIn(acPopup, acNavigated, acArrows)

\* Sets of indexes have a greatest one.
LEMMA GreatestIndex ==
  ASSUME NEW n \in Nat, NEW S \in SUBSET (1 .. n), S # {}
  PROVE  \E i \in S : \A j \in S : j <= i
<1>. DEFINE D == {n - i : i \in S}
<1>1. D \in SUBSET Nat /\ D # {}
  <2>1. \A i \in S : n - i \in Nat
    OBVIOUS
  <2>. QED
    BY <2>1
<1>2. PICK k \in D : \A m \in D : k <= m
  <2>. HIDE DEF D
  <2>. QED
    BY <1>1, LeastNumber
<1>3. PICK i \in S : k = n - i
  BY <1>2
<1>4. ASSUME NEW j \in S PROVE j <= i
  <2>1. n - j \in D /\ i \in 1 .. n /\ j \in 1 .. n /\ i \in S
    OBVIOUS
  <2>. QED
    BY <1>2, <1>3, <2>1
<1>. QED
  BY <1>4

\* The line's last word is a line.
LEMMA LastTokenIs ==
  ASSUME NEW l \in AcLines
  PROVE  Ac!LastToken(l) \in AcLines
<1>. DEFINE blanks == {i \in DOMAIN l : l[i] = " "}
<1>0. l \in Seq(Ac!Chars) /\ Len(l) \in Nat /\ DOMAIN l = 1 .. Len(l)
  BY DEF AcLines
<1>1. Ac!LastBlank(l) = IF blanks = {} THEN 0 ELSE CHOOSE i \in blanks : \A j \in blanks : j <= i
  BY DEF Ac!LastBlank
<1>2. blanks \in SUBSET (1 .. Len(l))
  BY <1>0
<1>. HIDE DEF blanks
<1>3. Ac!LastBlank(l) \in 0 .. Len(l)
  <2>1. CASE blanks = {}
    BY <1>0, <1>1, <2>1
  <2>2. CASE blanks # {}
    <3>1. \E i \in blanks : \A j \in blanks : j <= i
      BY <1>0, <1>2, <2>2, GreatestIndex
    <3>2. Ac!LastBlank(l) \in blanks
      BY <1>1, <2>2, <3>1, Zenon
    <3>3. Ac!LastBlank(l) \in 1 .. Len(l)
      BY <1>2, <3>2
    <3>. QED
      BY <1>0, <3>3
  <2>. QED
    BY <2>1, <2>2
<1>4. \A b \in 0 .. Len(l) : SubSeq(l, b + 1, Len(l)) \in Seq(Ac!Chars)
  BY <1>0
<1>. QED
  BY <1>3, <1>4 DEF Ac!LastToken, AcLines

\* So is what comes after a word's last slash.
LEMMA AfterSlashIs ==
  ASSUME NEW t \in AcLines
  PROVE  Ac!AfterSlash(t) \in AcLines
<1>. DEFINE slashes == {i \in DOMAIN t : t[i] = "/"}
            c == CHOOSE i \in slashes : \A j \in slashes : j <= i
<1>0. t \in Seq(Ac!Chars) /\ Len(t) \in Nat /\ DOMAIN t = 1 .. Len(t)
  BY DEF AcLines
<1>1. Ac!AfterSlash(t) = IF slashes = {} THEN t ELSE SubSeq(t, c + 1, Len(t))
  BY DEF Ac!AfterSlash
<1>2. slashes \in SUBSET (1 .. Len(t))
  BY <1>0
<1>. HIDE DEF slashes
<1>3. slashes # {} => c \in slashes
  <2>1. slashes # {} => \E i \in slashes : \A j \in slashes : j <= i
    BY <1>0, <1>2, GreatestIndex
  <2>. QED
    BY <2>1, Zenon
<1>. HIDE DEF c
<1>4. \A b \in 1 .. Len(t) : SubSeq(t, b + 1, Len(t)) \in Seq(Ac!Chars)
  BY <1>0
<1>. QED
  BY <1>0, <1>1, <1>2, <1>3, <1>4 DEF AcLines

\* An item that is taken leaves a line.
LEMMA AcceptedIs ==
  ASSUME NEW l \in AcLines, NEW kind
  PROVE  Ac!Accepted(l, kind) \in AcLines
<1>. DEFINE new == CASE kind = "history"   -> <<"c">>
                     [] kind = "directory" -> <<"c", "/">>
                     [] OTHER              -> <<"c">>
            n == Len(l) - Len(Ac!AfterSlash(Ac!LastToken(l)))
            keep == IF kind = "history" \/ Ac!TrailingSpace(l) THEN l ELSE SubSeq(l, 1, n)
<1>1. new \in AcLines
  <2>1. <<"c">> \in AcLines /\ <<"c", "/">> \in AcLines
    <3>1. "c" \in Ac!Chars /\ "/" \in Ac!Chars
      BY DEF Ac!Chars
    <3>. QED
      BY <3>1 DEF AcLines
  <2>. QED
    BY <2>1, Zenon
<1>2. keep \in AcLines
  <2>1. Len(Ac!AfterSlash(Ac!LastToken(l))) \in Nat
    BY LastTokenIs, AfterSlashIs DEF AcLines
  <2>2. l \in Seq(Ac!Chars) /\ Len(l) \in Nat /\ n \in Int /\ n <= Len(l)
    BY <2>1 DEF AcLines
  <2>. HIDE DEF n
  <2>3. SubSeq(l, 1, n) \in Seq(Ac!Chars)
    BY <2>2
  <2>. QED
    BY <2>2, <2>3 DEF AcLines
<1>3. Ac!Accepted(l, kind) = keep \o new
  BY Zenon DEF Ac!Accepted
<1>. HIDE DEF new, keep
<1>. QED
  BY <1>1, <1>2, <1>3 DEF AcLines

\* What may be answered is items, in an order.
LEMMA CompletionsAreItems ==
  ASSUME NEW l, NEW items \in Ac!Completions(l)
  PROVE  items \in Seq(Ac!Kinds)
<1>1. ASSUME NEW kind \in Ac!Kinds, NEW f PROVE Ac!If(kind, f) \in Seq(Ac!Kinds)
  BY <1>1 DEF Ac!If
<1>2. \A f : Ac!Ordered(f) \in Seq(Ac!Kinds)
  <2>1. {"subcommand", "history", "directory"} \subseteq Ac!Kinds
    BY DEF Ac!Kinds
  <2>2. \A a, b, c \in Seq(Ac!Kinds) : (a \o b) \o c \in Seq(Ac!Kinds)
    OBVIOUS
  <2>. QED
    BY <1>1, <2>1, <2>2 DEF Ac!Ordered
<1>3. CASE Ac!TrimStart(l) = <<>>
  <2>1. items = <<>>
    BY <1>3 DEF Ac!Completions
  <2>. QED
    BY <2>1
<1>4. CASE Ac!TrimStart(l) # <<>>
  <2>1. PICK found : items = Ac!Ordered(found)
    BY <1>4 DEF Ac!Completions
  <2>. QED
    BY <1>2, <2>1, Zenon
<1>. QED
  BY <1>3, <1>4

\* The popup is closed, filled, or another item of it is selected.
LEMMA PopupMoves ==
  ASSUME CompletionInv
  PROVE  /\ PopupTyped(Ac!Closed)
         /\ \A nav, arrows : PickedIn(Ac!Closed, nav, arrows)
         /\ \A pp \in {Ac!MovedUp, Ac!MovedDown} : PopupTyped(pp) /\ pp.pane = acPopup.pane
         /\ \A i \in DOMAIN acPopup.items :
              PopupTyped([acPopup EXCEPT !.selected = i]) /\ [acPopup EXCEPT !.selected = i].pane = acPopup.pane
         /\ \A p \in AcPane, items \in Seq(Ac!Kinds) :
              items # <<>> => PopupTyped([pane |-> p, items |-> items, selected |-> 1])
<1>1. /\ acPopup \in AcPopups /\ acPopup.selected \in 0 .. Len(acPopup.items) + 1
      /\ acPopup.pane = NoPane <=> acPopup.items = <<>>
      /\ acPopup.items \in Seq(Ac!Kinds)
  BY DEF CompletionInv, PopupTyped, AcPopups
<1>2. PopupTyped(Ac!Closed) /\ Ac!Closed.pane = NoPane
  <2>1. <<>> \in Seq(Ac!Kinds) /\ Len(<<>>) = 0
    OBVIOUS
  <2>. QED
    BY <2>1 DEF PopupTyped, AcPopups, Ac!Closed
<1>3. \A nav, arrows : PickedIn(Ac!Closed, nav, arrows)
  BY <1>2, CompletionAssumption DEF PickedIn
<1>4. ASSUME NEW i \in 0 .. Len(acPopup.items) + 1
      PROVE  PopupTyped([acPopup EXCEPT !.selected = i]) /\ [acPopup EXCEPT !.selected = i].pane = acPopup.pane
  <2>. DEFINE pp == [acPopup EXCEPT !.selected = i]
  <2>1. Len(acPopup.items) \in Nat
    BY <1>1
  <2>2. pp \in AcPopups /\ pp.items = acPopup.items /\ pp.pane = acPopup.pane /\ pp.selected = i
    BY <1>1, <2>1 DEF AcPopups
  <2>. HIDE DEF pp
  <2>3. PopupTyped(pp)
    BY <1>1, <2>2 DEF PopupTyped
  <2>. QED
    BY <2>2, <2>3 DEF pp
<1>5. ASSUME NEW pp \in {Ac!MovedUp, Ac!MovedDown} PROVE PopupTyped(pp) /\ pp.pane = acPopup.pane
  <2>. DEFINE s == acPopup.selected
              n == Len(acPopup.items)
              u == IF s > 1 THEN s - 1 ELSE 1
              d == IF s < n THEN s + 1 ELSE n
  <2>1. n \in Nat /\ s \in 0 .. n + 1
    BY <1>1
  <2>2. u \in 0 .. n + 1 /\ d \in 0 .. n + 1
    <3>. HIDE DEF s, n
    <3>. QED
      BY <2>1
  <2>3. pp = [acPopup EXCEPT !.selected = u] \/ pp = [acPopup EXCEPT !.selected = d]
    BY DEF Ac!MovedUp, Ac!MovedDown
  <2>. HIDE DEF u, d
  <2>. QED
    <3>1. CASE pp = [acPopup EXCEPT !.selected = u]
      BY <1>4, <2>2, <3>1
    <3>2. CASE pp = [acPopup EXCEPT !.selected = d]
      BY <1>4, <2>2, <3>2
    <3>. QED
      BY <2>3, <3>1, <3>2
<1>6. ASSUME NEW i \in DOMAIN acPopup.items
      PROVE  PopupTyped([acPopup EXCEPT !.selected = i]) /\ [acPopup EXCEPT !.selected = i].pane = acPopup.pane
  <2>1. i \in 0 .. Len(acPopup.items) + 1
    BY <1>1
  <2>. QED
    BY <1>4, <2>1
<1>7. ASSUME NEW p \in AcPane, NEW items \in Seq(Ac!Kinds), items # <<>>
      PROVE  PopupTyped([pane |-> p, items |-> items, selected |-> 1])
  BY <1>7, CompletionAssumption DEF PopupTyped, AcPopups
<1>. QED
  BY <1>2, <1>3, <1>5, <1>6, <1>7

\* Every step of the completion keeps Enter for what was picked.
LEMMA CompletionStep ==
  ASSUME CompletionInv, CompletionNext
  PROVE  CompletionInv'
<1>1. /\ acLine \in [AcPane -> AcLines] /\ acRunning \in [AcPane -> BOOLEAN]
      /\ acComposing \in [AcPane -> BOOLEAN] /\ acNavigated \in [AcPane -> BOOLEAN]
      /\ acTimer \subseteq AcPane /\ (\A q \in acQueries : q.pane \in AcPane /\ q.input \in AcLines)
      /\ acArrows \in BOOLEAN /\ acFocus \in AcPane \ acGone /\ acGone \subseteq AcPane
      /\ acKeys \in 0 .. MaxAcKeys /\ MaxAcKeys \in Nat
      /\ PopupTyped(acPopup) /\ PickedIn(acPopup, acNavigated, acArrows)
  BY CompletionAssumption DEF CompletionInv, Ac!AcTypeOK, AcLines
\* The types, one by one.
<1>k. ASSUME acLine' \in [AcPane -> AcLines], acRunning' \in [AcPane -> BOOLEAN],
             acComposing' \in [AcPane -> BOOLEAN], acNavigated' \in [AcPane -> BOOLEAN],
             acTimer' \subseteq AcPane, \A q \in acQueries' : q.pane \in AcPane /\ q.input \in AcLines,
             acArrows' \in BOOLEAN, acFocus' \in AcPane \ acGone', acGone' \subseteq AcPane,
             acKeys' \in 0 .. MaxAcKeys,
             PopupTyped(acPopup'), PickedIn(acPopup', acNavigated', acArrows')
      PROVE  CompletionInv'
  <2>1. /\ acPopup'.pane \in AcPane \cup {NoPane} /\ acPopup'.items \in Seq(Ac!Kinds)
        /\ acPopup'.selected \in 0 .. Len(acPopup'.items) + 1
        /\ acPopup'.pane = NoPane <=> acPopup'.items = <<>>
    BY <1>k DEF PopupTyped, AcPopups
  <2>. QED
    BY <1>k, <2>1 DEF CompletionInv, Ac!AcTypeOK, AcLines
<1>p. /\ PopupTyped(Ac!Closed)
      /\ \A nav, arrows : PickedIn(Ac!Closed, nav, arrows)
      /\ \A pp \in {Ac!MovedUp, Ac!MovedDown} : PopupTyped(pp) /\ pp.pane = acPopup.pane
  BY PopupMoves
<1>d. ASSUME Ac!Dismiss
      PROVE  /\ PopupTyped(acPopup') /\ acArrows' \in BOOLEAN
             /\ PickedIn(acPopup', acNavigated', acArrows')
  BY <1>1, <1>d, <1>p DEF Ac!Dismiss
<1>l. \A p \in AcPane, l \in AcLines : [acLine EXCEPT ![p] = l] \in [AcPane -> AcLines]
  BY <1>1
<1>m. /\ <<>> \in AcLines
      /\ \A p \in AcPane : Append(acLine[p], "c") \in AcLines
      /\ \A p \in AcPane, c \in Ac!Chars : Append(acLine[p], c) \in AcLines
      /\ \A p \in AcPane : acLine[p] # <<>> => Ac!Front(acLine[p]) \in AcLines
  <2>1. \A l \in AcLines, c \in Ac!Chars : Append(l, c) \in AcLines
    BY DEF AcLines
  <2>2. \A l \in AcLines : l # <<>> => Ac!Front(l) \in AcLines
    <3>. SUFFICES ASSUME NEW l \in Seq(Ac!Chars), l # <<>> PROVE SubSeq(l, 1, Len(l) - 1) \in Seq(Ac!Chars)
      BY DEF AcLines, Ac!Front
    <3>. QED
      OBVIOUS
  <2>3. <<>> \in AcLines /\ "c" \in Ac!Chars
    BY DEF AcLines, Ac!Chars
  <2>. QED
    BY <1>1, <2>1, <2>2, <2>3
<1>t. ASSUME NEW p \in AcPane, Ac!Trigger(p) PROVE acTimer' \subseteq AcPane
  BY <1>1, <1>t DEF Ac!Trigger
<1>y. ASSUME NEW p \in AcPane, Ac!Key(p) PROVE acKeys' \in 0 .. MaxAcKeys
  BY <1>1, <1>y DEF Ac!Key
<1>a. CASE UNCHANGED acVars
  BY <1>1, <1>a, <1>k DEF acVars
<1>b. ASSUME NEW p \in AcPane, NEW c \in Ac!Chars, Ac!Type(p, c) PROVE CompletionInv'
  <2>1. acLine' \in [AcPane -> AcLines] /\ acTimer' \subseteq AcPane
    <3>1. CASE acRunning[p]
      BY <1>1, <1>b, <3>1 DEF Ac!Type
    <3>2. CASE ~acRunning[p]
      <4>1. acLine' = [acLine EXCEPT ![p] = Append(acLine[p], c)] /\ Ac!Trigger(p)
        BY <1>b, <3>2 DEF Ac!Type
      <4>. QED
        BY <1>l, <1>m, <1>t, <4>1
    <3>. QED
      BY <3>1, <3>2
  <2>. QED
    BY <1>1, <1>b, <1>k, <1>y, <2>1 DEF Ac!Type, Ac!Shell
<1>c. ASSUME NEW p \in AcPane, Ac!Backspace(p) PROVE CompletionInv'
  <2>1. acLine' = [acLine EXCEPT ![p] = IF acLine[p] = <<>> THEN acLine[p] ELSE Ac!Front(acLine[p])]
    BY <1>c DEF Ac!Backspace
  <2>2. (IF acLine[p] = <<>> THEN acLine[p] ELSE Ac!Front(acLine[p])) \in AcLines
    BY <1>1, <1>m
  <2>3. acLine' \in [AcPane -> AcLines]
    BY <1>l, <2>1, <2>2
  <2>. QED
    BY <1>1, <1>c, <1>k, <1>t, <1>y, <2>3 DEF Ac!Backspace, Ac!Shell
<1>e. ASSUME NEW p \in AcPane, Ac!CtrlC(p) PROVE CompletionInv'
  BY <1>1, <1>d, <1>e, <1>k, <1>l, <1>m, <1>y DEF Ac!CtrlC, Ac!Shell
<1>f. ASSUME NEW p \in AcPane, Ac!Enter(p) PROVE CompletionInv'
  <2>1. acLine' = [acLine EXCEPT ![p] = <<>>] /\ Ac!Dismiss /\ acNavigated' \in [AcPane -> BOOLEAN]
    BY <1>1, <1>f DEF Ac!Enter, Ac!EnterLocal, Ac!EnterRemote
  <2>. QED
    BY <1>1, <1>d, <1>f, <1>k, <1>l, <1>m, <1>y, <2>1 DEF Ac!Enter, Ac!Shell
<1>g. ASSUME NEW p \in AcPane, NEW kind, Ac!AcceptInto(p, acLine[p], kind)
      PROVE  acLine' \in [AcPane -> AcLines] /\ Ac!Dismiss
  <2>1. acLine' = [acLine EXCEPT ![p] = Ac!Accepted(acLine[p], kind)] /\ Ac!Dismiss
    BY <1>g DEF Ac!AcceptInto
  <2>2. Ac!Accepted(acLine[p], kind) \in AcLines
    BY <1>1, AcceptedIs
  <2>. QED
    BY <1>l, <2>1, <2>2
<1>h. ASSUME NEW p \in AcPane, Ac!TakeLocal(p) \/ Ac!TakeRemote(p) PROVE CompletionInv'
  <2>1. Ac!AcceptInto(p, acLine[p], Ac!Selected) /\ Ac!Key(p) /\ Ac!Shell /\ UNCHANGED <<acNavigated, acTimer>>
    BY <1>h DEF Ac!TakeLocal, Ac!TakeRemote
  <2>. QED
    BY <1>1, <1>d, <1>g, <1>k, <1>y, <2>1 DEF Ac!Shell
<1>i. ASSUME NEW p \in AcPane, Ac!ArrowLocal(p) \/ Ac!ArrowRemote(p) PROVE CompletionInv'
  <2>1. /\ acPopup' \in {Ac!MovedUp, Ac!MovedDown} /\ acArrows' = TRUE /\ acNavigated' \in [AcPane -> BOOLEAN]
        /\ Ac!Key(p) /\ Ac!Shell /\ UNCHANGED <<acLine, acTimer>>
    BY <1>1, <1>i DEF Ac!ArrowLocal, Ac!ArrowRemote
  <2>2. PopupTyped(acPopup') /\ PickedIn(acPopup', acNavigated', acArrows')
    BY <1>p, <2>1 DEF PickedIn
  <2>. QED
    BY <1>1, <1>k, <1>y, <2>1, <2>2 DEF Ac!Shell
<1>j. ASSUME NEW p \in AcPane, Ac!Escape(p) PROVE CompletionInv'
  BY <1>1, <1>d, <1>j, <1>k, <1>y DEF Ac!Escape, Ac!Shell
<1>n. ASSUME NEW i \in DOMAIN acPopup.items, Ac!Hover(i) PROVE CompletionInv'
  <2>1. acPopup' = [acPopup EXCEPT !.selected = i]
        /\ UNCHANGED <<acLine, acRunning, acComposing, acNavigated, acTimer, acQueries,
                       acArrows, acFocus, acGone, acKeys>>
    BY <1>n DEF Ac!Hover
  <2>2. PopupTyped(acPopup') /\ acPopup'.pane = acPopup.pane
    BY <2>1, PopupMoves
  <2>3. PickedIn(acPopup', acNavigated', acArrows')
    BY <1>1, <2>1, <2>2 DEF PickedIn
  <2>. QED
    BY <1>1, <1>k, <2>1, <2>2, <2>3
<1>o. ASSUME NEW i \in DOMAIN acPopup.items, Ac!Click(i) PROVE CompletionInv'
  <2>1. acPopup.pane \in AcPane
    BY <1>1 DEF PopupTyped, AcPopups
  <2>2. acKeys' \in 0 .. MaxAcKeys
    BY <1>1, <1>o DEF Ac!Click
  <2>. QED
    BY <1>1, <1>d, <1>g, <1>k, <1>o, <2>1, <2>2 DEF Ac!Click
<1>q. ASSUME NEW p \in AcPane, Ac!Broadcast(p) PROVE CompletionInv'
  <2>1. acLine' \in [AcPane -> AcLines] /\ acKeys' \in 0 .. MaxAcKeys
    <3>1. PICK l \in AcLines : acLine' = [acLine EXCEPT ![p] = l]
      BY <1>m, <1>q DEF Ac!Broadcast
    <3>. QED
      BY <1>1, <1>l, <1>q, <3>1 DEF Ac!Broadcast
  <2>. QED
    BY <1>1, <1>k, <1>q, <2>1 DEF Ac!Broadcast, Ac!Shell
<1>r. ASSUME NEW p \in AcPane \ acGone, Ac!FocusPane(p) PROVE CompletionInv'
  BY <1>1, <1>k, <1>r DEF Ac!FocusPane
<1>s. ASSUME NEW p \in AcPane, Ac!ComposeStart(p) \/ Ac!ComposeEnd(p) PROVE CompletionInv'
  <2>1. acComposing' \in [AcPane -> BOOLEAN] /\ acTimer' \subseteq AcPane
    BY <1>1, <1>s DEF Ac!ComposeStart, Ac!ComposeEnd
  <2>. QED
    BY <1>1, <1>d, <1>k, <1>s, <1>y, <2>1 DEF Ac!ComposeStart, Ac!ComposeEnd
<1>u. ASSUME NEW p \in AcPane, Ac!ComposeInput(p) PROVE CompletionInv'
  <2>1. acLine' \in [AcPane -> AcLines]
    BY <1>l, <1>m, <1>u DEF Ac!ComposeInput
  <2>. QED
    BY <1>1, <1>k, <1>t, <1>u, <1>y, <2>1 DEF Ac!ComposeInput, Ac!Shell
<1>v. ASSUME NEW p \in AcPane, Ac!TimerFires(p) PROVE CompletionInv'
  <2>1. /\ acTimer' = acTimer \ {p}
        /\ UNCHANGED <<acLine, acRunning, acComposing, acNavigated, acFocus, acGone, acKeys>>
        /\ \/ UNCHANGED <<acQueries, acPopup, acArrows>>
           \/ Ac!Dismiss /\ UNCHANGED acQueries
           \/ /\ acQueries' = acQueries \cup {[pane |-> p, input |-> acLine[p]]}
              /\ UNCHANGED <<acPopup, acArrows>>
    BY <1>v DEF Ac!TimerFires
  <2>2. \A q \in acQueries' : q.pane \in AcPane /\ q.input \in AcLines
    BY <1>1, <2>1
  <2>3. PopupTyped(acPopup') /\ acArrows' \in BOOLEAN /\ PickedIn(acPopup', acNavigated', acArrows')
    BY <1>1, <1>d, <2>1
  <2>. QED
    BY <1>1, <1>k, <2>1, <2>2, <2>3
<1>w. ASSUME NEW q \in acQueries, Ac!Answer(q) PROVE CompletionInv'
  <2>1. /\ acQueries' = acQueries \ {q}
        /\ UNCHANGED <<acLine, acRunning, acComposing, acTimer, acFocus, acGone, acKeys>>
    BY <1>w DEF Ac!Answer
  <2>2. \/ UNCHANGED <<acPopup, acArrows, acNavigated>>
        \/ Ac!Dismiss /\ UNCHANGED acNavigated
        \/ \E items \in Ac!Completions(q.input) : items # <<>> /\ Ac!Fill(q.pane, items)
    BY <1>w DEF Ac!Answer
  <2>3. /\ PopupTyped(acPopup') /\ acArrows' \in BOOLEAN /\ acNavigated' \in [AcPane -> BOOLEAN]
        /\ PickedIn(acPopup', acNavigated', acArrows')
    <3>1. ASSUME NEW items \in Ac!Completions(q.input), items # <<>>, Ac!Fill(q.pane, items)
          PROVE  /\ PopupTyped(acPopup') /\ acArrows' \in BOOLEAN /\ acNavigated' \in [AcPane -> BOOLEAN]
                 /\ PickedIn(acPopup', acNavigated', acArrows')
      <4>1. q.pane \in AcPane /\ items \in Seq(Ac!Kinds)
        BY <1>1, CompletionsAreItems
      <4>2. /\ acPopup' = [pane |-> q.pane, items |-> items, selected |-> 1] /\ acArrows' = FALSE
            /\ IF q.pane \in Remote THEN UNCHANGED acNavigated
               ELSE acNavigated' = [acNavigated EXCEPT ![q.pane] = FALSE]
        BY <3>1 DEF Ac!Fill, Ac!FillLocal, Ac!FillRemote, Ac!Show
      <4>3. PopupTyped(acPopup')
        BY <3>1, <4>1, <4>2, PopupMoves
      <4>4. acPopup'.pane = q.pane
        BY <4>2
      <4>. QED
        BY <1>1, <4>1, <4>2, <4>3, <4>4 DEF PickedIn
    <3>. QED
      BY <1>1, <1>d, <2>2, <3>1
  <2>. QED
    BY <1>1, <1>k, <2>1, <2>3
<1>x. ASSUME NEW p \in AcPane, Ac!Mark(p) PROVE CompletionInv'
  <2>1. /\ acLine' \in [AcPane -> AcLines] /\ acRunning' \in [AcPane -> BOOLEAN] /\ Ac!Dismiss
        /\ UNCHANGED <<acComposing, acNavigated, acTimer, acQueries, acFocus, acGone, acKeys>>
    <3>1. CASE Ac!MarkA(p)
      BY <1>1, <1>l, <1>m, <1>x, <3>1 DEF Ac!Mark, Ac!MarkA
    <3>2. CASE Ac!MarkC(p)
      BY <1>1, <1>x, <3>2 DEF Ac!Mark, Ac!MarkC
    <3>. QED
      BY <1>x, <3>1, <3>2 DEF Ac!Mark
  <2>. QED
    BY <1>1, <1>d, <1>k, <2>1
<1>z. ASSUME NEW p \in AcPane, Ac!Leave(p) PROVE CompletionInv'
  <2>1. /\ acGone' = {p} /\ acTimer' = acTimer \ {p} /\ acFocus' \in AcPane \ {p}
        /\ UNCHANGED <<acLine, acRunning, acComposing, acNavigated, acQueries, acKeys>>
        /\ Ac!Dismiss \/ UNCHANGED <<acPopup, acArrows>>
    BY <1>z DEF Ac!Leave
  <2>. QED
    BY <1>1, <1>d, <1>k, <2>1
<1>. QED
  BY <1>a, <1>b, <1>c, <1>e, <1>f, <1>h, <1>i, <1>j, <1>n, <1>o, <1>q, <1>r, <1>s, <1>u, <1>v, <1>w, <1>x, <1>z
     DEF CompletionNext, Ac!AcNext

\* No pane has a popup at first.
LEMMA CompletionBegins ==
  ASSUME Ac!AcInit
  PROVE  CompletionInv
<1>1. /\ PopupTyped(Ac!Closed) /\ Ac!Closed.pane = NoPane /\ Ac!Closed.items = <<>> /\ Ac!Closed.selected = 1
  <2>1. <<>> \in Seq(Ac!Kinds) /\ Len(<<>>) = 0
    OBVIOUS
  <2>. QED
    BY <2>1 DEF PopupTyped, AcPopups, Ac!Closed
<1>2. acPopup = Ac!Closed /\ acFocus \in AcPane /\ acGone = {} /\ acKeys = 0 /\ acQueries = {} /\ acTimer = {}
      /\ acArrows = FALSE
  BY DEF Ac!AcInit
<1>3. /\ acLine \in [AcPane -> Seq(Ac!Chars)] /\ acRunning \in [AcPane -> BOOLEAN]
      /\ acComposing \in [AcPane -> BOOLEAN] /\ acNavigated \in [AcPane -> BOOLEAN]
  BY DEF Ac!AcInit
<1>4. /\ acPopup.pane \in AcPane \cup {NoPane} /\ acPopup.items \in Seq(Ac!Kinds)
      /\ acPopup.selected \in 0 .. Len(acPopup.items) + 1
      /\ acPopup.pane = NoPane <=> acPopup.items = <<>>
  BY <1>1, <1>2 DEF PopupTyped, AcPopups
<1>5. acKeys \in 0 .. MaxAcKeys
  BY <1>2, CompletionAssumption
<1>6. PickedIn(acPopup, acNavigated, acArrows)
  BY <1>1, <1>2, CompletionAssumption DEF PickedIn
<1>. QED
  BY <1>1, <1>2, <1>3, <1>4, <1>5, <1>6 DEF CompletionInv, Ac!AcTypeOK
\* f holds what the first 1, 2 .. n sequences of ss are one after another: sequences of T.
Flattens(f, ss, n) == \A i \in 1 .. n : f[i] = IF i = 1 THEN ss[i] ELSE f[i - 1] \o ss[i]

AreFlat(T, f, ss, n) == f \in [1 .. n -> Seq(T)] /\ Flattens(f, ss, n)

\* There is such a function.
LEMMA FlatExists ==
  ASSUME NEW T, NEW ss \in Seq(Seq(T))
  PROVE  \E f : AreFlat(T, f, ss, Len(ss))
<1>. DEFINE Bad == {k \in 0 .. Len(ss) : ~ \E f : AreFlat(T, f, ss, k)}
<1>. SUFFICES ASSUME Bad # {} PROVE FALSE
  <2>. SUFFICES ASSUME ~ \E f : AreFlat(T, f, ss, Len(ss)) PROVE Bad # {}
    OBVIOUS
  <2>1. Len(ss) \in Bad
    OBVIOUS
  <2>. QED
    BY <2>1, Zenon
<1>0. Bad \in SUBSET Nat
  OBVIOUS
<1>1. PICK k \in Bad : \A m \in Bad : k <= m
  <2>. HIDE DEF Bad
  <2>. QED
    BY <1>0, LeastNumber
<1>2. k # 0
  <2>1. AreFlat(T, [i \in 1 .. 0 |-> <<>>], ss, 0)
    BY DEF AreFlat, Flattens
  <2>. QED
    BY <2>1
<1>3. PICK f : AreFlat(T, f, ss, k - 1)
  <2>0. k \in 0 .. Len(ss)
    BY <1>1
  <2>1. k - 1 \in 0 .. Len(ss) /\ k - 1 \notin Bad
    <3>. HIDE DEF Bad
    <3>. QED
      BY <1>1, <1>2, <2>0
  <2>. QED
    BY <2>1, Zenon
<1>. DEFINE x == IF k = 1 THEN ss[k] ELSE f[k - 1] \o ss[k]
<1>4. x \in Seq(T)
  <2>1. ss[k] \in Seq(T) /\ (k # 1 => f[k - 1] \in Seq(T))
    BY <1>1, <1>2, <1>3 DEF AreFlat, Flattens
  <2>. QED
    BY <2>1
<1>. HIDE DEF x
<1>. DEFINE h == [i \in 1 .. k |-> IF i = k THEN x ELSE f[i]]
<1>5. AreFlat(T, h, ss, k)
  <2>1. k \in Nat /\ k >= 1
    BY <1>1, <1>2
  <2>2. \A i \in 1 .. k : i # k => i \in 1 .. k - 1
    BY <2>1
  <2>3. \A i \in 1 .. k - 1 : f[i] \in Seq(T) /\ f[i] = IF i = 1 THEN ss[i] ELSE f[i - 1] \o ss[i]
    BY <1>3 DEF AreFlat, Flattens
  <2>4. h \in [1 .. k -> Seq(T)]
    BY <1>4, <2>2, <2>3
  <2>5. h[k] = x /\ \A i \in 1 .. k - 1 : h[i] = f[i]
    BY <2>1
  <2>6. ASSUME NEW i \in 1 .. k
        PROVE  h[i] = IF i = 1 THEN ss[i] ELSE h[i - 1] \o ss[i]
    <3>1. i # 1 => h[i - 1] = f[i - 1]
      BY <2>1, <2>5
    <3>. HIDE DEF h
    <3>2. CASE i = k
      BY <2>5, <3>1, <3>2 DEF x
    <3>3. CASE i # k
      <4>1. i \in 1 .. k - 1
        BY <2>2, <3>3
      <4>2. h[i] = f[i] /\ f[i] = IF i = 1 THEN ss[i] ELSE f[i - 1] \o ss[i]
        BY <2>3, <2>5, <4>1
      <4>. QED
        BY <3>1, <4>2
    <3>. QED
      BY <3>2, <3>3
  <2>. HIDE DEF h
  <2>. QED
    BY <2>4, <2>6 DEF AreFlat, Flattens
<1>. QED
  BY <1>1, <1>5

\* It depends on nothing but the sequences up to there.
LEMMA FlatIsOne ==
  ASSUME NEW n \in Nat, NEW f, NEW g, NEW ss, NEW tt, \A i \in 1 .. n : ss[i] = tt[i],
         Flattens(f, ss, n), Flattens(g, tt, n)
  PROVE  \A i \in 1 .. n : f[i] = g[i]
<1>. DEFINE Bad == {i \in 1 .. n : f[i] # g[i]}
<1>. SUFFICES ASSUME Bad # {} PROVE FALSE
  OBVIOUS
<1>0. Bad \in SUBSET Nat
  OBVIOUS
<1>1. PICK k \in Bad : \A m \in Bad : k <= m
  <2>. HIDE DEF Bad
  <2>. QED
    BY <1>0, LeastNumber
<1>2. k = 1 \/ (k - 1 \in 1 .. n /\ k - 1 \notin Bad)
  BY <1>1
<1>3. k \in 1 .. n /\ f[k] # g[k] /\ (k # 1 => f[k - 1] = g[k - 1])
  BY <1>1, <1>2
<1>4. /\ f[k] = IF k = 1 THEN ss[k] ELSE f[k - 1] \o ss[k]
      /\ g[k] = IF k = 1 THEN tt[k] ELSE g[k - 1] \o tt[k]
  BY <1>3, Zenon DEF Flattens
<1>5. ss[k] = tt[k]
  BY <1>3
<1>. QED
  BY <1>3, <1>4, <1>5

\* Flattened sequences are the last of these.
LEMMA FlatIs ==
  ASSUME NEW T, NEW ss \in Seq(Seq(T)), ss # <<>>
  PROVE  \E f : AreFlat(T, f, ss, Len(ss)) /\ Wi!FlattenSeq(ss) = f[Len(ss)]
<1>1. PICK f : AreFlat(T, f, ss, Len(ss))
  BY FlatExists
<1>2. f = [i \in 1 .. Len(ss) |-> IF i = 1 THEN ss[i] ELSE f[i - 1] \o ss[i]]
  BY <1>1 DEF AreFlat, Flattens
<1>. DEFINE F == CHOOSE g : g = [i \in 1 .. Len(ss) |-> IF i = 1 THEN ss[i] ELSE g[i - 1] \o ss[i]]
<1>3. F = [i \in 1 .. Len(ss) |-> IF i = 1 THEN ss[i] ELSE F[i - 1] \o ss[i]]
  BY <1>2, Zenon
<1>. HIDE DEF F
<1>4. Len(ss) # 0
  OBVIOUS
<1>5. Wi!FlattenSeq(ss) = F[Len(ss)]
  BY <1>4, Zenon DEF Wi!FlattenSeq, F
<1>6. \A i \in 1 .. Len(ss) : F[i] = IF i = 1 THEN ss[i] ELSE F[i - 1] \o ss[i]
  BY <1>3
<1>7. \A i \in 1 .. Len(ss) : F[i] \in Seq(T)
  <2>. DEFINE Bad == {i \in 1 .. Len(ss) : F[i] \notin Seq(T)}
  <2>. SUFFICES ASSUME Bad # {} PROVE FALSE
    OBVIOUS
  <2>0. Bad \in SUBSET Nat
    OBVIOUS
  <2>1. PICK k \in Bad : \A m \in Bad : k <= m
    <3>. HIDE DEF Bad
    <3>. QED
      BY <2>0, LeastNumber
  <2>2. k = 1 \/ (k - 1 \in 1 .. Len(ss) /\ k - 1 \notin Bad)
    BY <2>1
  <2>3. ss[k] \in Seq(T) /\ (k # 1 => F[k - 1] \in Seq(T))
    BY <2>1, <2>2
  <2>4. F[k] = IF k = 1 THEN ss[k] ELSE F[k - 1] \o ss[k]
    BY <1>6, <2>1
  <2>5. F[k] \in Seq(T)
    <3>1. CASE k = 1
      BY <2>3, <2>4, <3>1
    <3>2. CASE k # 1
      <4>1. F[k - 1] \o ss[k] \in Seq(T)
        BY <2>3, <3>2
      <4>. QED
        BY <2>4, <3>2, <4>1
    <3>. QED
      BY <3>1, <3>2
  <2>. QED
    BY <2>1, <2>5
<1>8. AreFlat(T, F, ss, Len(ss))
  BY <1>3, <1>6, <1>7 DEF AreFlat, Flattens
<1>. QED
  BY <1>5, <1>8

\* One more element at the end of a sequence.
LEMMA AppendIs ==
  ASSUME NEW U, NEW s \in Seq(U), NEW b \in U
  PROVE  /\ Append(s, b) \in Seq(U) /\ Append(s, b) # <<>> /\ Len(s) \in Nat
         /\ Len(Append(s, b)) = Len(s) + 1 /\ Append(s, b)[Len(s) + 1] = b
         /\ \A i \in 1 .. Len(s) : Append(s, b)[i] = s[i]
  OBVIOUS

\* No sequences are flattened to nothing.
LEMMA FlatBegins == Wi!FlattenSeq(<<>>) = <<>>
  BY DEF Wi!FlattenSeq

\* Sequences flattened are a sequence.
LEMMA FlatSequence ==
  ASSUME NEW T, NEW ss \in Seq(Seq(T))
  PROVE  Wi!FlattenSeq(ss) \in Seq(T)
<1>1. CASE ss = <<>>
  <2>1. <<>> \in Seq(T)
    OBVIOUS
  <2>. QED
    BY <1>1, <2>1, FlatBegins
<1>2. CASE ss # <<>>
  <2>1. PICK f : AreFlat(T, f, ss, Len(ss)) /\ Wi!FlattenSeq(ss) = f[Len(ss)]
    BY <1>2, FlatIs
  <2>2. Len(ss) \in 1 .. Len(ss)
    BY <1>2
  <2>. QED
    BY <2>1, <2>2 DEF AreFlat, Flattens
<1>. QED
  BY <1>1, <1>2

\* One sequence more is put at the end.
LEMMA FlatGrows ==
  ASSUME NEW T, NEW ss \in Seq(Seq(T)), NEW b \in Seq(T)
  PROVE  Wi!FlattenSeq(Append(ss, b)) = Wi!FlattenSeq(ss) \o b
<1>. DEFINE n == Len(ss)
            tt == Append(ss, b)
<1>1. tt \in Seq(Seq(T)) /\ tt # <<>> /\ Len(tt) = n + 1 /\ n \in Nat /\ tt[n + 1] = b
      /\ \A i \in 1 .. n : tt[i] = ss[i]
  BY AppendIs
<1>. HIDE DEF tt, n
<1>2. PICK g : AreFlat(T, g, tt, Len(tt)) /\ Wi!FlattenSeq(tt) = g[Len(tt)]
  BY <1>1, FlatIs
<1>3. Wi!FlattenSeq(tt) = IF n = 0 THEN b ELSE g[n] \o b
  <2>1. n + 1 \in 1 .. Len(tt) /\ (n + 1 = 1 <=> n = 0) /\ (n + 1) - 1 = n
    BY <1>1
  <2>2. g[n + 1] = IF n + 1 = 1 THEN tt[n + 1] ELSE g[(n + 1) - 1] \o tt[n + 1]
    BY <1>2, <2>1, Zenon DEF AreFlat, Flattens
  <2>. QED
    BY <1>1, <1>2, <2>1, <2>2
<1>4. CASE n = 0
  <2>1. ss = <<>> /\ <<>> \o b = b
    BY <1>4 DEF n
  <2>. QED
    BY <1>3, <1>4, <2>1, FlatBegins DEF tt
<1>5. CASE n # 0
  <2>1. PICK f : AreFlat(T, f, ss, n) /\ Wi!FlattenSeq(ss) = f[n]
    BY <1>5, FlatIs DEF n
  <2>2. Flattens(f, ss, n)
    BY <2>1 DEF AreFlat
  <2>3. Flattens(g, tt, n)
    <3>1. \A i \in 1 .. n + 1 : g[i] = IF i = 1 THEN tt[i] ELSE g[i - 1] \o tt[i]
      BY <1>1, <1>2, Zenon DEF AreFlat, Flattens
    <3>2. \A i \in 1 .. n : i \in 1 .. n + 1
      BY <1>1
    <3>. QED
      BY <3>1, <3>2, Zenon DEF Flattens
  <2>4. \A i \in 1 .. n : f[i] = g[i]
    <3>1. n \in Nat /\ \A i \in 1 .. n : ss[i] = tt[i]
      BY <1>1
    <3>. QED
      BY <2>2, <2>3, <3>1, FlatIsOne
  <2>. QED
    <3>1. f[n] = g[n]
      <4>1. n \in 1 .. n
        BY <1>1, <1>5
      <4>. QED
        BY <2>4, <4>1
    <3>. QED
      BY <1>3, <1>5, <2>1, <3>1 DEF tt
<1>. QED
  BY <1>4, <1>5

Flat(ss) == Wi!FlattenSeq(ss)
Part(ss, i) == IF i <= Len(ss) THEN ss[i] ELSE <<>>

\* Texts are joined in any order, and with no text.
LEMMA Joined ==
  ASSUME NEW T
  PROVE  /\ <<>> \in Seq(T)
         /\ \A a \in Seq(T) : a \o <<>> = a /\ <<>> \o a = a
         /\ \A a, b \in Seq(T) : a \o b \in Seq(T)
         /\ \A a, b, c \in Seq(T) : (a \o b) \o c = a \o (b \o c)
  BY ConcatProperties, ConcatAssociative, ConcatEmptySeq

\* Three sequences at most are flattened by joining them.
LEMMA FlatOfThree ==
  ASSUME NEW T, NEW ss \in Seq(Seq(T)), Len(ss) <= 3
  PROVE  /\ Flat(ss) = (Part(ss, 1) \o Part(ss, 2)) \o Part(ss, 3)
         /\ Part(ss, 1) \in Seq(T) /\ Part(ss, 2) \in Seq(T) /\ Part(ss, 3) \in Seq(T)
<1>0. Len(ss) \in Nat /\ \A i \in 1 .. Len(ss) : ss[i] \in Seq(T)
  OBVIOUS
<1>1. <<>> \in Seq(T) /\ \A s \in Seq(T) : s \o <<>> = s
  BY ConcatEmptySeq
<1>2. Part(ss, 1) \in Seq(T) /\ Part(ss, 2) \in Seq(T) /\ Part(ss, 3) \in Seq(T)
  BY <1>0, <1>1 DEF Part
<1>3. CASE Len(ss) = 0
  <2>1. ss = <<>>
    BY <1>3, EmptySeq
  <2>2. Part(ss, 1) = <<>> /\ Part(ss, 2) = <<>> /\ Part(ss, 3) = <<>>
    BY <1>3 DEF Part
  <2>3. Flat(ss) = <<>>
    BY <2>1, FlatBegins DEF Flat
  <2>. QED
    BY <1>1, <1>2, <2>2, <2>3
<1>4. CASE Len(ss) # 0
  <2>0. ss # <<>>
    BY <1>4
  <2>1. PICK f : AreFlat(T, f, ss, Len(ss)) /\ Wi!FlattenSeq(ss) = f[Len(ss)]
    BY <2>0, FlatIs
  <2>2. \A i \in 1 .. Len(ss) : f[i] = IF i = 1 THEN ss[i] ELSE f[i - 1] \o ss[i]
    BY <2>1 DEF AreFlat, Flattens
  <2>3. f[1] = ss[1] /\ (Len(ss) >= 2 => f[2] = ss[1] \o ss[2]) /\ (Len(ss) >= 3 => f[3] = (ss[1] \o ss[2]) \o ss[3])
    <3>1. f[1] = ss[1]
      BY <1>0, <1>4, <2>2
    <3>2. ASSUME NEW i \in 2 .. 3, Len(ss) >= i PROVE f[i] = f[i - 1] \o ss[i]
      <4>1. i \in 1 .. Len(ss) /\ i # 1
        BY <1>0, <3>2
      <4>2. f[i] = IF i = 1 THEN ss[i] ELSE f[i - 1] \o ss[i]
        BY <2>2, <4>1
      <4>. QED
        BY <4>1, <4>2
    <3>3. 2 \in 2 .. 3 /\ 3 \in 2 .. 3 /\ 2 - 1 = 1 /\ 3 - 1 = 2 /\ (Len(ss) >= 3 => Len(ss) >= 2)
      BY <1>0
    <3>4. Len(ss) >= 2 => f[2] = f[1] \o ss[2]
      BY <3>2, <3>3
    <3>5. Len(ss) >= 3 => f[3] = f[2] \o ss[3]
      BY <3>2, <3>3
    <3>. QED
      BY <3>1, <3>3, <3>4, <3>5
  <2>4. CASE Len(ss) = 1
    <3>1. Part(ss, 1) = ss[1] /\ Part(ss, 2) = <<>> /\ Part(ss, 3) = <<>>
      BY <2>4 DEF Part
    <3>. QED
      BY <1>1, <1>2, <2>1, <2>3, <2>4, <3>1 DEF Flat
  <2>5. CASE Len(ss) = 2
    <3>1. Part(ss, 1) = ss[1] /\ Part(ss, 2) = ss[2] /\ Part(ss, 3) = <<>>
      BY <2>5 DEF Part
    <3>2. ss[1] \o ss[2] \in Seq(T)
      BY <1>2, <3>1, ConcatProperties
    <3>. QED
      BY <1>1, <1>2, <2>1, <2>3, <2>5, <3>1, <3>2 DEF Flat
  <2>6. CASE Len(ss) = 3
    <3>1. Part(ss, 1) = ss[1] /\ Part(ss, 2) = ss[2] /\ Part(ss, 3) = ss[3]
      BY <2>6 DEF Part
    <3>. QED
      BY <1>2, <2>1, <2>3, <2>6, <3>1 DEF Flat
  <2>7. Len(ss) = 1 \/ Len(ss) = 2 \/ Len(ss) = 3
    <3>1. \A n \in Nat : n <= 3 /\ n # 0 => n = 1 \/ n = 2 \/ n = 3
      OBVIOUS
    <3>. QED
      BY <1>0, <1>4, <3>1
  <2>. QED
    BY <2>4, <2>5, <2>6, <2>7
<1>. QED
  BY <1>2, <1>3, <1>4

\* The first of three at most is taken away.
LEMMA FlatTakes ==
  ASSUME NEW T, NEW ss \in Seq(Seq(T)), Len(ss) <= 3, ss # <<>>
  PROVE  Head(ss) \in Seq(T) /\ Flat(Tail(ss)) \in Seq(T) /\ Flat(ss) = Head(ss) \o Flat(Tail(ss))
<1>. DEFINE tt == Tail(ss)
<1>1. /\ tt \in Seq(Seq(T)) /\ Len(ss) \in Nat \ {0} /\ Len(tt) = Len(ss) - 1 /\ Head(ss) = ss[1]
      /\ \A i \in 1 .. Len(tt) : tt[i] = ss[i + 1]
  OBVIOUS
<1>. HIDE DEF tt
<1>2. Part(ss, 1) = Head(ss) /\ Part(ss, 2) = Part(tt, 1) /\ Part(ss, 3) = Part(tt, 2) /\ Part(tt, 3) = <<>>
  BY <1>1 DEF Part
<1>. DEFINE a == Part(ss, 1)
            b == Part(ss, 2)
            c == Part(ss, 3)
<1>3. a \in Seq(T) /\ b \in Seq(T) /\ c \in Seq(T) /\ Flat(ss) = (a \o b) \o c
  BY FlatOfThree
<1>4. Flat(tt) = (b \o c) \o <<>>
  <2>1. Len(tt) <= 3
    BY <1>1
  <2>2. Flat(tt) = (Part(tt, 1) \o Part(tt, 2)) \o Part(tt, 3)
    BY <1>1, <2>1, FlatOfThree
  <2>. QED
    BY <1>2, <2>2
<1>. HIDE DEF a, b, c
<1>5. b \o c \in Seq(T) /\ (b \o c) \o <<>> = b \o c
  BY <1>3, ConcatProperties, ConcatEmptySeq
<1>6. (a \o b) \o c = a \o (b \o c)
  <2>1. \A x, y, z \in Seq(T) : (x \o y) \o z = x \o (y \o z)
    BY Joined
  <2>. QED
    BY <1>3, <2>1, Zenon
<1>7. Head(ss) = a
  BY <1>2 DEF a
<1>. QED
  BY <1>3, <1>4, <1>5, <1>6, <1>7 DEF tt

\* Events whose texts f gives: the texts of a queue of them.
Texts(f, q) == [i \in DOMAIN q |-> f[q[i]]]
LEMMA TextsAre ==
  ASSUME NEW E, NEW f \in [E -> Seq(Nat)], NEW q \in Seq(E)
  PROVE  /\ Texts(f, q) \in Seq(Seq(Nat)) /\ Len(Texts(f, q)) = Len(q) /\ Len(q) \in Nat
         /\ \A i \in 1 .. Len(q) : Texts(f, q)[i] = f[q[i]] /\ q[i] \in E
<1>1. DOMAIN q = 1 .. Len(q) /\ Len(q) \in Nat /\ \A i \in 1 .. Len(q) : q[i] \in E
  OBVIOUS
<1>2. Texts(f, q) = [i \in 1 .. Len(q) |-> f[q[i]]]
  BY <1>1 DEF Texts
<1>3. \A i \in 1 .. Len(q) : f[q[i]] \in Seq(Nat)
  BY <1>1
<1>. QED
  BY <1>1, <1>2, <1>3

\* The texts of up to three events.
LEMMA FlatTexts ==
  ASSUME NEW E, NEW f \in [E -> Seq(Nat)], NEW q \in Seq(E), Len(q) <= 3
  PROVE  /\ Flat(Texts(f, q)) \in Seq(Nat)
         /\ Len(q) = 0 => Flat(Texts(f, q)) = <<>>
         /\ Len(q) = 1 => Flat(Texts(f, q)) = f[q[1]]
         /\ Len(q) = 2 => Flat(Texts(f, q)) = f[q[1]] \o f[q[2]]
         /\ Len(q) = 3 => Flat(Texts(f, q)) = (f[q[1]] \o f[q[2]]) \o f[q[3]]
<1>. DEFINE ss == Texts(f, q)
<1>1. /\ ss \in Seq(Seq(Nat)) /\ Len(ss) = Len(q) /\ Len(q) \in Nat
      /\ \A i \in 1 .. Len(q) : ss[i] = f[q[i]] /\ q[i] \in E
  BY TextsAre
<1>. HIDE DEF ss
<1>. DEFINE w == Flat(ss)
            a == Part(ss, 1)
            b == Part(ss, 2)
            c == Part(ss, 3)
<1>2. w = (a \o b) \o c /\ a \in Seq(Nat) /\ b \in Seq(Nat) /\ c \in Seq(Nat)
  BY <1>1, FlatOfThree
<1>3. /\ a = IF 1 <= Len(q) THEN f[q[1]] ELSE <<>>
      /\ b = IF 2 <= Len(q) THEN f[q[2]] ELSE <<>>
      /\ c = IF 3 <= Len(q) THEN f[q[3]] ELSE <<>>
  BY <1>1 DEF Part
<1>. HIDE DEF w, a, b, c
<1>4. /\ a \o b \in Seq(Nat) /\ (a \o b) \o c \in Seq(Nat)
      /\ (a \o b) \o <<>> = a \o b /\ a \o <<>> = a /\ <<>> \o <<>> = <<>>
  BY <1>2, Joined
<1>5. Len(q) = 0 => a = <<>> /\ b = <<>> /\ c = <<>>
  BY <1>3
<1>6. Len(q) = 1 => a = f[q[1]] /\ b = <<>> /\ c = <<>>
  BY <1>3
<1>7. Len(q) = 2 => a = f[q[1]] /\ b = f[q[2]] /\ c = <<>>
  BY <1>3
<1>8. Len(q) = 3 => a = f[q[1]] /\ b = f[q[2]] /\ c = f[q[3]]
  BY <1>3
<1>9. w \in Seq(Nat)
  BY <1>2, <1>4
<1>10. /\ Len(q) = 0 => w = <<>>
       /\ Len(q) = 1 => w = f[q[1]]
       /\ Len(q) = 2 => w = f[q[1]] \o f[q[2]]
       /\ Len(q) = 3 => w = (f[q[1]] \o f[q[2]]) \o f[q[3]]
  BY <1>2, <1>4, <1>5, <1>6, <1>7, <1>8, Zenon
<1>. QED
  BY <1>9, <1>10 DEF w, ss

\* The first of them is handled.
LEMMA FlatTextsTake ==
  ASSUME NEW E, NEW f \in [E -> Seq(Nat)], NEW q \in Seq(E), Len(q) <= 3, q # <<>>
  PROVE  /\ Tail(q) \in Seq(E) /\ Len(Tail(q)) <= 3 /\ Head(q) \in E /\ Head(q) = q[1]
         /\ Len(q) \in Nat \ {0} /\ Len(Tail(q)) = Len(q) - 1
         /\ \A i \in 1 .. Len(Tail(q)) : Tail(q)[i] = q[i + 1] /\ i + 1 \in 1 .. Len(q)
         /\ Flat(Texts(f, Tail(q))) \in Seq(Nat)
         /\ Flat(Texts(f, q)) = f[Head(q)] \o Flat(Texts(f, Tail(q)))
<1>. DEFINE t == Tail(q)
<1>1. /\ t \in Seq(E) /\ Len(q) \in Nat \ {0} /\ Len(t) = Len(q) - 1 /\ Head(q) = q[1]
      /\ q[1] \in E /\ \A i \in 1 .. Len(t) : t[i] = q[i + 1]
  OBVIOUS
<1>. HIDE DEF t
<1>2. Len(t) <= 3 /\ Len(t) \in Nat /\ 1 \in 1 .. Len(q) /\ \A i \in 1 .. Len(t) : i + 1 \in 1 .. Len(q)
  BY <1>1
<1>. DEFINE ss == Texts(f, q)
            tt == Texts(f, t)
<1>3. /\ ss \in Seq(Seq(Nat)) /\ Len(ss) = Len(q) /\ \A i \in 1 .. Len(q) : ss[i] = f[q[i]]
      /\ tt \in Seq(Seq(Nat)) /\ Len(tt) = Len(t) /\ \A i \in 1 .. Len(t) : tt[i] = f[t[i]]
  <2>1. /\ ss \in Seq(Seq(Nat)) /\ Len(ss) = Len(q) /\ Len(q) \in Nat
        /\ \A i \in 1 .. Len(q) : ss[i] = f[q[i]] /\ q[i] \in E
    BY TextsAre, Zenon
  <2>2. /\ tt \in Seq(Seq(Nat)) /\ Len(tt) = Len(t) /\ Len(t) \in Nat
        /\ \A i \in 1 .. Len(t) : tt[i] = f[t[i]] /\ t[i] \in E
    BY <1>1, TextsAre, Zenon
  <2>. QED
    BY <2>1, <2>2
<1>. HIDE DEF ss, tt
<1>4. ss # <<>> /\ Len(ss) <= 3 /\ Head(ss) = f[q[1]]
  BY <1>1, <1>2, <1>3
<1>5. Tail(ss) = tt
  <2>1. /\ Tail(ss) \in Seq(Seq(Nat)) /\ Len(Tail(ss)) = Len(t)
        /\ \A i \in 1 .. Len(t) : Tail(ss)[i] = ss[i + 1]
    BY <1>1, <1>3, <1>4
  <2>. DEFINE rr == Tail(ss)
  <2>2. rr \in Seq(Seq(Nat)) /\ Len(rr) = Len(tt) /\ \A i \in 1 .. Len(t) : rr[i] = ss[i + 1]
    BY <1>3, <2>1
  <2>. HIDE DEF rr
  <2>3. ASSUME NEW i \in 1 .. Len(tt) PROVE rr[i] = tt[i]
    <3>1. i \in 1 .. Len(t) /\ i + 1 \in 1 .. Len(q)
      BY <1>2, <1>3
    <3>2. rr[i] = ss[i + 1] /\ ss[i + 1] = f[q[i + 1]] /\ tt[i] = f[t[i]] /\ t[i] = q[i + 1]
      BY <1>1, <1>3, <2>2, <3>1
    <3>. QED
      BY <3>2, Zenon
  <2>4. rr = tt
    BY <1>3, <2>2, <2>3, SeqEqual
  <2>. QED
    BY <2>4 DEF rr
<1>6. Flat(ss) = Head(ss) \o Flat(tt) /\ Flat(tt) \in Seq(Nat)
  BY <1>3, <1>4, <1>5, FlatTakes
<1>. QED
  BY <1>1, <1>2, <1>4, <1>6 DEF t, ss, tt

\* One to three events, as a queue.
LEMMA FlatOfNone ==
  ASSUME NEW E, NEW f \in [E -> Seq(Nat)]
  PROVE  <<>> \in Seq(E) /\ Flat(Texts(f, <<>>)) = <<>>
<1>1. <<>> \in Seq(E) /\ Len(<<>>) = 0 /\ Len(<<>>) <= 3
  OBVIOUS
<1>. QED
  BY <1>1, FlatTexts

LEMMA FlatOfOne ==
  ASSUME NEW E, NEW f \in [E -> Seq(Nat)], NEW a \in E
  PROVE  <<a>> \in Seq(E) /\ Flat(Texts(f, <<a>>)) = f[a]
<1>. DEFINE q == <<a>>
<1>1. q \in Seq(E) /\ Len(q) = 1 /\ q[1] = a
  OBVIOUS
<1>. HIDE DEF q
<1>2. Len(q) <= 3
  BY <1>1
<1>3. Flat(Texts(f, q)) = f[q[1]]
  BY <1>1, <1>2, FlatTexts
<1>. QED
  BY <1>1, <1>3 DEF q

LEMMA FlatOfTwo ==
  ASSUME NEW E, NEW f \in [E -> Seq(Nat)], NEW a \in E, NEW b \in E
  PROVE  <<a, b>> \in Seq(E) /\ Flat(Texts(f, <<a, b>>)) = f[a] \o f[b]
<1>. DEFINE q == <<a, b>>
<1>1. q \in Seq(E) /\ Len(q) = 2 /\ q[1] = a /\ q[2] = b
  OBVIOUS
<1>. HIDE DEF q
<1>2. Len(q) <= 3
  BY <1>1
<1>3. Flat(Texts(f, q)) = f[q[1]] \o f[q[2]]
  BY <1>1, <1>2, FlatTexts
<1>. QED
  BY <1>1, <1>3 DEF q

FlatThree(f, a, b, c) == Flat(Texts(f, <<a, b, c>>)) = (f[a] \o f[b]) \o f[c]
LEMMA FlatOfThreeEvents ==
  ASSUME NEW E, NEW f \in [E -> Seq(Nat)], NEW a \in E, NEW b \in E, NEW c \in E
  PROVE  FlatThree(f, a, b, c)
<1>. DEFINE q == <<a, b, c>>
<1>1. q \in Seq(E) /\ Len(q) = 3 /\ q[1] = a /\ q[2] = b /\ q[3] = c
  OBVIOUS
<1>. HIDE DEF q
<1>2. Len(q) <= 3
  BY <1>1
<1>3. Flat(Texts(f, q)) = (f[q[1]] \o f[q[2]]) \o f[q[3]]
  BY <1>1, <1>2, FlatTexts
<1>. QED
  BY <1>1, <1>3 DEF q, FlatThree

\* Queues put together.
ShortOnes(a, b, c) ==
  /\ <<>> \o <<b>> = <<b>> /\ <<>> \o <<b, c>> = <<b, c>> /\ <<b>> \o <<>> = <<b>>
  /\ <<a>> \o <<b>> = <<a, b>> /\ <<a>> \o <<b, c>> = <<a, b, c>>
LEMMA ShortQueuesOf ==
  ASSUME NEW T, NEW a \in T, NEW b \in T, NEW c \in T
  PROVE  ShortOnes(a, b, c)
<1>1. <<b>> \in Seq(T) /\ <<b, c>> \in Seq(T)
  OBVIOUS
<1>2. <<>> \o <<b>> = <<b>> /\ <<>> \o <<b, c>> = <<b, c>> /\ <<b>> \o <<>> = <<b>>
  BY <1>1, Joined
<1>3. ASSUME NEW t \in Seq(T)
      PROVE  /\ <<a>> \o t \in Seq(T) /\ Len(<<a>> \o t) = Len(t) + 1 /\ Len(t) \in Nat
             /\ (<<a>> \o t)[1] = a /\ \A i \in 1 .. Len(t) : (<<a>> \o t)[i + 1] = t[i]
  <2>. DEFINE s == <<a>>
  <2>1. s \in Seq(T) /\ Len(s) = 1 /\ s[1] = a /\ Len(t) \in Nat
    OBVIOUS
  <2>. HIDE DEF s
  <2>2. /\ s \o t \in Seq(T) /\ Len(s \o t) = Len(s) + Len(t)
        /\ \A i \in 1 .. Len(s) + Len(t) : (s \o t)[i] = IF i <= Len(s) THEN s[i] ELSE t[i - Len(s)]
    BY <2>1, ConcatProperties
  <2>. DEFINE u == s \o t
  <2>3. u \in Seq(T) /\ Len(u) = Len(t) + 1
        /\ \A i \in 1 .. Len(t) + 1 : u[i] = IF i <= 1 THEN s[i] ELSE t[i - 1]
    BY <2>1, <2>2
  <2>. HIDE DEF u
  <2>4. u[1] = a /\ \A i \in 1 .. Len(t) : u[i + 1] = t[i]
    BY <2>1, <2>3
  <2>. QED
    BY <2>1, <2>3, <2>4 DEF s, u
<1>4. <<a>> \o <<b>> = <<a, b>>
  <2>. DEFINE u == <<a>> \o <<b>>
              v == <<a, b>>
  <2>1. u \in Seq(T) /\ Len(u) = 2 /\ u[1] = a /\ u[2] = b
    <3>. DEFINE t == <<b>>
    <3>1. t \in Seq(T) /\ Len(t) = 1 /\ t[1] = b /\ u = <<a>> \o t
      OBVIOUS
    <3>. HIDE DEF t, u
    <3>. QED
      BY <1>3, <3>1
  <2>2. v \in Seq(T) /\ Len(v) = 2 /\ v[1] = a /\ v[2] = b
    OBVIOUS
  <2>. HIDE DEF u, v
  <2>3. \A i \in 1 .. 2 : i = 1 \/ i = 2
    OBVIOUS
  <2>4. u = v
    BY <2>1, <2>2, <2>3, SeqEqual
  <2>. QED
    BY <2>4 DEF u, v
<1>5. <<a>> \o <<b, c>> = <<a, b, c>>
  <2>. DEFINE u == <<a>> \o <<b, c>>
              v == <<a, b, c>>
  <2>1. u \in Seq(T) /\ Len(u) = 3 /\ u[1] = a /\ u[2] = b /\ u[3] = c
    <3>. DEFINE t == <<b, c>>
    <3>1. t \in Seq(T) /\ Len(t) = 2 /\ t[1] = b /\ t[2] = c /\ u = <<a>> \o t
      OBVIOUS
    <3>. HIDE DEF t, u
    <3>. QED
      BY <1>3, <3>1
  <2>2. v \in Seq(T) /\ Len(v) = 3 /\ v[1] = a /\ v[2] = b /\ v[3] = c
    OBVIOUS
  <2>. HIDE DEF u, v
  <2>3. \A i \in 1 .. 3 : i = 1 \/ i = 2 \/ i = 3
    OBVIOUS
  <2>4. u = v
    BY <2>1, <2>2, <2>3, SeqEqual
  <2>. QED
    BY <2>4 DEF u, v
<1>. QED
  BY <1>2, <1>4, <1>5 DEF ShortOnes

LEMMA ShortQueues ==
  ASSUME NEW a, NEW b, NEW c
  PROVE  ShortOnes(a, b, c)
<1>. DEFINE T == {a, b, c}
<1>1. a \in T /\ b \in T /\ c \in T
  OBVIOUS
<1>. HIDE DEF T
<1>. QED
  BY <1>1, ShortQueuesOf

-----------------------------------------------------------------------------
\* The first n letters; the texts of events; an event that ends a composition.
UpTo(n) == [i \in 1 .. n |-> i]
WinTexts(q) == [i \in DOMAIN q |-> Wi!TextOf(q[i])]
Ending(q) == \E i \in DOMAIN q : q[i][1] = "end"
Opening(q) == \E i \in DOMAIN q : q[i][1] \in {"start", "update"}
InOrder(out, between, text, n) == (out \o between) \o text = UpTo(n)

WinInv ==
  /\ Wi!TypeOK
  /\ osText \in Seq(Wi!Key) /\ buffer \in Seq(Wi!Key) /\ Len(queue) <= 3
  /\ winActive => intercept
  /\ winActive /\ buffer # <<>> => osText # <<>> \/ Ending(queue)
  /\ Opening(queue) => osText # <<>>
  /\ ~broken => InOrder(output, Flat(WinTexts(queue)), osText, letters)

\* One letter more is the last of them.
LEMMA UpToNext ==
  ASSUME NEW n \in Nat
  PROVE  UpTo(n) \in Seq(Nat) /\ UpTo(n) \o <<n + 1>> = UpTo(n + 1)
<1>1. UpTo(n) \in Seq(Nat) /\ Len(UpTo(n)) = n /\ UpTo(n + 1) \in Seq(Nat) /\ Len(UpTo(n + 1)) = n + 1
  BY DEF UpTo
<1>2. (\A i \in 1 .. n : UpTo(n)[i] = i) /\ (\A i \in 1 .. n + 1 : UpTo(n + 1)[i] = i)
  BY DEF UpTo
<1>. DEFINE s == UpTo(n) \o <<n + 1>>
<1>3. s \in Seq(Nat) /\ Len(s) = n + 1 /\ \A i \in 1 .. n + 1 : s[i] = i
  BY <1>1, <1>2
<1>. HIDE DEF s
<1>4. s = UpTo(n + 1)
  BY <1>1, <1>2, <1>3, SeqEqual
<1>. QED
  BY <1>1, <1>4 DEF s

\* The texts in front of what is composed take the letter typed last.
LEMMA NextLetter ==
  ASSUME NEW n \in Nat, NEW out \in Seq(Nat), NEW a \in Seq(Nat), NEW b \in Seq(Nat), NEW text \in Seq(Nat),
         a \o b = text \o <<n + 1>>, InOrder(out, <<>>, text, n)
  PROVE  InOrder(out, a, b, n + 1)
<1>0. \A x, y, z \in Seq(Nat) : (x \o y) \o z = x \o (y \o z)
  BY Joined
<1>1. out \o <<>> = out /\ <<n + 1>> \in Seq(Nat)
  <2>1. n + 1 \in Nat
    OBVIOUS
  <2>. QED
    BY <2>1, Joined
<1>2. out \o text = UpTo(n)
  BY <1>1 DEF InOrder
<1>3. (out \o a) \o b = out \o (a \o b)
  BY <1>0, Zenon
<1>4. (out \o text) \o <<n + 1>> = out \o (text \o <<n + 1>>)
  BY <1>0, <1>1, Zenon
<1>5. UpTo(n) \o <<n + 1>> = UpTo(n + 1)
  BY UpToNext
<1>. QED
  BY <1>2, <1>3, <1>4, <1>5, Zenon DEF InOrder

\* Four texts.
Grouped(a, b, c, d) == ((a \o b) \o c) \o d = a \o ((b \o c) \o d)
Paired(a, b, c, d) == (a \o b) \o (c \o d) = a \o ((b \o c) \o d)
LEMMA FourJoined ==
  ASSUME NEW a \in Seq(Nat), NEW b \in Seq(Nat), NEW c \in Seq(Nat), NEW d \in Seq(Nat)
  PROVE  Grouped(a, b, c, d)
<1>1. \A x, y, z \in Seq(Nat) : (x \o y) \o z = x \o (y \o z)
  BY Joined
<1>2. b \o c \in Seq(Nat)
  BY Joined
<1>3. (a \o b) \o c = a \o (b \o c)
  BY <1>1, Zenon
<1>4. \A x \in Seq(Nat) : (a \o x) \o d = a \o (x \o d)
  BY <1>1, Zenon
<1>5. (a \o (b \o c)) \o d = a \o ((b \o c) \o d)
  BY <1>2, <1>4, Zenon
<1>. QED
  BY <1>3, <1>5, Zenon DEF Grouped

LEMMA TwoPairsJoined ==
  ASSUME NEW a \in Seq(Nat), NEW b \in Seq(Nat), NEW c \in Seq(Nat), NEW d \in Seq(Nat)
  PROVE  Paired(a, b, c, d)
<1>1. \A x, y, z \in Seq(Nat) : (x \o y) \o z = x \o (y \o z)
  BY Joined
<1>2. c \o d \in Seq(Nat)
  BY Joined
<1>3. (b \o c) \o d = b \o (c \o d)
  BY <1>1, Zenon
<1>4. \A x \in Seq(Nat) : (a \o b) \o x = a \o (b \o x)
  BY <1>1, Zenon
<1>5. (a \o b) \o (c \o d) = a \o (b \o (c \o d))
  BY <1>2, <1>4, Zenon
<1>. QED
  BY <1>3, <1>5, Zenon DEF Paired

\* Letters that are moved on are the same ones.
LEMMA SameLetters ==
  ASSUME NEW n \in Nat, NEW out \in Seq(Nat), NEW a \in Seq(Nat), NEW b \in Seq(Nat),
         NEW c \in Seq(Nat), NEW d \in Seq(Nat), NEW e \in Seq(Nat), NEW f \in Seq(Nat),
         (a \o b) \o c = (d \o e) \o f, InOrder(out, a, b \o c, n)
  PROVE  InOrder(out \o d, e, f, n)
<1>1. Paired(out, a, b, c)
  BY TwoPairsJoined, Zenon
<1>2. Grouped(out, d, e, f)
  BY FourJoined, Zenon
<1>. QED
  BY <1>1, <1>2, Zenon DEF InOrder, Paired, Grouped

\* All but the last letter, and that one.
LEMMA FrontAndLast ==
  ASSUME NEW T, NEW s \in Seq(T), Len(s) > 1, NEW y \in T
  PROVE  /\ Wi!Front(s) \in Seq(T) /\ Wi!Last(s) \in T
         /\ Wi!Front(s) \o <<Wi!Last(s), y>> = s \o <<y>>
<1>. DEFINE n == Len(s)
            f == SubSeq(s, 1, n - 1)
            p == <<s[n], y>>
<1>1. Wi!Front(s) = f /\ Wi!Last(s) = s[n]
  BY DEF Wi!Front, Wi!Last
<1>2. n \in Nat /\ n > 1 /\ \A i \in 1 .. n : s[i] \in T
  OBVIOUS
<1>3. f \in Seq(T) /\ Len(f) = n - 1 /\ \A i \in 1 .. n - 1 : f[i] = s[i]
  BY <1>2
<1>4. p \in Seq(T) /\ Len(p) = 2 /\ p[1] = s[n] /\ p[2] = y
  <2>1. s[n] \in T
    BY <1>2
  <2>. QED
    BY <2>1
<1>. HIDE DEF f, p
<1>5. /\ f \o p \in Seq(T) /\ Len(f \o p) = n + 1
      /\ \A i \in 1 .. n + 1 : (f \o p)[i] = IF i <= n - 1 THEN f[i] ELSE p[i - (n - 1)]
  <2>. HIDE DEF n
  <2>1. /\ f \o p \in Seq(T) /\ Len(f \o p) = Len(f) + Len(p)
        /\ \A i \in 1 .. Len(f) + Len(p) : (f \o p)[i] = IF i <= Len(f) THEN f[i] ELSE p[i - Len(f)]
    BY <1>3, <1>4, ConcatProperties
  <2>2. Len(f) + Len(p) = n + 1
    BY <1>2, <1>3, <1>4
  <2>. QED
    BY <1>3, <2>1, <2>2
<1>6. /\ s \o <<y>> \in Seq(T) /\ Len(s \o <<y>>) = n + 1
      /\ \A i \in 1 .. n + 1 : (s \o <<y>>)[i] = IF i <= n THEN s[i] ELSE y
  OBVIOUS
<1>7. \A i \in 1 .. n + 1 : (f \o p)[i] = (s \o <<y>>)[i]
  <2>. DEFINE g == f \o p
              h == s \o <<y>>
  <2>1. (\A i \in 1 .. n + 1 : g[i] = IF i <= n - 1 THEN f[i] ELSE p[i - (n - 1)])
        /\ (\A i \in 1 .. n + 1 : h[i] = IF i <= n THEN s[i] ELSE y)
    BY <1>5, <1>6
  <2>. HIDE DEF g, h, n
  <2>2. ASSUME NEW i \in 1 .. n + 1 PROVE g[i] = h[i]
    <3>1. CASE i <= n - 1
      BY <1>2, <1>3, <2>1, <3>1
    <3>2. CASE i = n
      <4>1. i - (n - 1) = 1 /\ ~(i <= n - 1) /\ i <= n
        BY <1>2, <3>2
      <4>. QED
        BY <1>4, <2>1, <3>2, <4>1
    <3>3. CASE i = n + 1
      <4>1. i - (n - 1) = 2 /\ ~(i <= n - 1) /\ ~(i <= n)
        BY <1>2, <3>3
      <4>. QED
        BY <1>4, <2>1, <3>3, <4>1
    <3>. QED
      BY <1>2, <3>1, <3>2, <3>3
  <2>. QED
    BY <2>2 DEF g, h
<1>8. f \o p = s \o <<y>>
  <2>. DEFINE g == f \o p
              h == s \o <<y>>
  <2>1. g \in Seq(T) /\ h \in Seq(T) /\ Len(g) = Len(h) /\ \A i \in 1 .. Len(g) : g[i] = h[i]
    BY <1>5, <1>6, <1>7
  <2>. HIDE DEF g, h
  <2>2. g = h
    BY <2>1, SeqEqual
  <2>. QED
    BY <2>2 DEF g, h
<1>. QED
  BY <1>1, <1>2, <1>3, <1>8 DEF p

\* What an event is.
LEMMA EventIs ==
  ASSUME NEW e \in Wi!DomEvent
  PROVE  /\ Wi!TextOf(e) \in Seq(Nat)
         /\ e[1] \in {"start", "blur", "update", "end", "key"}
         /\ e[1] \in {"update", "end", "key"} => e[2] \in Seq(Wi!Key) /\ e[2] \in Seq(Nat)
<1>1. Wi!Key \subseteq Nat
  BY InputAssumption DEF Wi!Key
<1>2. \A s \in Seq(Wi!Key) : s \in Seq(Nat)
  BY <1>1, SeqMonotonic
<1>3. \/ e \in {<<"start">>, <<"blur">>}
      \/ e \in {"update", "end", "key"} \X Seq(Wi!Key)
  BY DEF Wi!DomEvent
<1>4. CASE e \in {<<"start">>, <<"blur">>}
  <2>1. e[1] \in {"start", "blur"}
    BY <1>4
  <2>2. Wi!TextOf(e) = <<>>
    BY <2>1 DEF Wi!TextOf
  <2>. QED
    BY <2>1, <2>2, Joined
<1>5. CASE e \in {"update", "end", "key"} \X Seq(Wi!Key)
  <2>1. e[1] \in {"update", "end", "key"} /\ e[2] \in Seq(Wi!Key)
    BY <1>5
  <2>2. Wi!TextOf(e) \in {<<>>, e[2]}
    BY DEF Wi!TextOf
  <2>3. <<>> \in Seq(Nat)
    BY Joined
  <2>. QED
    BY <1>2, <2>1, <2>2, <2>3
<1>. QED
  BY <1>3, <1>4, <1>5

\* Their texts are texts.
WinText == [e \in Wi!DomEvent |-> Wi!TextOf(e)]
LEMMA WinTextIs ==
  /\ WinText \in [Wi!DomEvent -> Seq(Nat)]
  /\ \A e \in Wi!DomEvent : WinText[e] = Wi!TextOf(e)
  /\ \A q \in Seq(Wi!DomEvent) : WinTexts(q) = Texts(WinText, q)
<1>1. WinText \in [Wi!DomEvent -> Seq(Nat)]
  BY EventIs DEF WinText
<1>2. \A e \in Wi!DomEvent : WinText[e] = Wi!TextOf(e)
  BY DEF WinText
<1>3. ASSUME NEW q \in Seq(Wi!DomEvent) PROVE WinTexts(q) = Texts(WinText, q)
  <2>1. \A i \in DOMAIN q : q[i] \in Wi!DomEvent
    OBVIOUS
  <2>. QED
    BY <1>2, <2>1 DEF WinTexts, Texts
<1>. QED
  BY <1>1, <1>2, <1>3

LEMMA WinFlat ==
  ASSUME NEW q \in Seq(Wi!DomEvent), Len(q) <= 3
  PROVE  Flat(WinTexts(q)) \in Seq(Nat)
BY WinTextIs, FlatTexts

\* An event is handled.
LEMMA WinTake ==
  ASSUME NEW q \in Seq(Wi!DomEvent), Len(q) <= 3, q # <<>>
  PROVE  /\ Tail(q) \in Seq(Wi!DomEvent) /\ Len(Tail(q)) <= 3 /\ Head(q) \in Wi!DomEvent
         /\ Flat(WinTexts(Tail(q))) \in Seq(Nat)
         /\ Flat(WinTexts(q)) = Wi!TextOf(Head(q)) \o Flat(WinTexts(Tail(q)))
         /\ Ending(q) <=> Head(q)[1] = "end" \/ Ending(Tail(q))
         /\ Opening(q) <=> Head(q)[1] \in {"start", "update"} \/ Opening(Tail(q))
<1>. DEFINE t == Tail(q)
<1>1. /\ t \in Seq(Wi!DomEvent) /\ Len(t) <= 3 /\ Head(q) \in Wi!DomEvent /\ Head(q) = q[1]
      /\ Len(q) \in Nat \ {0} /\ Len(t) = Len(q) - 1
      /\ \A i \in 1 .. Len(t) : t[i] = q[i + 1] /\ i + 1 \in 1 .. Len(q)
      /\ Flat(Texts(WinText, t)) \in Seq(Nat)
      /\ Flat(Texts(WinText, q)) = WinText[Head(q)] \o Flat(Texts(WinText, t))
  BY WinTextIs, FlatTextsTake, Zenon
<1>2. DOMAIN q = 1 .. Len(q) /\ DOMAIN t = 1 .. Len(t)
  BY <1>1
<1>. HIDE DEF t
<1>3. \A i \in 1 .. Len(q) : i = 1 \/ (i - 1 \in 1 .. Len(t) /\ q[i] = t[i - 1])
  <2>1. \A i \in 1 .. Len(q) : i = 1 \/ (i - 1 \in 1 .. Len(t) /\ (i - 1) + 1 = i)
    BY <1>1
  <2>. QED
    BY <1>1, <2>1
<1>5. 1 \in 1 .. Len(q)
  BY <1>1
<1>6. Ending(q) <=> q[1][1] = "end" \/ Ending(t)
  BY <1>1, <1>2, <1>3, <1>5 DEF Ending
<1>7. Opening(q) <=> q[1][1] \in {"start", "update"} \/ Opening(t)
  BY <1>1, <1>2, <1>3, <1>5 DEF Opening
<1>8. WinTexts(t) = Texts(WinText, t) /\ WinTexts(q) = Texts(WinText, q) /\ WinText[Head(q)] = Wi!TextOf(Head(q))
  BY <1>1, WinTextIs
<1>. QED
  BY <1>1, <1>6, <1>7, <1>8 DEF t

\* An event of each kind.
LEMMA EventsAre ==
  /\ <<"start">> \in Wi!DomEvent /\ <<"blur">> \in Wi!DomEvent
  /\ Wi!TextOf(<<"start">>) = <<>> /\ Wi!TextOf(<<"blur">>) = <<>>
  /\ \A s \in Seq(Wi!Key) :
       /\ <<"update", s>> \in Wi!DomEvent /\ <<"end", s>> \in Wi!DomEvent /\ <<"key", s>> \in Wi!DomEvent
       /\ Wi!TextOf(<<"update", s>>) = <<>> /\ Wi!TextOf(<<"end", s>>) = s /\ Wi!TextOf(<<"key", s>>) = s
BY DEF Wi!DomEvent, Wi!TextOf

\* One to three events, as a queue.
LEMMA QueueOf ==
  /\ Flat(WinTexts(<<>>)) = <<>> /\ ~Ending(<<>>) /\ ~Opening(<<>>)
  /\ \A a \in Wi!DomEvent :
       /\ <<a>> \in Seq(Wi!DomEvent) /\ Len(<<a>>) <= 3 /\ Flat(WinTexts(<<a>>)) = Wi!TextOf(a)
       /\ Ending(<<a>>) <=> a[1] = "end"
       /\ Opening(<<a>>) <=> a[1] \in {"start", "update"}
  /\ \A a, b \in Wi!DomEvent :
       /\ <<a, b>> \in Seq(Wi!DomEvent) /\ Len(<<a, b>>) <= 3
       /\ Flat(WinTexts(<<a, b>>)) = Wi!TextOf(a) \o Wi!TextOf(b)
       /\ Ending(<<a, b>>) <=> a[1] = "end" \/ b[1] = "end"
       /\ Opening(<<a, b>>) <=> a[1] \in {"start", "update"} \/ b[1] \in {"start", "update"}
<1>1. Flat(WinTexts(<<>>)) = <<>> /\ ~Ending(<<>>) /\ ~Opening(<<>>)
  <2>1. DOMAIN <<>> = {}
    OBVIOUS
  <2>2. ~Ending(<<>>) /\ ~Opening(<<>>)
    BY <2>1 DEF Ending, Opening
  <2>3. <<>> \in Seq(Wi!DomEvent) /\ Flat(Texts(WinText, <<>>)) = <<>>
    BY WinTextIs, FlatOfNone, Zenon
  <2>. QED
    BY <2>2, <2>3, WinTextIs
<1>2. ASSUME NEW a \in Wi!DomEvent
      PROVE  /\ <<a>> \in Seq(Wi!DomEvent) /\ Len(<<a>>) <= 3 /\ Flat(WinTexts(<<a>>)) = Wi!TextOf(a)
             /\ Ending(<<a>>) <=> a[1] = "end"
             /\ Opening(<<a>>) <=> a[1] \in {"start", "update"}
  <2>. DEFINE q == <<a>>
  <2>1. q \in Seq(Wi!DomEvent) /\ Len(q) = 1 /\ q[1] = a /\ DOMAIN q = {1}
    OBVIOUS
  <2>2. Flat(Texts(WinText, q)) = WinText[a]
    BY WinTextIs, FlatOfOne, Zenon
  <2>. HIDE DEF q
  <2>3. Ending(q) <=> a[1] = "end"
    BY <2>1 DEF Ending
  <2>4. Opening(q) <=> a[1] \in {"start", "update"}
    BY <2>1 DEF Opening
  <2>5. Len(q) <= 3
    BY <2>1
  <2>6. Flat(WinTexts(q)) = Wi!TextOf(a)
    BY <2>1, <2>2, WinTextIs
  <2>. QED
    BY <2>1, <2>3, <2>4, <2>5, <2>6 DEF q
<1>3. ASSUME NEW a \in Wi!DomEvent, NEW b \in Wi!DomEvent
      PROVE  /\ <<a, b>> \in Seq(Wi!DomEvent) /\ Len(<<a, b>>) <= 3
             /\ Flat(WinTexts(<<a, b>>)) = Wi!TextOf(a) \o Wi!TextOf(b)
             /\ Ending(<<a, b>>) <=> a[1] = "end" \/ b[1] = "end"
             /\ Opening(<<a, b>>) <=> a[1] \in {"start", "update"} \/ b[1] \in {"start", "update"}
  <2>. DEFINE q == <<a, b>>
  <2>1. q \in Seq(Wi!DomEvent) /\ Len(q) = 2 /\ q[1] = a /\ q[2] = b /\ DOMAIN q = {1, 2}
    OBVIOUS
  <2>2. Flat(Texts(WinText, q)) = WinText[a] \o WinText[b]
    BY WinTextIs, FlatOfTwo, Zenon
  <2>. HIDE DEF q
  <2>3. Ending(q) <=> a[1] = "end" \/ b[1] = "end"
    BY <2>1 DEF Ending
  <2>4. Opening(q) <=> a[1] \in {"start", "update"} \/ b[1] \in {"start", "update"}
    BY <2>1 DEF Opening
  <2>5. Len(q) <= 3
    BY <2>1
  <2>6. Flat(WinTexts(q)) = Wi!TextOf(a) \o Wi!TextOf(b)
    BY <2>1, <2>2, WinTextIs
  <2>. QED
    BY <2>1, <2>3, <2>4, <2>5, <2>6 DEF q
<1>. QED
  BY <1>1, <1>2, <1>3

\* And three.
LEMMA ThreeInQueue ==
  ASSUME NEW a \in Wi!DomEvent, NEW b \in Wi!DomEvent, NEW c \in Wi!DomEvent
  PROVE  /\ <<a, b, c>> \in Seq(Wi!DomEvent) /\ Len(<<a, b, c>>) <= 3
         /\ Flat(WinTexts(<<a, b, c>>)) = (Wi!TextOf(a) \o Wi!TextOf(b)) \o Wi!TextOf(c)
<1>0. WinText \in [Wi!DomEvent -> Seq(Nat)]
  BY WinTextIs
<1>1. FlatThree(WinText, a, b, c)
  BY <1>0, FlatOfThreeEvents
<1>5. <<a, b, c>> \in Seq(Wi!DomEvent)
  OBVIOUS
<1>2. WinTexts(<<a, b, c>>) = Texts(WinText, <<a, b, c>>)
  BY <1>5, WinTextIs
<1>3. WinText[a] = Wi!TextOf(a) /\ WinText[b] = Wi!TextOf(b) /\ WinText[c] = Wi!TextOf(c)
  BY WinTextIs
<1>4. Len(<<a, b, c>>) <= 3
  OBVIOUS
<1>. QED
  BY <1>1, <1>2, <1>3, <1>4, <1>5, Zenon DEF FlatThree

\* Every step keeps the letters in order.
LEMMA WinStep ==
  ASSUME WinInv, WinNext
  PROVE  WinInv'
<1>. DEFINE flat == Flat(WinTexts(queue))
            rest == Flat(WinTexts(Tail(queue)))
<1>1. /\ letters \in 0 .. MaxLetters /\ toggles \in 0 .. MaxToggles /\ queue \in Seq(Wi!DomEvent)
      /\ osText \in Seq(Wi!Key) /\ buffer \in Seq(Wi!Key) /\ Len(queue) <= 3
      /\ winActive \in BOOLEAN /\ session \in BOOLEAN /\ intercept \in BOOLEAN /\ xtermComposes \in BOOLEAN
      /\ scrolled \in BOOLEAN /\ broken \in BOOLEAN
      /\ MaxLetters \in Nat /\ MaxToggles \in Nat
  BY InputAssumption DEF WinInv, Wi!TypeOK
<1>2. /\ winActive => intercept
      /\ winActive /\ buffer # <<>> => osText # <<>> \/ Ending(queue)
      /\ Opening(queue) => osText # <<>>
      /\ ~broken => InOrder(output, flat, osText, letters)
  BY DEF WinInv
<1>3. /\ Wi!Key \subseteq Nat /\ letters \in Nat
      /\ (0 .. MaxLetters) \subseteq Nat /\ Wi!Key \subseteq 0 .. MaxLetters
  BY <1>1 DEF Wi!Key
<1>4. /\ \A s \in Seq(Wi!Key) : s \in Seq(Nat) /\ s \in Seq(0 .. MaxLetters)
      /\ output \in Seq(0 .. MaxLetters) /\ output \in Seq(Nat)
      /\ \A s \in Seq(0 .. MaxLetters) : s \in Seq(Nat)
  <2>1. output \in Seq(0 .. MaxLetters)
    BY DEF WinInv, Wi!TypeOK
  <2>. QED
    BY <1>3, <2>1, SeqMonotonic
<1>5. /\ \A s \in Seq(Nat) : s \o <<>> = s /\ <<>> \o s = s
      /\ \A s, t \in Seq(0 .. MaxLetters) : s \o t \in Seq(0 .. MaxLetters)
      /\ <<>> \in Seq(Nat) /\ <<>> \in Seq(Wi!Key)
  BY Joined
<1>6. flat \in Seq(Nat)
  BY <1>1, WinFlat
<1>. HIDE DEF flat, rest
\* What the invariant asks for, one by one.
<1>7. ASSUME letters' \in 0 .. MaxLetters, toggles' \in 0 .. MaxToggles, queue' \in Seq(Wi!DomEvent),
             osText' \in Seq(Wi!Key), buffer' \in Seq(Wi!Key), output' \in Seq(0 .. MaxLetters), Len(queue') <= 3,
             winActive' \in BOOLEAN, session' \in BOOLEAN, intercept' \in BOOLEAN, xtermComposes' \in BOOLEAN,
             scrolled' \in BOOLEAN, broken' \in BOOLEAN,
             winActive' => intercept',
             winActive' /\ buffer' # <<>> => osText' # <<>> \/ Ending(queue'),
             Opening(queue') => osText' # <<>>,
             ~broken' => InOrder(output', Flat(WinTexts(queue')), osText', letters')
      PROVE  WinInv'
  <2>1. {osText', buffer', output'} \subseteq Seq(0 .. MaxLetters)
    BY <1>4, <1>7
  <2>2. Wi!TypeOK'
    BY <1>7, <2>1 DEF Wi!TypeOK
  <2>. QED
    BY <1>7, <2>2 DEF WinInv
\* A key: nothing is in the queue, and what follows is put there.
<1>8. ASSUME queue = <<>>, letters < MaxLetters, letters' = letters + 1,
             queue' \in Seq(Wi!DomEvent), osText' \in Seq(Wi!Key), Len(queue') <= 3,
             UNCHANGED <<winActive, session, intercept, buffer, xtermComposes, scrolled, output, broken, toggles>>,
             osText # <<>> => osText' # <<>> \/ Ending(queue'),
             Opening(queue') => osText' # <<>>,
             Flat(WinTexts(queue')) \o osText' = osText \o <<letters + 1>>
      PROVE  WinInv'
  <2>1. flat = <<>> /\ ~Ending(queue)
    BY <1>8, QueueOf DEF flat
  <2>2. Flat(WinTexts(queue')) \in Seq(Nat) /\ osText' \in Seq(Nat) /\ osText \in Seq(Nat)
    BY <1>1, <1>4, <1>8, WinFlat
  <2>3. ~broken' => InOrder(output', Flat(WinTexts(queue')), osText', letters')
    <3>1. ~broken => InOrder(output, <<>>, osText, letters)
      BY <1>2, <2>1
    <3>2. ~broken => InOrder(output, Flat(WinTexts(queue')), osText', letters + 1)
      BY <1>3, <1>4, <1>8, <2>2, <3>1, NextLetter
    <3>. QED
      BY <1>8, <3>2
  <2>4. letters' \in 0 .. MaxLetters
    BY <1>1, <1>8
  <2>5. winActive' /\ buffer' # <<>> => osText' # <<>> \/ Ending(queue')
    BY <1>2, <1>8, <2>1
  <2>6. /\ toggles' \in 0 .. MaxToggles /\ buffer' \in Seq(Wi!Key) /\ output' \in Seq(0 .. MaxLetters)
        /\ winActive' \in BOOLEAN /\ session' \in BOOLEAN /\ intercept' \in BOOLEAN /\ xtermComposes' \in BOOLEAN
        /\ scrolled' \in BOOLEAN /\ broken' \in BOOLEAN /\ (winActive' => intercept')
    BY <1>1, <1>2, <1>4, <1>8
  <2>. QED
    BY <1>7, <1>8, <2>3, <2>4, <2>5, <2>6
\* An event: the first of the queue.
<1>9. ASSUME NEW kind, Wi!Take(kind)
      PROVE  /\ queue # <<>> /\ queue' = Tail(queue) /\ Head(queue)[1] = kind /\ Head(queue) \in Wi!DomEvent
             /\ queue' \in Seq(Wi!DomEvent) /\ Len(queue') <= 3
             /\ flat = Wi!TextOf(Head(queue)) \o rest /\ rest = Flat(WinTexts(queue')) /\ rest \in Seq(Nat)
             /\ Ending(queue) <=> kind = "end" \/ Ending(queue')
             /\ Opening(queue) <=> kind \in {"start", "update"} \/ Opening(queue')
             /\ kind \in {"update", "end", "key"} => Wi!Text \in Seq(Wi!Key) /\ Wi!Text \in Seq(Nat)
             /\ Wi!TextOf(Head(queue)) = IF kind \in {"end", "key"} THEN Wi!Text ELSE <<>>
  <2>1. queue # <<>> /\ queue' = Tail(queue) /\ Head(queue)[1] = kind
    BY <1>9 DEF Wi!Take
  <2>2. /\ Tail(queue) \in Seq(Wi!DomEvent) /\ Len(Tail(queue)) <= 3 /\ Head(queue) \in Wi!DomEvent
        /\ rest \in Seq(Nat) /\ flat = Wi!TextOf(Head(queue)) \o rest
        /\ Ending(queue) <=> Head(queue)[1] = "end" \/ Ending(Tail(queue))
        /\ Opening(queue) <=> Head(queue)[1] \in {"start", "update"} \/ Opening(Tail(queue))
    BY <1>1, <2>1, WinTake DEF flat, rest
  <2>3. kind \in {"update", "end", "key"} => Wi!Text \in Seq(Wi!Key) /\ Wi!Text \in Seq(Nat)
    BY <2>1, <2>2, EventIs DEF Wi!Text
  <2>4. Wi!TextOf(Head(queue)) = IF kind \in {"end", "key"} THEN Wi!Text ELSE <<>>
    BY <2>1 DEF Wi!TextOf, Wi!Text
  <2>5. rest = Flat(WinTexts(queue'))
    BY <2>1 DEF rest
  <2>. QED
    BY <2>1, <2>2, <2>3, <2>4, <2>5
<1>10. ASSUME NEW kind \in {"end", "key"}, Wi!Take(kind), ~broken
       PROVE  InOrder(output \o Wi!Text, rest, osText, letters)
  <2>1. flat = Wi!TextOf(Head(queue)) \o rest /\ rest \in Seq(Nat)
    BY <1>9, <1>10
  <2>2. Wi!TextOf(Head(queue)) = Wi!Text
    BY <1>9, <1>10
  <2>3. Wi!Text \in Seq(Nat)
    BY <1>9, <1>10
  <2>4. flat \o <<>> = flat /\ <<>> \o osText = osText /\ osText \in Seq(Nat)
    BY <1>1, <1>4, <1>5, <1>6
  <2>5. (flat \o <<>>) \o osText = (Wi!Text \o rest) \o osText
    BY <2>1, <2>2, <2>4
  <2>6. InOrder(output, flat, <<>> \o osText, letters)
    BY <1>2, <1>10, <2>4
  <2>7. letters \in Nat /\ output \in Seq(Nat) /\ <<>> \in Seq(Nat)
    BY <1>3, <1>4, <1>5
  <2>. QED
    BY <1>6, <2>1, <2>3, <2>4, <2>5, <2>6, <2>7, SameLetters, Zenon
<1>23. ASSUME NEW kind \in {"start", "update", "blur"}, Wi!Take(kind), ~broken
       PROVE  InOrder(output, rest, osText, letters)
  <2>1. flat = Wi!TextOf(Head(queue)) \o rest /\ rest \in Seq(Nat)
    BY <1>9, <1>23
  <2>2. Wi!TextOf(Head(queue)) = <<>>
    BY <1>9, <1>23
  <2>3. <<>> \o rest = rest
    BY <1>5, <2>1
  <2>. QED
    BY <1>2, <1>23, <2>1, <2>2, <2>3
<1>11. CASE Wi!Compose
  <2>1. /\ letters < MaxLetters /\ queue = <<>> /\ letters' = letters + 1
        /\ UNCHANGED <<winActive, session, intercept, buffer, xtermComposes, scrolled, output, broken, toggles>>
    BY <1>11 DEF Wi!Compose, Wi!handlerVars
  <2>2. letters + 1 \in Wi!Key
    BY <1>1, <2>1 DEF Wi!Key
  <2>3. CASE osText' = Append(osText, letters') /\ queue' = << <<"update", osText'>> >>
    <3>1. osText' \in Seq(Wi!Key) /\ osText' = osText \o <<letters + 1>> /\ osText' # <<>>
      BY <1>1, <2>1, <2>2, <2>3
    <3>2. <<"update", osText'>> \in Wi!DomEvent /\ Wi!TextOf(<<"update", osText'>>) = <<>>
      BY <3>1, EventsAre
    <3>3. queue' \in Seq(Wi!DomEvent) /\ Len(queue') <= 3 /\ Flat(WinTexts(queue')) = <<>>
      BY <2>3, <3>2, QueueOf
    <3>4. Flat(WinTexts(queue')) \o osText' = osText \o <<letters + 1>>
      BY <1>4, <1>5, <3>1, <3>3
    <3>. QED
      BY <1>8, <2>1, <3>1, <3>3, <3>4
  <2>4. CASE /\ osText' = <<letters'>>
             /\ queue' = Wi!Finish \o << <<"start">>, <<"update", osText'>> >>
    <3>. DEFINE s == <<"start">>
                u == <<"update", osText'>>
                e == <<"end", osText>>
    <3>1. osText' \in Seq(Wi!Key) /\ osText' = <<letters + 1>> /\ osText' # <<>>
      BY <2>1, <2>2, <2>4
    <3>2. /\ s \in Wi!DomEvent /\ u \in Wi!DomEvent /\ e \in Wi!DomEvent
          /\ Wi!TextOf(s) = <<>> /\ Wi!TextOf(u) = <<>> /\ Wi!TextOf(e) = osText
      BY <1>1, <3>1, EventsAre
    <3>3. Wi!Finish = IF osText = <<>> THEN <<>> ELSE <<e>>
      BY DEF Wi!Finish
    <3>. HIDE DEF s, u, e
    <3>4. queue' = IF osText = <<>> THEN <<s, u>> ELSE <<e, s, u>>
      <4>1. queue' = Wi!Finish \o <<s, u>>
        BY <2>4 DEF s, u
      <4>. QED
        <5>1. ShortOnes(e, s, u)
          BY ShortQueues
        <5>2. <<>> \o <<s, u>> = <<s, u>> /\ <<e>> \o <<s, u>> = <<e, s, u>>
          BY <5>1, Zenon DEF ShortOnes
        <5>. QED
          BY <3>3, <4>1, <5>2
    <3>5. queue' \in Seq(Wi!DomEvent) /\ Len(queue') <= 3 /\ Flat(WinTexts(queue')) = osText
      <4>1. CASE osText = <<>>
        <5>1. queue' = <<s, u>>
          BY <3>4, <4>1
        <5>2. <<s, u>> \in Seq(Wi!DomEvent) /\ Len(<<s, u>>) <= 3
              /\ Flat(WinTexts(<<s, u>>)) = Wi!TextOf(s) \o Wi!TextOf(u)
          BY <3>2, QueueOf
        <5>. QED
          BY <1>5, <3>2, <4>1, <5>1, <5>2
      <4>2. CASE osText # <<>>
        <5>1. queue' = <<e, s, u>>
          BY <3>4, <4>2
        <5>2. <<e, s, u>> \in Seq(Wi!DomEvent) /\ Len(<<e, s, u>>) <= 3
              /\ Flat(WinTexts(<<e, s, u>>)) = (Wi!TextOf(e) \o Wi!TextOf(s)) \o Wi!TextOf(u)
          BY <3>2, ThreeInQueue
        <5>3. osText \o <<>> = osText
          BY <1>1, <1>4, <1>5
        <5>. QED
          BY <3>2, <5>1, <5>2, <5>3
      <4>. QED
        BY <4>1, <4>2
    <3>6. Flat(WinTexts(queue')) \o osText' = osText \o <<letters + 1>>
      BY <3>1, <3>5
    <3>. QED
      BY <1>8, <2>1, <3>1, <3>5, <3>6
  <2>5. CASE /\ Len(osText) > 1 /\ osText' = <<Wi!Last(osText), letters'>>
             /\ queue' = << <<"end", Wi!Front(osText)>>, <<"start">>, <<"update", osText'>> >>
    <3>. DEFINE s == <<"start">>
                u == <<"update", osText'>>
                e == <<"end", Wi!Front(osText)>>
    <3>1. /\ Wi!Front(osText) \in Seq(Wi!Key) /\ Wi!Last(osText) \in Wi!Key
          /\ Wi!Front(osText) \o <<Wi!Last(osText), letters + 1>> = osText \o <<letters + 1>>
      BY <1>1, <2>2, <2>5, FrontAndLast
    <3>2. osText' \in Seq(Wi!Key) /\ osText' # <<>> /\ osText' = <<Wi!Last(osText), letters + 1>>
      BY <2>1, <2>2, <2>5, <3>1
    <3>3. /\ s \in Wi!DomEvent /\ u \in Wi!DomEvent /\ e \in Wi!DomEvent
          /\ Wi!TextOf(s) = <<>> /\ Wi!TextOf(u) = <<>> /\ Wi!TextOf(e) = Wi!Front(osText)
      BY <3>1, <3>2, EventsAre
    <3>. HIDE DEF s, u, e
    <3>4. queue' = <<e, s, u>>
      BY <2>5 DEF s, u, e
    <3>5. /\ queue' \in Seq(Wi!DomEvent) /\ Len(queue') <= 3
          /\ Flat(WinTexts(queue')) = (Wi!TextOf(e) \o Wi!TextOf(s)) \o Wi!TextOf(u)
      BY <3>3, <3>4, ThreeInQueue
    <3>6. Wi!Front(osText) \o <<>> = Wi!Front(osText)
      BY <1>4, <1>5, <3>1
    <3>7. Flat(WinTexts(queue')) \o osText' = osText \o <<letters + 1>>
      BY <3>1, <3>2, <3>3, <3>5, <3>6
    <3>. QED
      BY <1>8, <2>1, <3>2, <3>5, <3>7
  <2>. QED
    BY <1>11, <2>3, <2>4, <2>5 DEF Wi!Compose
<1>12. CASE Wi!PlainKey
  <2>. DEFINE k == <<"key", <<letters'>>>>
              e == <<"end", osText>>
  <2>1. /\ letters < MaxLetters /\ queue = <<>> /\ letters' = letters + 1
        /\ UNCHANGED <<winActive, session, intercept, buffer, xtermComposes, scrolled, output, broken, toggles>>
        /\ osText' = <<>> /\ queue' = Wi!Finish \o <<k>>
    BY <1>12 DEF Wi!PlainKey, Wi!handlerVars
  <2>2. <<letters + 1>> \in Seq(Wi!Key)
    <3>1. letters + 1 \in Wi!Key
      BY <1>1, <2>1 DEF Wi!Key
    <3>. QED
      BY <3>1
  <2>3. /\ k \in Wi!DomEvent /\ e \in Wi!DomEvent
        /\ Wi!TextOf(k) = <<letters + 1>> /\ Wi!TextOf(e) = osText
    BY <1>1, <2>1, <2>2, EventsAre
  <2>4. Wi!Finish = IF osText = <<>> THEN <<>> ELSE <<e>>
    BY DEF Wi!Finish
  <2>5. e[1] = "end" /\ k[1] = "key"
    OBVIOUS
  <2>. HIDE DEF k, e
  <2>6. queue' = IF osText = <<>> THEN <<k>> ELSE <<e, k>>
    <3>1. <<>> \o <<k>> = <<k>> /\ <<e>> \o <<k>> = <<e, k>>
      <4>1. ShortOnes(e, k, k)
        BY ShortQueues
      <4>. QED
        BY <4>1, Zenon DEF ShortOnes
    <3>. QED
      BY <2>1, <2>4, <3>1
  <2>7. /\ queue' \in Seq(Wi!DomEvent) /\ Len(queue') <= 3 /\ Flat(WinTexts(queue')) = osText \o <<letters + 1>>
        /\ (osText # <<>> => Ending(queue')) /\ ~Opening(queue')
    <3>1. CASE osText = <<>>
      <4>1. queue' = <<k>>
        BY <2>6, <3>1
      <4>2. <<k>> \in Seq(Wi!DomEvent) /\ Len(<<k>>) <= 3 /\ Flat(WinTexts(<<k>>)) = Wi!TextOf(k) /\ ~Opening(<<k>>)
        BY <2>3, <2>5, QueueOf
      <4>3. <<>> \o <<letters + 1>> = <<letters + 1>>
        BY <1>4, <1>5, <2>2
      <4>. QED
        BY <2>3, <3>1, <4>1, <4>2, <4>3
    <3>2. CASE osText # <<>>
      <4>1. queue' = <<e, k>>
        BY <2>6, <3>2
      <4>2. /\ <<e, k>> \in Seq(Wi!DomEvent) /\ Len(<<e, k>>) <= 3
            /\ Flat(WinTexts(<<e, k>>)) = Wi!TextOf(e) \o Wi!TextOf(k)
            /\ Ending(<<e, k>>) /\ ~Opening(<<e, k>>)
        BY <2>3, <2>5, QueueOf
      <4>. QED
        BY <2>3, <4>1, <4>2
    <3>. QED
      BY <3>1, <3>2
  <2>8. Flat(WinTexts(queue')) \o osText' = osText \o <<letters + 1>>
    <3>1. Flat(WinTexts(queue')) \in Seq(Nat)
      BY <2>7, WinFlat
    <3>. QED
      BY <1>5, <2>1, <2>7, <3>1
  <2>9. osText' \in Seq(Wi!Key)
    BY <1>5, <2>1
  <2>. QED
    BY <1>8, <2>1, <2>7, <2>8, <2>9
<1>13. CASE Wi!FocusLost
  <2>. DEFINE b == <<"blur">>
              e == <<"end", osText>>
  <2>1. /\ queue = <<>> /\ osText' = <<>>
        /\ UNCHANGED <<letters, winActive, session, intercept, buffer, xtermComposes, scrolled, output, broken, toggles>>
        /\ queue' \in {Wi!Finish \o <<b>>, <<b>> \o Wi!Finish}
    BY <1>13 DEF Wi!FocusLost, Wi!handlerVars
  <2>2. /\ b \in Wi!DomEvent /\ e \in Wi!DomEvent /\ Wi!TextOf(b) = <<>> /\ Wi!TextOf(e) = osText
    BY <1>1, EventsAre
  <2>3. Wi!Finish = IF osText = <<>> THEN <<>> ELSE <<e>>
    BY DEF Wi!Finish
  <2>4. e[1] = "end" /\ b[1] = "blur"
    OBVIOUS
  <2>. HIDE DEF b, e
  <2>5. IF osText = <<>> THEN queue' = <<b>> ELSE queue' \in {<<e, b>>, <<b, e>>}
    <3>1. ShortOnes(e, b, b) /\ ShortOnes(b, e, e)
      BY ShortQueues
    <3>2. /\ <<>> \o <<b>> = <<b>> /\ <<b>> \o <<>> = <<b>>
          /\ <<e>> \o <<b>> = <<e, b>> /\ <<b>> \o <<e>> = <<b, e>>
      BY <3>1, Zenon DEF ShortOnes
    <3>. QED
      BY <2>1, <2>3, <3>2
  <2>. DEFINE Waits == /\ queue' \in Seq(Wi!DomEvent) /\ Len(queue') <= 3 /\ Flat(WinTexts(queue')) = osText
                       /\ (osText # <<>> => Ending(queue')) /\ ~Opening(queue')
  <2>6. Waits
    <3>0. osText \o <<>> = osText /\ <<>> \o osText = osText
      BY <1>1, <1>4, <1>5
    <3>1. CASE osText = <<>>
      <4>1. queue' = <<b>>
        BY <2>5, <3>1
      <4>2. <<b>> \in Seq(Wi!DomEvent) /\ Len(<<b>>) <= 3 /\ Flat(WinTexts(<<b>>)) = Wi!TextOf(b) /\ ~Opening(<<b>>)
        BY <2>2, <2>4, QueueOf
      <4>. QED
        BY <2>2, <3>1, <4>1, <4>2
    <3>2. ASSUME osText # <<>>, queue' = <<e, b>> PROVE Waits
      <4>2. /\ <<e, b>> \in Seq(Wi!DomEvent) /\ Len(<<e, b>>) <= 3
            /\ Flat(WinTexts(<<e, b>>)) = Wi!TextOf(e) \o Wi!TextOf(b)
            /\ Ending(<<e, b>>) /\ ~Opening(<<e, b>>)
        BY <2>2, <2>4, QueueOf
      <4>. QED
        BY <2>2, <3>0, <3>2, <4>2
    <3>3. ASSUME osText # <<>>, queue' = <<b, e>> PROVE Waits
      <4>2. /\ <<b, e>> \in Seq(Wi!DomEvent) /\ Len(<<b, e>>) <= 3
            /\ Flat(WinTexts(<<b, e>>)) = Wi!TextOf(b) \o Wi!TextOf(e)
            /\ Ending(<<b, e>>) /\ ~Opening(<<b, e>>)
        BY <2>2, <2>4, QueueOf
      <4>. QED
        BY <2>2, <3>0, <3>3, <4>2
    <3>. QED
      BY <2>5, <3>1, <3>2, <3>3
  <2>7. ~broken' => InOrder(output', Flat(WinTexts(queue')), osText', letters')
    <3>1. flat = <<>> /\ <<>> \in Seq(Nat) /\ osText \in Seq(Nat)
      BY <1>1, <1>4, <1>5, <2>1, QueueOf DEF flat
    <3>2. ~broken => (output \o <<>>) \o osText = UpTo(letters)
      BY <1>2, <3>1 DEF InOrder
    <3>3. output \o <<>> = output /\ (output \o osText) \o <<>> = output \o osText
      BY <1>4, <1>5, <3>1, Joined
    <3>4. ~broken => (output \o osText) \o <<>> = UpTo(letters)
      BY <3>2, <3>3
    <3>. QED
      BY <2>1, <2>6, <3>4 DEF InOrder
  <2>8. winActive' /\ buffer' # <<>> => osText' # <<>> \/ Ending(queue')
    <3>1. ~Ending(queue)
      BY <2>1, QueueOf
    <3>. QED
      BY <1>2, <2>1, <2>6, <3>1
  <2>9. osText' \in Seq(Wi!Key)
    BY <1>5, <2>1
  <2>. QED
    BY <1>1, <1>2, <1>4, <1>7, <2>1, <2>6, <2>7, <2>8, <2>9
<1>14. CASE Wi!Wheel \/ Wi!WheelPassed
  <2>1. /\ toggles' \in 0 .. MaxToggles /\ scrolled' \in BOOLEAN
        /\ UNCHANGED <<letters, osText, queue, winActive, session, intercept, buffer, xtermComposes, output, broken>>
    <3>1. CASE Wi!Wheel
      BY <1>1, <3>1 DEF Wi!Wheel, Wi!handlerVars
    <3>2. CASE Wi!WheelPassed
      BY <1>1, <3>2 DEF Wi!WheelPassed, Wi!handlerVars
    <3>. QED
      BY <1>14, <3>1, <3>2
  <2>. QED
    BY <1>1, <1>2, <1>4, <1>7, <2>1 DEF flat
<1>15. CASE Wi!CompositionStart
  <2>1. /\ Wi!Take("start")
        /\ UNCHANGED <<letters, osText, intercept, scrolled, output, broken, toggles>>
        /\ \/ ~intercept /\ xtermComposes' = TRUE /\ UNCHANGED <<winActive, session, buffer>>
           \/ UNCHANGED <<winActive, session, buffer, xtermComposes>>
           \/ /\ intercept /\ winActive' = TRUE /\ session' = TRUE /\ buffer' = IF session THEN buffer ELSE <<>>
              /\ UNCHANGED xtermComposes
    BY <1>15 DEF Wi!CompositionStart
  <2>2. /\ queue' \in Seq(Wi!DomEvent) /\ Len(queue') <= 3 /\ rest = Flat(WinTexts(queue'))
        /\ Ending(queue) <=> Ending(queue')
        /\ Opening(queue)
        /\ ~broken => InOrder(output, rest, osText, letters)
    BY <1>9, <1>23, <2>1
  <2>3. osText # <<>>
    BY <1>2, <2>2
  <2>4. buffer' \in Seq(Wi!Key) /\ winActive' \in BOOLEAN /\ session' \in BOOLEAN /\ xtermComposes' \in BOOLEAN
        /\ (winActive' => intercept)
    <3>1. buffer' \in {buffer, <<>>}
      BY <2>1
    <3>2. buffer' \in Seq(Wi!Key)
      BY <1>1, <1>5, <3>1
    <3>3. winActive' \in {winActive, TRUE} /\ session' \in {session, TRUE} /\ xtermComposes' \in {xtermComposes, TRUE}
      BY <2>1
    <3>4. winActive' => intercept
      BY <1>2, <2>1
    <3>. QED
      BY <1>1, <3>2, <3>3, <3>4
  <2>. QED
    BY <1>1, <1>4, <1>7, <2>1, <2>2, <2>3, <2>4
<1>16. CASE Wi!CompositionUpdate
  <2>1. /\ Wi!Take("update") /\ buffer' = IF intercept THEN Wi!Text ELSE buffer
        /\ UNCHANGED <<letters, osText, winActive, session, intercept, xtermComposes, scrolled, output, broken, toggles>>
    BY <1>16 DEF Wi!CompositionUpdate
  <2>2. /\ queue' \in Seq(Wi!DomEvent) /\ Len(queue') <= 3 /\ rest = Flat(WinTexts(queue'))
        /\ Opening(queue) /\ Wi!Text \in Seq(Wi!Key)
        /\ ~broken => InOrder(output, rest, osText, letters)
    BY <1>9, <1>23, <2>1
  <2>3. osText # <<>>
    BY <1>2, <2>2
  <2>4. buffer' \in Seq(Wi!Key)
    BY <1>1, <2>1, <2>2
  <2>. QED
    BY <1>1, <1>2, <1>4, <1>7, <2>1, <2>2, <2>3, <2>4
<1>17. CASE Wi!CompositionEnd
  <2>1. /\ Wi!Take("end")
        /\ UNCHANGED <<letters, osText, winActive, session, intercept, scrolled, toggles>>
        /\ \/ /\ intercept /\ output' = output \o Wi!Text /\ buffer' = <<>>
              /\ UNCHANGED <<xtermComposes, broken>>
           \/ /\ ~intercept /\ xtermComposes' = FALSE
              /\ \/ output' = output \o Wi!Text
                 \/ (winActive \/ ~xtermComposes) /\ UNCHANGED output
              /\ broken' = (broken \/ ~xtermComposes)
              /\ UNCHANGED buffer
    BY <1>17 DEF Wi!CompositionEnd, Wi!Emptied
  <2>2. /\ queue' \in Seq(Wi!DomEvent) /\ Len(queue') <= 3 /\ rest = Flat(WinTexts(queue'))
        /\ (Opening(queue') => Opening(queue)) /\ Wi!Text \in Seq(Wi!Key)
        /\ ~broken => InOrder(output \o Wi!Text, rest, osText, letters)
    BY <1>9, <1>10, <2>1
  <2>3. output \o Wi!Text \in Seq(0 .. MaxLetters)
    BY <1>4, <1>5, <2>2
  <2>4. /\ output' \in Seq(0 .. MaxLetters) /\ buffer' \in Seq(Wi!Key) /\ broken' \in BOOLEAN
        /\ xtermComposes' \in BOOLEAN
    BY <1>1, <1>4, <1>5, <2>1, <2>3
  <2>5. winActive /\ buffer' # <<>> => osText # <<>> \/ Ending(queue')
    BY <1>2, <2>1
  <2>6. ~broken' => InOrder(output', rest, osText, letters)
    BY <1>2, <2>1, <2>2
  <2>. QED
    BY <1>1, <1>2, <1>7, <2>1, <2>2, <2>4, <2>5, <2>6
\* endSession: a composition that is over has left nothing in the buffer.
<1>18. ASSUME NEW next \in Seq(Nat), next \in Seq(0 .. MaxLetters), winActive, Wi!SessionEnds(next),
              queue' \in Seq(Wi!DomEvent), ~Ending(queue') => ~Ending(queue)
       PROVE  /\ output' \in Seq(0 .. MaxLetters) /\ session' = FALSE /\ winActive' = FALSE /\ buffer' = <<>>
              /\ broken' \in BOOLEAN
              /\ ~broken' => ~broken /\ output' = output \o next
  <2>1. /\ output' = (output \o buffer) \o next /\ session' = FALSE /\ winActive' = FALSE /\ buffer' = <<>>
        /\ broken' = (broken \/ Wi!StillComposing(queue'))
    BY <1>18 DEF Wi!SessionEnds
  <2>2. Wi!StillComposing(queue') <=> osText # <<>> \/ Ending(queue')
    BY DEF Wi!StillComposing, Ending
  <2>3. buffer \in Seq(0 .. MaxLetters) /\ output \o buffer \in Seq(0 .. MaxLetters)
    BY <1>1, <1>4, <1>5
  <2>4. (output \o buffer) \o next \in Seq(0 .. MaxLetters)
    BY <1>5, <1>18, <2>3
  <2>5. ~broken' => ~broken /\ buffer = <<>>
    BY <1>2, <1>18, <2>1, <2>2
  <2>6. output \o <<>> = output
    BY <1>4, <1>5
  <2>. QED
    BY <1>1, <2>1, <2>4, <2>5, <2>6
<1>19. CASE Wi!KeyDown
  <2>1. /\ Wi!Take("key")
        /\ UNCHANGED <<letters, osText, intercept, xtermComposes, scrolled, toggles>>
        /\ \/ winActive /\ Wi!SessionEnds(Wi!Text)
           \/ ~winActive /\ output' = output \o Wi!Text /\ UNCHANGED <<winActive, session, buffer, broken>>
    BY <1>19 DEF Wi!KeyDown
  <2>2. /\ queue' \in Seq(Wi!DomEvent) /\ Len(queue') <= 3 /\ rest = Flat(WinTexts(queue'))
        /\ (Opening(queue') => Opening(queue)) /\ Wi!Text \in Seq(Wi!Key) /\ (~Ending(queue') => ~Ending(queue))
        /\ ~broken => InOrder(output \o Wi!Text, rest, osText, letters)
    BY <1>9, <1>10, <2>1
  <2>3. Wi!Text \in Seq(Nat) /\ Wi!Text \in Seq(0 .. MaxLetters)
    BY <1>4, <2>2
  <2>4. CASE winActive /\ Wi!SessionEnds(Wi!Text)
    <3>1. /\ output' \in Seq(0 .. MaxLetters) /\ session' = FALSE /\ winActive' = FALSE /\ buffer' = <<>>
          /\ broken' \in BOOLEAN
          /\ ~broken' => ~broken /\ output' = output \o Wi!Text
      BY <1>18, <2>2, <2>3, <2>4
    <3>. QED
      BY <1>1, <1>2, <1>5, <1>7, <2>1, <2>2, <3>1
  <2>5. CASE ~winActive /\ output' = output \o Wi!Text /\ UNCHANGED <<winActive, session, buffer, broken>>
    <3>1. output' \in Seq(0 .. MaxLetters)
      BY <1>4, <1>5, <2>3, <2>5
    <3>. QED
      BY <1>1, <1>2, <1>7, <2>1, <2>2, <2>5, <3>1
  <2>. QED
    BY <2>1, <2>4, <2>5
<1>20. CASE Wi!Blur
  <2>1. /\ Wi!Take("blur")
        /\ UNCHANGED <<letters, osText, intercept, xtermComposes, scrolled, toggles>>
        /\ \/ winActive /\ Wi!SessionEnds(<<>>)
           \/ UNCHANGED <<winActive, session, buffer, output, broken>>
    BY <1>20 DEF Wi!Blur
  <2>2. /\ queue' \in Seq(Wi!DomEvent) /\ Len(queue') <= 3 /\ rest = Flat(WinTexts(queue'))
        /\ (Opening(queue') => Opening(queue)) /\ (Ending(queue') <=> Ending(queue))
        /\ ~broken => InOrder(output, rest, osText, letters)
    BY <1>9, <1>23, <2>1
  <2>3. <<>> \in Seq(Nat) /\ <<>> \in Seq(0 .. MaxLetters) /\ output \o <<>> = output
    BY <1>4, <1>5, Joined
  <2>4. CASE winActive /\ Wi!SessionEnds(<<>>)
    <3>1. /\ output' \in Seq(0 .. MaxLetters) /\ session' = FALSE /\ winActive' = FALSE /\ buffer' = <<>>
          /\ broken' \in BOOLEAN
          /\ ~broken' => ~broken /\ output' = output
      BY <1>18, <2>2, <2>3, <2>4
    <3>. QED
      BY <1>1, <1>2, <1>5, <1>7, <2>1, <2>2, <3>1
  <2>5. CASE UNCHANGED <<winActive, session, buffer, output, broken>>
    BY <1>1, <1>2, <1>4, <1>7, <2>1, <2>2, <2>5
  <2>. QED
    BY <2>1, <2>4, <2>5
<1>21. CASE Wi!SetInterceptEnabled
  <2>1. /\ toggles' \in 0 .. MaxToggles /\ intercept' = ~intercept
        /\ UNCHANGED <<letters, osText, queue, session, xtermComposes, scrolled>>
    BY <1>1, <1>21 DEF Wi!SetInterceptEnabled
  <2>2. CASE intercept /\ winActive
    <3>1. /\ output' = output \o buffer /\ broken' = (broken \/ Wi!StillComposing(queue))
          /\ winActive' = FALSE /\ buffer' = <<>>
      BY <1>21, <2>2 DEF Wi!SetInterceptEnabled
    <3>2. Wi!StillComposing(queue) <=> osText # <<>> \/ Ending(queue)
      BY DEF Wi!StillComposing, Ending
    <3>3. output \o buffer \in Seq(0 .. MaxLetters) /\ output \o <<>> = output
      BY <1>1, <1>4, <1>5
    <3>4. ~broken' => ~broken /\ output' = output
      BY <1>2, <2>2, <3>1, <3>2, <3>3
    <3>5. broken' \in BOOLEAN
      BY <1>1, <3>1, <3>2
    <3>6. ~broken' => InOrder(output', Flat(WinTexts(queue')), osText', letters')
      BY <1>2, <2>1, <3>4 DEF flat
    <3>. QED
      BY <1>1, <1>2, <1>5, <1>7, <2>1, <3>1, <3>3, <3>5, <3>6
  <2>3. CASE ~(intercept /\ winActive)
    <3>1. UNCHANGED <<winActive, buffer, output, broken>>
      BY <1>21, <2>3 DEF Wi!SetInterceptEnabled
    <3>2. ~winActive
      BY <1>2, <2>3
    <3>3. ~broken' => InOrder(output', Flat(WinTexts(queue')), osText', letters')
      BY <1>2, <2>1, <3>1 DEF flat
    <3>. QED
      BY <1>1, <1>2, <1>4, <1>7, <2>1, <3>1, <3>2, <3>3
  <2>. QED
    BY <2>2, <2>3
<1>22. CASE UNCHANGED wiVars
  BY <1>1, <1>2, <1>4, <1>7, <1>22 DEF wiVars, flat
<1>. QED
  BY <1>11, <1>12, <1>13, <1>14, <1>15, <1>16, <1>17, <1>19, <1>20, <1>21, <1>22 DEF WinNext, Wi!Next

\* Nothing has been typed at first.
LEMMA WinBegins ==
  ASSUME Wi!Init
  PROVE  WinInv
<1>1. /\ <<>> \in Seq(Wi!DomEvent) /\ <<>> \in Seq(Wi!Key) /\ <<>> \in Seq(0 .. MaxLetters)
      /\ <<>> \in Seq(Nat) /\ <<>> \o <<>> = <<>> /\ Len(<<>>) = 0
  OBVIOUS
<1>2. UpTo(0) = <<>>
  <2>1. UpTo(0) \in Seq(Nat) /\ Len(UpTo(0)) = 0
    BY DEF UpTo
  <2>. QED
    BY <2>1, EmptySeq
<1>3. InOrder(<<>>, Flat(WinTexts(<<>>)), <<>>, 0) /\ ~Opening(<<>>)
  BY <1>1, <1>2, QueueOf DEF InOrder
<1>4. /\ letters = 0 /\ osText = <<>> /\ queue = <<>> /\ winActive = FALSE /\ session = FALSE
      /\ intercept \in BOOLEAN /\ buffer = <<>> /\ xtermComposes = FALSE /\ scrolled = FALSE
      /\ output = <<>> /\ broken = FALSE /\ toggles = 0
  BY DEF Wi!Init
<1>5. 0 \in 0 .. MaxLetters /\ 0 \in 0 .. MaxToggles
  BY InputAssumption
<1>6. Wi!TypeOK
  BY <1>1, <1>4, <1>5 DEF Wi!TypeOK
<1>7. Len(queue) <= 3 /\ osText \in Seq(Wi!Key) /\ buffer \in Seq(Wi!Key)
  BY <1>1, <1>4
<1>8. InOrder(output, Flat(WinTexts(queue)), osText, letters) /\ ~Opening(queue)
  BY <1>3, <1>4
<1>. QED
  BY <1>4, <1>6, <1>7, <1>8 DEF WinInv

\* Every letter arrives once and in order.
LEMMA WinArrivesOnce ==
  ASSUME WinInv
  PROVE  Wi!TextArrivesOnce
<1>1. Wi!InQueue = Flat(WinTexts(queue))
  BY DEF Wi!InQueue, Flat, WinTexts
<1>. QED
  BY <1>1 DEF WinInv, Wi!TextArrivesOnce, InOrder, UpTo

-----------------------------------------------------------------------------
\* Input under macOS. An update comes first or after a start; the last event of
\* a queue is no update; the first one is.
MacTexts(q) == [i \in DOMAIN q |-> Mi!TextOf(q[i])]
Adjacent(q) == \A i \in 1 .. Len(q) - 1 : q[i + 1][1] = "update" => q[i][1] = "start"
Settled(q) == q # <<>> /\ q[Len(q)][1] # "update"
Updating(q) == q # <<>> /\ q[1][1] = "update"
\* What the PTY got and then what is held back.
OutOf(flat, syllable, jamo) == flat \o (syllable \o jamo)
MacOut == OutOf(Flat(sent), legacySyllable, pendingLegacyJamo)

MacTypes ==
  /\ typed \in Seq(Mi!Kind) /\ Len(typed) <= MaxKeys
  /\ macEvents \in Seq(Mi!Event) /\ Len(macEvents) <= 3
  /\ composing \in Seq(Mi!Letter) /\ inputBuffer \in Seq(Mi!Letter)
  /\ pendingLegacyJamo \in Seq(Mi!Letter) /\ legacySyllable \in Seq(Mi!Letter)
  /\ sent \in Seq(Seq(Mi!Letter))
  /\ switched \in BOOLEAN /\ imeActive \in BOOLEAN /\ sessionActive \in BOOLEAN
  /\ compositionActive \in BOOLEAN /\ cut \in BOOLEAN /\ overrun \in BOOLEAN

\* A consonant is told outside a composition when nothing is composed; something is held
\* in a session, while the input method is active; and as long as no composition was cut
\* short a text is composed between a start and an end that were handled, or is still told.
MacInv ==
  /\ MacTypes
  /\ switched => composing = <<>>
  /\ sessionActive \/ (legacySyllable = <<>> /\ pendingLegacyJamo = <<>>)
  /\ Adjacent(macEvents)
  /\ Settled(macEvents) => composing = <<>>
  /\ ~cut => (Updating(macEvents) \/ (macEvents = <<>> /\ composing # <<>>) => compositionActive)
  /\ ~cut => (compositionActive \/ inputBuffer = <<>>)
  /\ ~overrun => (imeActive \/ (legacySyllable = <<>> /\ pendingLegacyJamo = <<>>))
  /\ ~cut /\ ~overrun => InOrder(MacOut, Flat(MacTexts(macEvents)), composing, Len(typed))

\* What an event is.
LEMMA MacEventIs ==
  ASSUME NEW e \in Mi!Event
  PROVE  /\ Mi!TextOf(e) \in Seq(Nat)
         /\ e[1] \in {"start", "blur", "update", "end", "insert", "key"}
         /\ e[1] \in {"update", "end", "insert", "key"} => e[2] \in Seq(Mi!Letter) /\ e[2] \in Seq(Nat)
<1>1. Mi!Letter \subseteq Nat
  BY InputAssumption DEF Mi!Letter
<1>2. \A s \in Seq(Mi!Letter) : s \in Seq(Nat)
  BY <1>1, SeqMonotonic
<1>3. \/ e \in {<<"start">>, <<"blur">>}
      \/ e \in {"update", "end", "insert", "key"} \X Seq(Mi!Letter)
  BY DEF Mi!Event
<1>4. CASE e \in {<<"start">>, <<"blur">>}
  <2>1. e[1] \in {"start", "blur"}
    BY <1>4
  <2>2. Mi!TextOf(e) = <<>>
    BY <2>1 DEF Mi!TextOf
  <2>. QED
    BY <2>1, <2>2, Joined
<1>5. CASE e \in {"update", "end", "insert", "key"} \X Seq(Mi!Letter)
  <2>1. e[1] \in {"update", "end", "insert", "key"} /\ e[2] \in Seq(Mi!Letter)
    BY <1>5
  <2>2. Mi!TextOf(e) \in {<<>>, e[2]}
    BY DEF Mi!TextOf
  <2>3. <<>> \in Seq(Nat)
    BY Joined
  <2>. QED
    BY <1>2, <2>1, <2>2, <2>3
<1>. QED
  BY <1>3, <1>4, <1>5

\* Their texts are texts.
MacText == [e \in Mi!Event |-> Mi!TextOf(e)]
LEMMA MacTextIs ==
  /\ MacText \in [Mi!Event -> Seq(Nat)]
  /\ \A e \in Mi!Event : MacText[e] = Mi!TextOf(e)
  /\ \A q \in Seq(Mi!Event) : MacTexts(q) = Texts(MacText, q)
<1>1. MacText \in [Mi!Event -> Seq(Nat)]
  BY MacEventIs DEF MacText
<1>2. \A e \in Mi!Event : MacText[e] = Mi!TextOf(e)
  BY DEF MacText
<1>3. ASSUME NEW q \in Seq(Mi!Event) PROVE MacTexts(q) = Texts(MacText, q)
  <2>1. \A i \in DOMAIN q : q[i] \in Mi!Event
    OBVIOUS
  <2>. QED
    BY <1>2, <2>1 DEF MacTexts, Texts
<1>. QED
  BY <1>1, <1>2, <1>3

\* An event is handled.
LEMMA MacTake ==
  ASSUME NEW q \in Seq(Mi!Event), Len(q) <= 3, q # <<>>, Adjacent(q)
  PROVE  /\ Tail(q) \in Seq(Mi!Event) /\ Len(Tail(q)) <= 3 /\ Head(q) \in Mi!Event
         /\ Flat(MacTexts(Tail(q))) \in Seq(Nat) /\ Flat(MacTexts(q)) \in Seq(Nat)
         /\ Flat(MacTexts(q)) = Mi!TextOf(Head(q)) \o Flat(MacTexts(Tail(q)))
         /\ Adjacent(Tail(q))
         /\ Settled(Tail(q)) => Settled(q)
         /\ Tail(q) = <<>> /\ Head(q)[1] # "update" => Settled(q)
         /\ Updating(q) <=> Head(q)[1] = "update"
         /\ Updating(Tail(q)) => Head(q)[1] = "start"
<1>. DEFINE t == Tail(q)
<1>1. /\ t \in Seq(Mi!Event) /\ Len(t) <= 3 /\ Head(q) \in Mi!Event /\ Head(q) = q[1]
      /\ Len(q) \in Nat \ {0} /\ Len(t) = Len(q) - 1
      /\ \A i \in 1 .. Len(t) : t[i] = q[i + 1] /\ i + 1 \in 1 .. Len(q)
      /\ Flat(Texts(MacText, t)) \in Seq(Nat)
      /\ Flat(Texts(MacText, q)) = MacText[Head(q)] \o Flat(Texts(MacText, t))
  BY MacTextIs, FlatTextsTake, Zenon
<1>2. /\ MacTexts(t) = Texts(MacText, t) /\ MacTexts(q) = Texts(MacText, q)
      /\ MacText[Head(q)] = Mi!TextOf(Head(q))
  <2>. HIDE DEF t
  <2>. QED
    BY <1>1, MacTextIs
<1>3. Flat(Texts(MacText, q)) \in Seq(Nat)
  BY MacTextIs, FlatTexts, Zenon
<1>4. (t = <<>> <=> Len(t) = 0) /\ (t # <<>> => Len(t) \in 1 .. Len(t))
  <2>1. t = <<>> <=> Len(t) = 0
    <3>1. Len(<<>>) = 0
      OBVIOUS
    <3>. HIDE DEF t
    <3>. QED
      BY <1>1, <3>1, EmptySeq
  <2>. HIDE DEF t
  <2>. QED
    BY <1>1, <2>1
<1>. HIDE DEF t
<1>5. Adjacent(t)
  <2>1. ASSUME NEW i \in 1 .. Len(t) - 1, t[i + 1][1] = "update" PROVE t[i][1] = "start"
    <3>1. i \in 1 .. Len(t) /\ i + 1 \in 1 .. Len(t) /\ i + 1 \in 1 .. Len(q) - 1
      BY <1>1, <2>1
    <3>2. t[i] = q[i + 1] /\ t[i + 1] = q[(i + 1) + 1]
      BY <1>1, <3>1
    <3>. QED
      BY <2>1, <3>1, <3>2 DEF Adjacent
  <2>. QED
    BY <2>1 DEF Adjacent
<1>6. Settled(t) => Settled(q)
  <2>. SUFFICES ASSUME Settled(t) PROVE Settled(q)
    OBVIOUS
  <2>1. t[Len(t)] = q[Len(t) + 1] /\ Len(t) + 1 = Len(q)
    BY <1>1, <1>4 DEF Settled
  <2>. QED
    BY <2>1 DEF Settled
<1>7. t = <<>> /\ Head(q)[1] # "update" => Settled(q)
  <2>1. t = <<>> => Len(q) = 1
    BY <1>1, <1>4
  <2>. QED
    BY <1>1, <2>1 DEF Settled
<1>8. Updating(q) <=> Head(q)[1] = "update"
  BY <1>1 DEF Updating
<1>9. Updating(t) => Head(q)[1] = "start"
  <2>. SUFFICES ASSUME Updating(t) PROVE Head(q)[1] = "start"
    OBVIOUS
  <2>1. 1 \in 1 .. Len(t) /\ 1 \in 1 .. Len(q) - 1
    BY <1>1, <1>4 DEF Updating
  <2>2. t[1] = q[1 + 1]
    BY <1>1, <2>1
  <2>. QED
    BY <1>1, <2>1, <2>2 DEF Adjacent, Updating
<1>. QED
  BY <1>1, <1>2, <1>3, <1>5, <1>6, <1>7, <1>8, <1>9 DEF t

\* An event of each kind.
LEMMA MacEventsAre ==
  /\ <<"start">> \in Mi!Event /\ <<"blur">> \in Mi!Event
  /\ Mi!TextOf(<<"start">>) = <<>> /\ Mi!TextOf(<<"blur">>) = <<>>
  /\ \A s \in Seq(Mi!Letter) :
       /\ <<"update", s>> \in Mi!Event /\ <<"end", s>> \in Mi!Event
       /\ <<"key", s>> \in Mi!Event /\ <<"insert", s>> \in Mi!Event
       /\ Mi!TextOf(<<"update", s>>) = <<>> /\ Mi!TextOf(<<"end", s>>) = s
       /\ Mi!TextOf(<<"key", s>>) = s /\ Mi!TextOf(<<"insert", s>>) = s
BY DEF Mi!Event, Mi!TextOf

\* What is in a queue put there, and that it is one.
Queued(q, text) == /\ q \in Seq(Mi!Event) /\ Len(q) <= 3 /\ Adjacent(q)
                   /\ Flat(MacTexts(q)) = text

LEMMA NoneQueued == Queued(<<>>, <<>>) /\ ~Settled(<<>>) /\ ~Updating(<<>>)
<1>1. <<>> \in Seq(Mi!Event) /\ Len(<<>>) = 0
  OBVIOUS
<1>2. Flat(Texts(MacText, <<>>)) = <<>>
  BY MacTextIs, FlatOfNone, Zenon
<1>3. MacTexts(<<>>) = Texts(MacText, <<>>)
  BY <1>1, MacTextIs
<1>. QED
  BY <1>1, <1>2, <1>3 DEF Queued, Adjacent, Settled, Updating

LEMMA OneQueued ==
  ASSUME NEW a \in Mi!Event
  PROVE  /\ Queued(<<a>>, Mi!TextOf(a))
         /\ Settled(<<a>>) <=> a[1] # "update"
         /\ Updating(<<a>>) <=> a[1] = "update"
<1>. DEFINE q == <<a>>
<1>1. q \in Seq(Mi!Event) /\ Len(q) = 1 /\ q[1] = a /\ q # <<>>
  OBVIOUS
<1>2. Flat(Texts(MacText, q)) = MacText[a]
  BY MacTextIs, FlatOfOne, Zenon
<1>. HIDE DEF q
<1>3. Flat(MacTexts(q)) = Mi!TextOf(a)
  BY <1>1, <1>2, MacTextIs
<1>4. Adjacent(q)
  BY <1>1 DEF Adjacent
<1>5. Len(q) <= 3
  BY <1>1
<1>6. Queued(q, Mi!TextOf(a))
  BY <1>1, <1>3, <1>4, <1>5 DEF Queued
<1>7. (Settled(q) <=> a[1] # "update") /\ (Updating(q) <=> a[1] = "update")
  BY <1>1 DEF Settled, Updating
<1>. QED
  BY <1>6, <1>7 DEF q

LEMMA TwoQueued ==
  ASSUME NEW a \in Mi!Event, NEW b \in Mi!Event, b[1] = "update" => a[1] = "start"
  PROVE  /\ Queued(<<a, b>>, Mi!TextOf(a) \o Mi!TextOf(b))
         /\ Settled(<<a, b>>) <=> b[1] # "update"
         /\ Updating(<<a, b>>) <=> a[1] = "update"
<1>. DEFINE q == <<a, b>>
<1>1. q \in Seq(Mi!Event) /\ Len(q) = 2 /\ q[1] = a /\ q[2] = b /\ q # <<>>
  OBVIOUS
<1>2. Flat(Texts(MacText, q)) = MacText[a] \o MacText[b]
  BY MacTextIs, FlatOfTwo, Zenon
<1>. HIDE DEF q
<1>3. Flat(MacTexts(q)) = Mi!TextOf(a) \o Mi!TextOf(b)
  BY <1>1, <1>2, MacTextIs
<1>4. Adjacent(q)
  <2>1. \A i \in 1 .. Len(q) - 1 : i = 1 /\ i + 1 = 2
    BY <1>1
  <2>. QED
    BY <1>1, <2>1 DEF Adjacent
<1>5. Len(q) <= 3
  BY <1>1
<1>6. Queued(q, Mi!TextOf(a) \o Mi!TextOf(b))
  BY <1>1, <1>3, <1>4, <1>5 DEF Queued
<1>7. (Settled(q) <=> b[1] # "update") /\ (Updating(q) <=> a[1] = "update")
  BY <1>1 DEF Settled, Updating
<1>. QED
  BY <1>6, <1>7 DEF q

LEMMA ThreeQueued ==
  ASSUME NEW a \in Mi!Event, NEW b \in Mi!Event, NEW c \in Mi!Event,
         b[1] # "update", c[1] = "update" => b[1] = "start"
  PROVE  /\ Queued(<<a, b, c>>, (Mi!TextOf(a) \o Mi!TextOf(b)) \o Mi!TextOf(c))
         /\ Settled(<<a, b, c>>) <=> c[1] # "update"
         /\ Updating(<<a, b, c>>) <=> a[1] = "update"
<1>. DEFINE q == <<a, b, c>>
<1>0. MacText \in [Mi!Event -> Seq(Nat)]
  BY MacTextIs
<1>1. q \in Seq(Mi!Event) /\ Len(q) = 3 /\ q[1] = a /\ q[2] = b /\ q[3] = c /\ q # <<>>
  OBVIOUS
<1>2. FlatThree(MacText, a, b, c)
  BY <1>0, FlatOfThreeEvents
<1>3. Flat(Texts(MacText, q)) = (MacText[a] \o MacText[b]) \o MacText[c]
  BY <1>2, Zenon DEF FlatThree
<1>. HIDE DEF q
<1>4. MacText[a] = Mi!TextOf(a) /\ MacText[b] = Mi!TextOf(b) /\ MacText[c] = Mi!TextOf(c)
  BY MacTextIs
<1>5. MacTexts(q) = Texts(MacText, q)
  BY <1>1, MacTextIs
<1>6. Adjacent(q)
  <2>1. \A i \in 1 .. Len(q) - 1 : (i = 1 /\ i + 1 = 2) \/ (i = 2 /\ i + 1 = 3)
    BY <1>1
  <2>. QED
    BY <1>1, <2>1 DEF Adjacent
<1>7. Len(q) <= 3
  BY <1>1
<1>8. Queued(q, (Mi!TextOf(a) \o Mi!TextOf(b)) \o Mi!TextOf(c))
  BY <1>1, <1>3, <1>4, <1>5, <1>6, <1>7, Zenon DEF Queued
<1>9. (Settled(q) <=> c[1] # "update") /\ (Updating(q) <=> a[1] = "update")
  BY <1>1 DEF Settled, Updating
<1>. QED
  BY <1>8, <1>9 DEF q

\* A text is sent after others, if there is one.
LEMMA FlatWith ==
  ASSUME NEW T, NEW ss \in Seq(Seq(T)), NEW b \in Seq(T)
  PROVE  /\ ss \o <<b>> \in Seq(Seq(T)) /\ Flat(ss \o <<b>>) = Flat(ss) \o b
         /\ Flat(ss) \in Seq(T) /\ ss \o <<>> = ss
<1>1. ss \o <<b>> = Append(ss, b)
  OBVIOUS
<1>2. Append(ss, b) \in Seq(Seq(T)) /\ ss \o <<>> = ss
  OBVIOUS
<1>3. Flat(Append(ss, b)) = Flat(ss) \o b
  BY FlatGrows DEF Flat
<1>4. Flat(ss) \in Seq(T)
  BY FlatSequence DEF Flat
<1>. QED
  BY <1>1, <1>2, <1>3, <1>4

LEMMA FlatNonempty ==
  ASSUME NEW T, NEW ss \in Seq(Seq(T)), NEW b \in Seq(T)
  PROVE  /\ ss \o Mi!Nonempty(b) \in Seq(Seq(T)) /\ Flat(ss \o Mi!Nonempty(b)) = Flat(ss) \o b
         /\ Flat(ss) \in Seq(T) /\ ss \o <<>> = ss
<1>1. /\ ss \o <<b>> \in Seq(Seq(T)) /\ Flat(ss \o <<b>>) = Flat(ss) \o b
      /\ Flat(ss) \in Seq(T) /\ ss \o <<>> = ss
  BY FlatWith
<1>2. CASE b = <<>>
  <2>1. Flat(ss) \o <<>> = Flat(ss)
    BY <1>1, Joined
  <2>. QED
    BY <1>1, <1>2, <2>1 DEF Mi!Nonempty
<1>3. CASE b # <<>>
  BY <1>1, <1>3 DEF Mi!Nonempty
<1>. QED
  BY <1>2, <1>3

\* What was sent and what is held back, when it is sent or held back longer.
HeldOn(f, y, p) == OutOf(f, y \o p, <<>>) = OutOf(f, y, <<>>) \o p
HeldNow(f, y, p) == OutOf(f, y \o p, <<>>) = OutOf(f, <<>>, y) \o p
SentOn(f, p) == OutOf(f \o p, <<>>, <<>>) = OutOf(f, <<>>, <<>>) \o p
LEMMA HeldBack ==
  ASSUME NEW f \in Seq(Nat), NEW y \in Seq(Nat), NEW p \in Seq(Nat)
  PROVE  /\ OutOf(f, y, p) \in Seq(Nat)
         /\ OutOf(f \o y, <<>>, p) = OutOf(f, y, p)
         /\ OutOf(f \o p, <<>>, <<>>) = OutOf(f, <<>>, p)
         /\ OutOf(f \o p, <<>>, <<>>) = OutOf(f, <<>>, <<>>) \o p
         /\ OutOf(f, y, p) = OutOf(f, y, <<>>) \o p
         /\ HeldOn(f, y, p) /\ HeldNow(f, y, p) /\ SentOn(f, p)
<1>1. \A a, b, c \in Seq(Nat) : (a \o b) \o c = a \o (b \o c)
  BY Joined
<1>2. \A a \in Seq(Nat) : a \o <<>> = a /\ <<>> \o a = a
  BY Joined
<1>3. <<>> \in Seq(Nat) /\ f \o y \in Seq(Nat) /\ f \o p \in Seq(Nat) /\ y \o p \in Seq(Nat)
      /\ f \o (y \o p) \in Seq(Nat)
  BY Joined
<1>4. (f \o y) \o p = f \o (y \o p)
  BY <1>1, Zenon
<1>5. /\ <<>> \o p = p /\ <<>> \o <<>> = <<>> /\ y \o <<>> = y /\ <<>> \o y = y
      /\ f \o <<>> = f /\ (f \o p) \o <<>> = f \o p /\ (y \o p) \o <<>> = y \o p
  BY <1>2, <1>3
<1>6. OutOf(f, y, p) \in Seq(Nat)
  BY <1>3, Zenon DEF OutOf
<1>7. OutOf(f \o y, <<>>, p) = OutOf(f, y, p)
  BY <1>4, <1>5, Zenon DEF OutOf
<1>8. OutOf(f \o p, <<>>, <<>>) = OutOf(f, <<>>, p)
  BY <1>5, Zenon DEF OutOf
<1>9. OutOf(f \o p, <<>>, <<>>) = OutOf(f, <<>>, <<>>) \o p
  BY <1>5, Zenon DEF OutOf
<1>10. OutOf(f, y, p) = OutOf(f, y, <<>>) \o p
  BY <1>4, <1>5, Zenon DEF OutOf
<1>11. HeldOn(f, y, p)
  BY <1>4, <1>5, Zenon DEF OutOf, HeldOn
<1>12. HeldNow(f, y, p)
  BY <1>4, <1>5, Zenon DEF OutOf, HeldNow
<1>13. SentOn(f, p)
  BY <1>9, Zenon DEF SentOn
<1>. QED
  BY <1>6, <1>7, <1>8, <1>9, <1>10, <1>11, <1>12, <1>13

\* Letters are numbers.
LEMMA MacLetters ==
  ASSUME MacTypes
  PROVE  /\ \A s \in Seq(Mi!Letter) : s \in Seq(Nat)
         /\ Flat(sent) \in Seq(Mi!Letter) /\ Flat(sent) \in Seq(Nat)
         /\ legacySyllable \in Seq(Nat) /\ pendingLegacyJamo \in Seq(Nat) /\ MacOut \in Seq(Nat)
<1>1. Mi!Letter \subseteq Nat
  BY InputAssumption DEF Mi!Letter
<1>2. \A s \in Seq(Mi!Letter) : s \in Seq(Nat)
  BY <1>1, SeqMonotonic
<1>3. Flat(sent) \in Seq(Mi!Letter)
  BY FlatSequence DEF Flat, MacTypes
<1>4. Flat(sent) \in Seq(Nat) /\ legacySyllable \in Seq(Nat) /\ pendingLegacyJamo \in Seq(Nat)
  BY <1>2, <1>3 DEF MacTypes
<1>. QED
  BY <1>2, <1>3, <1>4, HeldBack DEF MacOut

\* What is held back is sent: all of it, unless both a syllable and a consonant are held.
LEMMA LegacySent ==
  ASSUME MacTypes
  PROVE  /\ sent \o Mi!Legacy \in Seq(Seq(Mi!Letter)) /\ Flat(sent \o Mi!Legacy) \in Seq(Nat)
         /\ legacySyllable = <<>> \/ pendingLegacyJamo = <<>> =>
              OutOf(Flat(sent \o Mi!Legacy), <<>>, <<>>) = MacOut
<1>1. /\ Flat(sent) \in Seq(Nat) /\ legacySyllable \in Seq(Nat) /\ pendingLegacyJamo \in Seq(Nat)
      /\ \A s \in Seq(Mi!Letter) : s \in Seq(Nat)
  BY MacLetters
<1>2. /\ sent \in Seq(Seq(Mi!Letter)) /\ legacySyllable \in Seq(Mi!Letter) /\ pendingLegacyJamo \in Seq(Mi!Letter)
  BY DEF MacTypes
<1>3. /\ sent \o <<legacySyllable>> \in Seq(Seq(Mi!Letter)) /\ sent \o <<>> = sent
      /\ Flat(sent \o <<legacySyllable>>) = Flat(sent) \o legacySyllable
  BY <1>2, FlatWith
<1>4. /\ sent \o <<pendingLegacyJamo>> \in Seq(Seq(Mi!Letter))
      /\ Flat(sent \o <<pendingLegacyJamo>>) = Flat(sent) \o pendingLegacyJamo
  BY <1>2, FlatWith
<1>5. sent \o Mi!Legacy \in Seq(Seq(Mi!Letter))
  BY <1>2, <1>3, <1>4 DEF Mi!Legacy
<1>6. Flat(sent \o Mi!Legacy) \in Seq(Nat)
  <2>1. Flat(sent \o Mi!Legacy) \in Seq(Mi!Letter)
    BY <1>5, FlatSequence DEF Flat
  <2>. QED
    BY <1>1, <2>1
<1>7. ASSUME legacySyllable # <<>>, pendingLegacyJamo = <<>>
      PROVE  OutOf(Flat(sent \o Mi!Legacy), <<>>, <<>>) = MacOut
  <2>1. Mi!Legacy = <<legacySyllable>>
    BY <1>7 DEF Mi!Legacy
  <2>2. <<>> \in Seq(Nat)
    BY Joined
  <2>3. OutOf(Flat(sent) \o legacySyllable, <<>>, <<>>) = OutOf(Flat(sent), legacySyllable, <<>>)
    BY <1>1, <2>2, HeldBack
  <2>. QED
    BY <1>3, <1>7, <2>1, <2>3, Zenon DEF MacOut
<1>8. ASSUME legacySyllable = <<>>, pendingLegacyJamo # <<>>
      PROVE  OutOf(Flat(sent \o Mi!Legacy), <<>>, <<>>) = MacOut
  <2>1. Mi!Legacy = <<pendingLegacyJamo>>
    BY <1>8 DEF Mi!Legacy
  <2>3. OutOf(Flat(sent) \o pendingLegacyJamo, <<>>, <<>>) = OutOf(Flat(sent), <<>>, pendingLegacyJamo)
    BY <1>1, HeldBack
  <2>. QED
    BY <1>4, <1>8, <2>1, <2>3, Zenon DEF MacOut
<1>9. ASSUME legacySyllable = <<>>, pendingLegacyJamo = <<>>
      PROVE  OutOf(Flat(sent \o Mi!Legacy), <<>>, <<>>) = MacOut
  <2>1. Mi!Legacy = <<>>
    BY <1>9 DEF Mi!Legacy
  <2>. QED
    BY <1>3, <1>9, <2>1, Zenon DEF MacOut
<1>. QED
  BY <1>5, <1>6, <1>7, <1>8, <1>9

LEMMA LegacyForgotten ==
  ASSUME MacTypes, Mi!FlushLegacyState
  PROVE  /\ legacySyllable' \in Seq(Mi!Letter) /\ pendingLegacyJamo' \in Seq(Mi!Letter)
         /\ legacySyllable' \in {legacySyllable, <<>>} /\ pendingLegacyJamo' \in {pendingLegacyJamo, <<>>}
         /\ legacySyllable = <<>> \/ pendingLegacyJamo = <<>> =>
              legacySyllable' = <<>> /\ pendingLegacyJamo' = <<>>
<1>1. legacySyllable' \in {legacySyllable, <<>>} /\ pendingLegacyJamo' \in {pendingLegacyJamo, <<>>}
  BY DEF Mi!FlushLegacyState
<1>2. <<>> \in Seq(Mi!Letter)
  BY Joined
<1>3. legacySyllable' \in Seq(Mi!Letter) /\ pendingLegacyJamo' \in Seq(Mi!Letter)
  BY <1>1, <1>2 DEF MacTypes
<1>4. legacySyllable = <<>> \/ pendingLegacyJamo = <<>> => legacySyllable' = <<>> /\ pendingLegacyJamo' = <<>>
  BY DEF Mi!FlushLegacyState
<1>. QED
  BY <1>1, <1>3, <1>4

\* A session ends: everything is sent, and a key after it.
LEMMA SessionEnded ==
  ASSUME MacTypes, NEW next, Mi!EndSession(next),
         next = <<>> \/ \E d \in Seq(Mi!Letter) : next = <<d>>
  PROVE  /\ sent' \in Seq(Seq(Mi!Letter)) /\ legacySyllable' = <<>> /\ pendingLegacyJamo' = <<>>
         /\ inputBuffer' = <<>> /\ sessionActive' = FALSE /\ imeActive' = FALSE /\ compositionActive' = FALSE
         /\ cut' = (cut \/ compositionActive)
         /\ inputBuffer = <<>> /\ next = <<>> => MacOut' = MacOut
         /\ \A d \in Seq(Mi!Letter) : inputBuffer = <<>> /\ next = <<d>> => MacOut' = MacOut \o d
<1>. DEFINE s1 == sent \o Mi!Nonempty(legacySyllable)
            s2 == s1 \o (IF legacySyllable = <<>> THEN Mi!Nonempty(pendingLegacyJamo) ELSE <<>>)
            s3 == s2 \o Mi!Nonempty(inputBuffer)
            s4 == s3 \o (IF legacySyllable # <<>> THEN Mi!Nonempty(pendingLegacyJamo) ELSE <<>>)
            f == Flat(sent)
<1>1. /\ sent' = s4 \o next /\ legacySyllable' = <<>> /\ pendingLegacyJamo' = <<>>
      /\ inputBuffer' = <<>> /\ sessionActive' = FALSE /\ imeActive' = FALSE /\ compositionActive' = FALSE
      /\ cut' = (cut \/ compositionActive)
  BY DEF Mi!EndSession, Mi!Forgotten
<1>2. /\ f \in Seq(Nat) /\ legacySyllable \in Seq(Nat) /\ pendingLegacyJamo \in Seq(Nat)
      /\ \A s \in Seq(Mi!Letter) : s \in Seq(Nat)
  BY MacLetters
<1>3. /\ sent \in Seq(Seq(Mi!Letter)) /\ legacySyllable \in Seq(Mi!Letter)
      /\ pendingLegacyJamo \in Seq(Mi!Letter) /\ inputBuffer \in Seq(Mi!Letter)
  BY DEF MacTypes
<1>4. s1 \in Seq(Seq(Mi!Letter)) /\ Flat(s1) = f \o legacySyllable /\ Flat(s1) \in Seq(Mi!Letter)
  <2>1. s1 \in Seq(Seq(Mi!Letter)) /\ Flat(s1) = f \o legacySyllable
    BY <1>3, FlatNonempty
  <2>. HIDE DEF s1
  <2>. QED
    BY <2>1, FlatSequence DEF Flat
<1>5. /\ s2 \in Seq(Seq(Mi!Letter))
      /\ Flat(s2) = IF legacySyllable = <<>> THEN Flat(s1) \o pendingLegacyJamo ELSE Flat(s1)
  <2>. HIDE DEF s1
  <2>1. /\ s1 \o Mi!Nonempty(pendingLegacyJamo) \in Seq(Seq(Mi!Letter))
        /\ Flat(s1 \o Mi!Nonempty(pendingLegacyJamo)) = Flat(s1) \o pendingLegacyJamo /\ s1 \o <<>> = s1
    <3>1. s1 \in Seq(Seq(Mi!Letter)) /\ pendingLegacyJamo \in Seq(Mi!Letter)
      BY <1>3, <1>4
    <3>. QED
      BY <3>1, FlatNonempty
  <2>. QED
    BY <1>4, <2>1
<1>6. s3 \in Seq(Seq(Mi!Letter)) /\ (inputBuffer = <<>> => Flat(s3) = Flat(s2))
  <2>. HIDE DEF s2
  <2>1. s3 \in Seq(Seq(Mi!Letter)) /\ s2 \o <<>> = s2
    BY <1>3, <1>5, FlatNonempty
  <2>. QED
    BY <2>1 DEF Mi!Nonempty
<1>7. /\ s4 \in Seq(Seq(Mi!Letter))
      /\ Flat(s4) = IF legacySyllable = <<>> THEN Flat(s3) ELSE Flat(s3) \o pendingLegacyJamo
  <2>. HIDE DEF s3
  <2>1. /\ s3 \o Mi!Nonempty(pendingLegacyJamo) \in Seq(Seq(Mi!Letter))
        /\ Flat(s3 \o Mi!Nonempty(pendingLegacyJamo)) = Flat(s3) \o pendingLegacyJamo /\ s3 \o <<>> = s3
    <3>1. s3 \in Seq(Seq(Mi!Letter)) /\ pendingLegacyJamo \in Seq(Mi!Letter)
      BY <1>3, <1>6
    <3>. QED
      BY <3>1, FlatNonempty
  <2>. QED
    BY <1>6, <2>1
<1>. HIDE DEF s1, s2, s3, s4
<1>8. inputBuffer = <<>> => Flat(s4) = (f \o legacySyllable) \o pendingLegacyJamo
  BY <1>4, <1>5, <1>6, <1>7
<1>9. s4 \o <<>> = s4 /\ \A d \in Seq(Mi!Letter) : s4 \o <<d>> \in Seq(Seq(Mi!Letter)) /\ Flat(s4 \o <<d>>) = Flat(s4) \o d
  <2>0. s4 \in Seq(Seq(Mi!Letter)) /\ <<>> \in Seq(Mi!Letter)
    BY <1>7, Joined
  <2>1. \A d \in Seq(Mi!Letter) : /\ s4 \o <<d>> \in Seq(Seq(Mi!Letter)) /\ Flat(s4 \o <<d>>) = Flat(s4) \o d
                                 /\ Flat(s4) \in Seq(Mi!Letter) /\ s4 \o <<>> = s4
    BY <2>0, FlatWith
  <2>. QED
    BY <2>0, <2>1
<1>10. sent' \in Seq(Seq(Mi!Letter))
  BY <1>1, <1>7, <1>9
<1>11. Flat(s4) \in Seq(Mi!Letter) /\ Flat(s4) \in Seq(Nat)
  BY <1>2, <1>7, FlatSequence DEF Flat
<1>12. inputBuffer = <<>> => OutOf(Flat(s4), <<>>, <<>>) = MacOut
  <2>1. f \o legacySyllable \in Seq(Nat)
    BY <1>2, Joined
  <2>2. OutOf((f \o legacySyllable) \o pendingLegacyJamo, <<>>, <<>>) = OutOf(f \o legacySyllable, <<>>, pendingLegacyJamo)
    <3>. DEFINE g == f \o legacySyllable
    <3>1. g \in Seq(Nat) /\ pendingLegacyJamo \in Seq(Nat) /\ <<>> \in Seq(Nat)
      BY <1>2, <2>1, Joined
    <3>. HIDE DEF g
    <3>2. OutOf(g \o pendingLegacyJamo, <<>>, <<>>) = OutOf(g, <<>>, pendingLegacyJamo)
      BY <3>1, HeldBack
    <3>. QED
      BY <3>2 DEF g
  <2>3. OutOf(f \o legacySyllable, <<>>, pendingLegacyJamo) = OutOf(f, legacySyllable, pendingLegacyJamo)
    BY <1>2, HeldBack
  <2>. QED
    BY <1>8, <2>2, <2>3, Zenon DEF MacOut
<1>13. MacOut' = OutOf(Flat(sent'), <<>>, <<>>)
  BY <1>1, Zenon DEF MacOut, Flat
<1>14. inputBuffer = <<>> /\ next = <<>> => MacOut' = MacOut
  BY <1>1, <1>9, <1>12, <1>13, Zenon
<1>15. ASSUME NEW d \in Seq(Mi!Letter), inputBuffer = <<>>, next = <<d>> PROVE MacOut' = MacOut \o d
  <2>1. Flat(sent') = Flat(s4) \o d /\ d \in Seq(Nat)
    BY <1>1, <1>2, <1>9, <1>15
  <2>2. SentOn(Flat(s4), d)
    BY <1>11, <2>1, HeldBack
  <2>3. OutOf(Flat(s4) \o d, <<>>, <<>>) = OutOf(Flat(s4), <<>>, <<>>) \o d
    BY <2>2, Zenon DEF SentOn
  <2>. QED
    BY <1>12, <1>13, <1>15, <2>1, <2>3, Zenon
<1>. QED
  BY <1>1, <1>10, <1>14, <1>15

\* A key: nothing is in the queue, and what follows is put there.
LEMMA MacKeyPressed ==
  ASSUME MacInv, NEW k \in Mi!Kind, NEW between, macEvents = <<>>, Len(typed) < MaxKeys,
         typed' = Append(typed, k), composing' \in Seq(Mi!Letter), switched' \in BOOLEAN,
         Queued(macEvents', between), between \o composing' = composing \o <<Len(typed) + 1>>,
         switched' => composing' = <<>>, macEvents' # <<>>,
         Settled(macEvents') => composing' = <<>>, Updating(macEvents') => composing # <<>>,
         UNCHANGED <<imeActive, sessionActive, compositionActive, inputBuffer, pendingLegacyJamo,
                     legacySyllable, sent, cut, overrun>>
  PROVE  MacInv'
<1>1. MacTypes
  BY DEF MacInv
<1>2. /\ typed \in Seq(Mi!Kind) /\ Len(typed) \in Nat /\ MaxKeys \in Nat
      /\ typed' \in Seq(Mi!Kind) /\ Len(typed') = Len(typed) + 1 /\ Len(typed') <= MaxKeys
  BY <1>1, InputAssumption DEF MacTypes
<1>3. MacTypes'
  <2>1. macEvents' \in Seq(Mi!Event) /\ Len(macEvents') <= 3
    BY DEF Queued
  <2>. QED
    BY <1>1, <1>2, <2>1 DEF MacTypes
<1>4. MacOut' = MacOut /\ MacOut \in Seq(Nat)
  <2>1. MacOut' = MacOut
    BY DEF MacOut
  <2>. QED
    BY <1>1, <2>1, MacLetters
<1>5. ~cut' /\ ~overrun' => InOrder(MacOut', Flat(MacTexts(macEvents')), composing', Len(typed'))
  <2>. SUFFICES ASSUME ~cut, ~overrun
                PROVE  InOrder(MacOut, Flat(MacTexts(macEvents')), composing', Len(typed) + 1)
    BY <1>2, <1>4
  <2>1. InOrder(MacOut, <<>>, composing, Len(typed))
    <3>1. Flat(MacTexts(macEvents)) = <<>>
      BY NoneQueued DEF Queued
    <3>. QED
      BY <3>1 DEF MacInv
  <2>2. Flat(MacTexts(macEvents')) = between /\ between \in Seq(Nat)
    <3>1. Flat(MacTexts(macEvents')) = between
      BY DEF Queued
    <3>2. Flat(Texts(MacText, macEvents')) \in Seq(Nat)
      BY <1>3, MacTextIs, FlatTexts DEF MacTypes
    <3>3. MacTexts(macEvents') = Texts(MacText, macEvents')
      BY <1>3, MacTextIs DEF MacTypes
    <3>. QED
      BY <3>1, <3>2, <3>3
  <2>3. composing \in Seq(Nat) /\ composing' \in Seq(Nat)
    BY <1>1, MacLetters DEF MacTypes
  <2>. QED
    BY <1>2, <1>4, <2>1, <2>2, <2>3, NextLetter
<1>6. /\ Adjacent(macEvents') /\ (Settled(macEvents') => composing' = <<>>)
      /\ ~cut' => (Updating(macEvents') \/ (macEvents' = <<>> /\ composing' # <<>>) => compositionActive')
  BY DEF MacInv, Queued
<1>7. /\ switched' => composing' = <<>>
      /\ sessionActive' \/ (legacySyllable' = <<>> /\ pendingLegacyJamo' = <<>>)
      /\ ~cut' => (compositionActive' \/ inputBuffer' = <<>>)
      /\ ~overrun' => (imeActive' \/ (legacySyllable' = <<>> /\ pendingLegacyJamo' = <<>>))
  BY DEF MacInv
<1>. QED
  BY <1>3, <1>5, <1>6, <1>7 DEF MacInv

\* An event is handled, and its text sent or held back.
Written(kind) == IF kind \in {"end", "insert", "key"} THEN Mi!Data ELSE <<>>
LEMMA MacHandled ==
  ASSUME MacInv, NEW kind, Mi!Handle(kind), UNCHANGED <<typed, switched, composing>>,
         inputBuffer' \in Seq(Mi!Letter), pendingLegacyJamo' \in Seq(Mi!Letter),
         legacySyllable' \in Seq(Mi!Letter), sent' \in Seq(Seq(Mi!Letter)),
         imeActive' \in BOOLEAN, sessionActive' \in BOOLEAN, compositionActive' \in BOOLEAN,
         cut' \in BOOLEAN, overrun' \in BOOLEAN, ~cut' => ~cut, ~overrun' => ~overrun,
         sessionActive' \/ (legacySyllable' = <<>> /\ pendingLegacyJamo' = <<>>),
         kind = "start" => compositionActive',
         kind = "update" => compositionActive' = compositionActive,
         ~cut' => (compositionActive' \/ inputBuffer' = <<>>),
         ~overrun' => (imeActive' \/ (legacySyllable' = <<>> /\ pendingLegacyJamo' = <<>>)),
         ~cut' /\ ~overrun' => MacOut' = MacOut \o Written(kind)
  PROVE  MacInv'
<1>. DEFINE q == macEvents
            rest == Flat(MacTexts(Tail(q)))
<1>1. MacTypes /\ q \in Seq(Mi!Event) /\ Len(q) <= 3 /\ Adjacent(q) /\ composing \in Seq(Mi!Letter)
  BY DEF MacInv, MacTypes
<1>2. q # <<>> /\ macEvents' = Tail(q) /\ Head(q)[1] = kind
  BY DEF Mi!Handle
<1>3. /\ Tail(q) \in Seq(Mi!Event) /\ Len(Tail(q)) <= 3 /\ Head(q) \in Mi!Event
      /\ rest \in Seq(Nat) /\ Flat(MacTexts(q)) \in Seq(Nat)
      /\ Flat(MacTexts(q)) = Mi!TextOf(Head(q)) \o rest
      /\ Adjacent(Tail(q))
      /\ Settled(Tail(q)) => Settled(q)
      /\ Tail(q) = <<>> /\ Head(q)[1] # "update" => Settled(q)
      /\ Updating(q) <=> Head(q)[1] = "update"
      /\ Updating(Tail(q)) => Head(q)[1] = "start"
  BY <1>1, <1>2, MacTake
<1>4. Mi!TextOf(Head(q)) = Written(kind) /\ Written(kind) \in Seq(Nat)
  <2>1. Mi!TextOf(Head(q)) \in Seq(Nat)
    BY <1>3, MacEventIs
  <2>2. Mi!TextOf(Head(q)) = Written(kind)
    BY <1>2 DEF Mi!TextOf, Written, Mi!Data
  <2>. QED
    BY <2>1, <2>2
<1>. HIDE DEF rest
<1>5. MacTypes'
  BY <1>1, <1>2, <1>3 DEF MacTypes
<1>6. ~cut' => (Updating(macEvents') \/ (macEvents' = <<>> /\ composing' # <<>>) => compositionActive')
  <2>. SUFFICES ASSUME ~cut', Updating(macEvents') \/ (macEvents' = <<>> /\ composing' # <<>>)
                PROVE  compositionActive'
    OBVIOUS
  <2>1. CASE Updating(macEvents')
    BY <1>2, <1>3, <2>1
  <2>2. CASE macEvents' = <<>> /\ composing' # <<>>
    <3>1. ~Settled(q)
      BY <2>2 DEF MacInv
    <3>2. kind = "update" /\ Updating(q)
      BY <1>2, <1>3, <2>2, <3>1
    <3>3. compositionActive
      BY <3>2 DEF MacInv
    <3>. QED
      BY <3>2, <3>3
  <2>. QED
    BY <2>1, <2>2
<1>7. ~cut' /\ ~overrun' => InOrder(MacOut', Flat(MacTexts(macEvents')), composing', Len(typed'))
  <2>. SUFFICES ASSUME ~cut', ~overrun'
                PROVE  InOrder(MacOut \o Written(kind), rest, composing, Len(typed))
    BY <1>2 DEF rest
  <2>. DEFINE text == Flat(MacTexts(q))
  <2>1. InOrder(MacOut, text, composing, Len(typed))
    BY DEF MacInv
  <2>2. text = Written(kind) \o rest /\ text \in Seq(Nat) /\ Written(kind) \in Seq(Nat) /\ rest \in Seq(Nat)
    BY <1>3, <1>4 DEF rest
  <2>. HIDE DEF text
  <2>3. composing \in Seq(Nat) /\ MacOut \in Seq(Nat) /\ Len(typed) \in Nat /\ <<>> \in Seq(Nat)
    <3>1. composing \in Seq(Nat) /\ MacOut \in Seq(Nat)
      BY <1>1, MacLetters
    <3>2. Len(typed) \in Nat
      BY DEF MacInv, MacTypes
    <3>. QED
      BY <3>1, <3>2, Joined
  <2>4. text \o <<>> = text /\ <<>> \o composing = composing
    BY <2>2, <2>3, Joined
  <2>5. (text \o <<>>) \o composing = (Written(kind) \o rest) \o composing
    BY <2>2, <2>4
  <2>6. InOrder(MacOut, text, <<>> \o composing, Len(typed))
    BY <2>1, <2>4
  <2>. QED
    BY <2>2, <2>3, <2>5, <2>6, SameLetters, Zenon
<1>8. Adjacent(macEvents') /\ (Settled(macEvents') => composing' = <<>>) /\ (switched' => composing' = <<>>)
  BY <1>2, <1>3 DEF MacInv
<1>. QED
  BY <1>5, <1>6, <1>7, <1>8 DEF MacInv

\* A key that composes something, or nothing.
LEMMA MacKeys ==
  ASSUME MacInv, NEW k \in Mi!Kind, Mi!Key(k)
  PROVE  MacInv'
<1>. DEFINE l == Len(typed) + 1
            s == <<"start">>
            u == <<"update", composing'>>
            e == <<"end", composing>>
<1>1. /\ Len(typed) < MaxKeys /\ macEvents = <<>> /\ typed' = Append(typed, k)
      /\ UNCHANGED <<imeActive, sessionActive, compositionActive, inputBuffer, pendingLegacyJamo,
                     legacySyllable, sent, cut, overrun>>
  BY DEF Mi!Key, Mi!modeVars, Mi!holdVars
<1>2. /\ MacTypes /\ composing \in Seq(Mi!Letter) /\ switched \in BOOLEAN /\ typed \in Seq(Mi!Kind)
      /\ switched => composing = <<>>
  BY DEF MacInv, MacTypes
<1>3. Len(typed') = l /\ Len(typed) \in Nat /\ l \in Mi!Letter /\ <<l>> \in Seq(Mi!Letter)
  <2>1. Len(typed') = l /\ Len(typed) \in Nat
    BY <1>1, <1>2
  <2>2. l \in Mi!Letter
    BY <1>1, <2>1, InputAssumption DEF Mi!Letter
  <2>. QED
    BY <2>1, <2>2
<1>4. /\ \A t \in Seq(Mi!Letter) : t \in Seq(Nat) /\ t \o <<>> = t /\ <<>> \o t = t
      /\ <<>> \in Seq(Mi!Letter)
  BY <1>2, MacLetters, Joined
<1>5. /\ s \in Mi!Event /\ e \in Mi!Event /\ Mi!TextOf(s) = <<>> /\ Mi!TextOf(e) = composing
      /\ s[1] = "start" /\ e[1] = "end" /\ u[1] = "update"
  BY <1>2, MacEventsAre
<1>6. Mi!Ended = IF composing = <<>> THEN <<>> ELSE <<e>>
  BY DEF Mi!Ended
<1>7. CASE k = "plain"
  <2>. DEFINE c == <<"key", <<l>>>>
  <2>1. composing' = <<>> /\ macEvents' = Mi!Ended \o <<c>> /\ switched' = switched
    BY <1>1, <1>3, <1>7 DEF Mi!Key
  <2>2. c \in Mi!Event /\ Mi!TextOf(c) = <<l>> /\ c[1] = "key"
    BY <1>3, MacEventsAre
  <2>. HIDE DEF c, e
  <2>3. macEvents' = IF composing = <<>> THEN <<c>> ELSE <<e, c>>
    <3>1. ShortOnes(e, c, c)
      BY ShortQueues
    <3>2. <<>> \o <<c>> = <<c>> /\ <<e>> \o <<c>> = <<e, c>>
      BY <3>1, Zenon DEF ShortOnes
    <3>. QED
      BY <1>6, <2>1, <3>2
  <2>4. /\ Queued(macEvents', composing \o <<l>>)
        /\ ~Updating(macEvents') /\ macEvents' # <<>>
    <3>1. CASE composing = <<>>
      <4>1. Queued(<<c>>, <<l>>) /\ ~Updating(<<c>>) /\ <<c>> # <<>>
        BY <2>2, OneQueued
      <4>2. composing \o <<l>> = <<l>> /\ macEvents' = <<c>>
        BY <1>3, <1>4, <2>3, <3>1
      <4>. QED
        BY <4>1, <4>2
    <3>2. CASE composing # <<>>
      <4>1. Queued(<<e, c>>, Mi!TextOf(e) \o Mi!TextOf(c)) /\ ~Updating(<<e, c>>) /\ <<e, c>> # <<>>
        BY <1>5, <2>2, TwoQueued
      <4>2. macEvents' = <<e, c>>
        BY <2>3, <3>2
      <4>. QED
        BY <1>5, <2>2, <4>1, <4>2
    <3>. QED
      BY <3>1, <3>2
  <2>5. (composing \o <<l>>) \o composing' = composing \o <<l>>
    <3>1. composing \o <<l>> \in Seq(Mi!Letter)
      BY <1>2, <1>3, Joined
    <3>. QED
      BY <1>4, <2>1, <3>1
  <2>. QED
    BY <1>1, <1>2, <1>4, <2>1, <2>4, <2>5, MacKeyPressed
<1>8. CASE k # "plain" /\ switched /\ Mi!IsConsonant(k)
  <2>. DEFINE c == <<"insert", <<l>>>>
  <2>1. composing' = <<>> /\ macEvents' = <<c>> /\ switched' = FALSE
    BY <1>1, <1>3, <1>8 DEF Mi!Key
  <2>2. c \in Mi!Event /\ Mi!TextOf(c) = <<l>> /\ c[1] = "insert"
    BY <1>3, MacEventsAre
  <2>. HIDE DEF c
  <2>3. Queued(<<c>>, <<l>>) /\ ~Updating(<<c>>) /\ <<c>> # <<>>
    BY <2>2, OneQueued
  <2>4. <<l>> \o composing' = composing \o <<l>>
    BY <1>2, <1>3, <1>4, <1>8, <2>1
  <2>5. switched' \in BOOLEAN
    BY <2>1
  <2>. QED
    BY <1>1, <1>4, <2>1, <2>3, <2>4, <2>5, MacKeyPressed
<1>9. CASE k # "plain" /\ ~(switched /\ Mi!IsConsonant(k))
  <2>1. Mi!Composes(l, k) /\ switched' = FALSE
    BY <1>1, <1>3, <1>9 DEF Mi!Key
  <2>2. switched' \in BOOLEAN
    BY <2>1
  <2>3. CASE Mi!Joins(composing, k)
    <3>1. composing' = Append(composing, l) /\ macEvents' = Append(macEvents, u)
      BY <2>1, <2>3 DEF Mi!Composes
    <3>2. composing' \in Seq(Mi!Letter) /\ composing' = composing \o <<l>> /\ macEvents' = <<u>>
      BY <1>1, <1>2, <1>3, <3>1
    <3>3. u \in Mi!Event /\ Mi!TextOf(u) = <<>>
      BY <3>2, MacEventsAre
    <3>4. composing # <<>>
      BY <2>3 DEF Mi!Joins
    <3>. HIDE DEF u
    <3>5. Queued(<<u>>, <<>>) /\ ~Settled(<<u>>) /\ <<u>> # <<>>
      BY <1>5, <3>3, OneQueued
    <3>6. <<>> \o composing' = composing \o <<l>>
      BY <1>4, <3>2
    <3>. QED
      BY <1>1, <2>1, <2>2, <3>2, <3>4, <3>5, <3>6, MacKeyPressed
  <2>4. CASE ~Mi!Joins(composing, k) /\ Len(composing) = 3 /\ k = "vowel"
    <3>. DEFINE f == Mi!Front(composing)
                g == <<"end", f>>
    <3>1. composing' = <<composing[3], l>> /\ macEvents' = macEvents \o <<g, s, u>>
      BY <2>1, <2>4 DEF Mi!Composes
    <3>2. f \in Seq(Mi!Letter) /\ composing[3] \in Mi!Letter /\ f \o <<composing[3], l>> = composing \o <<l>>
      <4>1. f = Wi!Front(composing) /\ Wi!Last(composing) = composing[3]
        BY <2>4 DEF Mi!Front, Wi!Front, Wi!Last
      <4>2. /\ Wi!Front(composing) \in Seq(Mi!Letter) /\ Wi!Last(composing) \in Mi!Letter
            /\ Wi!Front(composing) \o <<Wi!Last(composing), l>> = composing \o <<l>>
        <5>1. Len(composing) > 1
          BY <2>4
        <5>. QED
          BY <1>2, <1>3, <5>1, FrontAndLast, Zenon
      <4>. QED
        BY <4>1, <4>2
    <3>3. composing' \in Seq(Mi!Letter)
      BY <1>3, <3>1, <3>2
    <3>4. /\ u \in Mi!Event /\ Mi!TextOf(u) = <<>>
          /\ g \in Mi!Event /\ Mi!TextOf(g) = f /\ g[1] = "end"
      BY <3>2, <3>3, MacEventsAre
    <3>. HIDE DEF s, u, f, g
    <3>5. macEvents' = <<g, s, u>>
      <4>1. <<g, s, u>> \in Seq(Mi!Event)
        BY <1>5, <3>4
      <4>2. <<>> \o <<g, s, u>> = <<g, s, u>>
        BY <4>1, Joined
      <4>. QED
        BY <1>1, <3>1, <4>2
    <3>6. /\ Queued(<<g, s, u>>, (Mi!TextOf(g) \o Mi!TextOf(s)) \o Mi!TextOf(u))
          /\ ~Settled(<<g, s, u>>) /\ ~Updating(<<g, s, u>>) /\ <<g, s, u>> # <<>>
      BY <1>5, <3>4, ThreeQueued
    <3>7. (f \o <<>>) \o <<>> = f
      BY <1>4, <3>2
    <3>8. Queued(macEvents', f)
      BY <1>5, <3>4, <3>5, <3>6, <3>7
    <3>9. f \o composing' = composing \o <<l>>
      BY <3>1, <3>2
    <3>. QED
      BY <1>1, <2>1, <2>2, <3>3, <3>5, <3>6, <3>8, <3>9, MacKeyPressed
  <2>5. CASE ~Mi!Joins(composing, k) /\ ~(Len(composing) = 3 /\ k = "vowel")
    <3>1. composing' = <<l>> /\ macEvents' = (macEvents \o Mi!Ended) \o <<s, u>>
      BY <2>1, <2>5 DEF Mi!Composes
    <3>2. composing' \in Seq(Mi!Letter)
      BY <1>3, <3>1
    <3>3. u \in Mi!Event /\ Mi!TextOf(u) = <<>>
      BY <3>2, MacEventsAre
    <3>. HIDE DEF s, u, e
    <3>4. macEvents' = IF composing = <<>> THEN <<s, u>> ELSE <<e, s, u>>
      <4>1. ShortOnes(e, s, u)
        BY ShortQueues
      <4>2. <<>> \o <<s, u>> = <<s, u>> /\ <<e>> \o <<s, u>> = <<e, s, u>>
        BY <4>1, Zenon DEF ShortOnes
      <4>3. <<>> \o Mi!Ended = Mi!Ended
        <5>1. Mi!Ended \in Seq(Mi!Event)
          BY <1>5, <1>6
        <5>. QED
          BY <5>1, Joined
      <4>. QED
        BY <1>1, <1>6, <3>1, <4>2, <4>3
    <3>5. /\ Queued(macEvents', composing)
          /\ ~Settled(macEvents') /\ ~Updating(macEvents') /\ macEvents' # <<>>
      <4>1. CASE composing = <<>>
        <5>1. /\ Queued(<<s, u>>, Mi!TextOf(s) \o Mi!TextOf(u))
              /\ ~Settled(<<s, u>>) /\ ~Updating(<<s, u>>) /\ <<s, u>> # <<>>
          BY <1>5, <3>3, TwoQueued
        <5>2. <<>> \o <<>> = <<>>
          BY <1>4
        <5>. QED
          BY <1>5, <3>3, <3>4, <4>1, <5>1, <5>2
      <4>2. CASE composing # <<>>
        <5>1. /\ Queued(<<e, s, u>>, (Mi!TextOf(e) \o Mi!TextOf(s)) \o Mi!TextOf(u))
              /\ ~Settled(<<e, s, u>>) /\ ~Updating(<<e, s, u>>) /\ <<e, s, u>> # <<>>
          BY <1>5, <3>3, ThreeQueued
        <5>2. (composing \o <<>>) \o <<>> = composing
          BY <1>2, <1>4
        <5>. QED
          BY <1>5, <3>3, <3>4, <4>2, <5>1, <5>2
      <4>. QED
        BY <4>1, <4>2
    <3>6. composing \o composing' = composing \o <<l>>
      BY <3>1
    <3>. QED
      BY <1>1, <2>1, <2>2, <3>2, <3>5, <3>6, MacKeyPressed
  <2>. QED
    BY <2>3, <2>4, <2>5
<1>. QED
  BY <1>7, <1>8, <1>9

\* The composition is ended from outside.
LEMMA MacEnded ==
  ASSUME MacInv, macEvents = <<>>, composing' = <<>>, switched' \in BOOLEAN,
         Queued(macEvents', composing), ~Updating(macEvents'),
         UNCHANGED <<typed, imeActive, sessionActive, compositionActive, inputBuffer, pendingLegacyJamo,
                     legacySyllable, sent, cut, overrun>>
  PROVE  MacInv'
<1>1. MacTypes /\ <<>> \in Seq(Mi!Letter)
  BY Joined DEF MacInv
<1>2. MacTypes'
  <2>1. macEvents' \in Seq(Mi!Event) /\ Len(macEvents') <= 3
    BY DEF Queued
  <2>. QED
    BY <1>1, <2>1 DEF MacTypes
<1>3. MacOut' = MacOut /\ MacOut \in Seq(Nat) /\ composing \in Seq(Nat)
  <2>1. MacOut' = MacOut
    BY DEF MacOut
  <2>2. composing \in Seq(Nat)
    BY <1>1, MacLetters DEF MacTypes
  <2>. QED
    BY <1>1, <2>1, <2>2, MacLetters
<1>4. ~cut' /\ ~overrun' => InOrder(MacOut', Flat(MacTexts(macEvents')), composing', Len(typed'))
  <2>. SUFFICES ASSUME ~cut, ~overrun PROVE InOrder(MacOut, composing, <<>>, Len(typed))
    BY <1>3 DEF Queued
  <2>1. InOrder(MacOut, <<>>, composing, Len(typed))
    <3>1. Flat(MacTexts(macEvents)) = <<>>
      BY NoneQueued DEF Queued
    <3>. QED
      BY <3>1 DEF MacInv
  <2>2. MacOut \o <<>> = MacOut /\ (MacOut \o composing) \o <<>> = MacOut \o composing
    <3>1. MacOut \o composing \in Seq(Nat)
      BY <1>3, Joined
    <3>. QED
      BY <1>3, <3>1, Joined
  <2>. QED
    BY <2>1, <2>2, Zenon DEF InOrder
<1>5. /\ Adjacent(macEvents')
      /\ ~cut' => (Updating(macEvents') \/ (macEvents' = <<>> /\ composing' # <<>>) => compositionActive')
  BY DEF Queued
<1>6. /\ sessionActive' \/ (legacySyllable' = <<>> /\ pendingLegacyJamo' = <<>>)
      /\ ~cut' => (compositionActive' \/ inputBuffer' = <<>>)
      /\ ~overrun' => (imeActive' \/ (legacySyllable' = <<>> /\ pendingLegacyJamo' = <<>>))
  BY DEF MacInv
<1>. QED
  BY <1>2, <1>4, <1>5, <1>6 DEF MacInv

LEMMA MacLeft ==
  ASSUME MacInv, Mi!SwitchLanguage \/ Mi!LoseFocus
  PROVE  MacInv'
<1>. DEFINE e == <<"end", composing>>
            b == <<"blur">>
<1>1. /\ macEvents = <<>> /\ composing' = <<>>
      /\ UNCHANGED <<typed, imeActive, sessionActive, compositionActive, inputBuffer, pendingLegacyJamo,
                     legacySyllable, sent, cut, overrun>>
  <2>1. CASE Mi!SwitchLanguage
    BY <2>1 DEF Mi!SwitchLanguage, Mi!modeVars, Mi!holdVars
  <2>2. CASE Mi!LoseFocus
    BY <2>2 DEF Mi!LoseFocus, Mi!modeVars, Mi!holdVars
  <2>. QED
    BY <2>1, <2>2
<1>2. /\ switched' \in BOOLEAN
      /\ macEvents' = Mi!Ended \/ macEvents' = Mi!Ended \o <<b>> \/ macEvents' = <<b>> \o Mi!Ended
  <2>1. CASE Mi!SwitchLanguage
    BY <2>1 DEF Mi!SwitchLanguage
  <2>2. CASE Mi!LoseFocus
    BY <2>2 DEF Mi!LoseFocus, MacInv, MacTypes
  <2>. QED
    BY <2>1, <2>2
<1>3. MacTypes /\ composing \in Seq(Mi!Letter)
  BY DEF MacInv, MacTypes
<1>4. /\ \A t \in Seq(Mi!Letter) : t \o <<>> = t /\ <<>> \o t = t
      /\ <<>> \in Seq(Mi!Letter)
  BY Joined
<1>5. /\ b \in Mi!Event /\ e \in Mi!Event /\ Mi!TextOf(b) = <<>> /\ Mi!TextOf(e) = composing
      /\ b[1] = "blur" /\ e[1] = "end"
  BY <1>3, MacEventsAre
<1>6. Mi!Ended = IF composing = <<>> THEN <<>> ELSE <<e>>
  BY DEF Mi!Ended
<1>. HIDE DEF e, b
<1>7. /\ composing = <<>> => macEvents' \in {<<>>, <<b>>}
      /\ composing # <<>> => macEvents' \in {<<e>>, <<e, b>>, <<b, e>>}
  <2>1. ShortOnes(e, b, b) /\ ShortOnes(b, e, e)
    BY ShortQueues
  <2>2. /\ <<>> \o <<b>> = <<b>> /\ <<b>> \o <<>> = <<b>>
        /\ <<e>> \o <<b>> = <<e, b>> /\ <<b>> \o <<e>> = <<b, e>>
    BY <2>1, Zenon DEF ShortOnes
  <2>. QED
    BY <1>2, <1>6, <2>2
<1>8. Queued(<<>>, <<>>) /\ ~Updating(<<>>) /\ Queued(<<b>>, <<>>) /\ ~Updating(<<b>>)
  BY <1>5, NoneQueued, OneQueued
<1>9. Queued(<<e>>, composing) /\ ~Updating(<<e>>)
  BY <1>5, OneQueued
<1>10. Queued(<<e, b>>, composing) /\ ~Updating(<<e, b>>)
  <2>1. Queued(<<e, b>>, Mi!TextOf(e) \o Mi!TextOf(b)) /\ ~Updating(<<e, b>>)
    BY <1>5, TwoQueued
  <2>2. composing \o <<>> = composing
    BY <1>3, <1>4
  <2>. QED
    BY <1>5, <2>1, <2>2
<1>11. Queued(<<b, e>>, composing) /\ ~Updating(<<b, e>>)
  <2>1. Queued(<<b, e>>, Mi!TextOf(b) \o Mi!TextOf(e)) /\ ~Updating(<<b, e>>)
    BY <1>5, TwoQueued
  <2>2. <<>> \o composing = composing
    BY <1>3, <1>4
  <2>. QED
    BY <1>5, <2>1, <2>2
<1>12. Queued(macEvents', composing) /\ ~Updating(macEvents')
  BY <1>7, <1>8, <1>9, <1>10, <1>11
<1>. QED
  BY <1>1, <1>2, <1>12, MacEnded

\* The handlers of the input method.
LEMMA MacComposes ==
  ASSUME MacInv, Mi!CompositionStart \/ Mi!CompositionUpdate
  PROVE  MacInv'
<1>1. MacTypes /\ <<>> \in Seq(Mi!Letter)
  BY Joined DEF MacInv
<1>2. MacOut \in Seq(Nat) /\ MacOut \o <<>> = MacOut
  BY <1>1, MacLetters, Joined
<1>3. CASE Mi!CompositionStart
  <2>1. /\ Mi!Handle("start") /\ compositionActive' = TRUE /\ imeActive' = TRUE /\ sessionActive' = TRUE
        /\ UNCHANGED <<typed, switched, composing, cut, overrun>>
        /\ sent' = IF sessionActive /\ Mi!HasJongseong THEN sent \o Mi!Legacy ELSE sent
        /\ inputBuffer' \in {inputBuffer, <<>>}
    <3>1. /\ Mi!Handle("start") /\ compositionActive' = TRUE /\ imeActive' = TRUE /\ sessionActive' = TRUE
          /\ UNCHANGED <<typed, switched, composing, cut, overrun>> /\ inputBuffer' \in {inputBuffer, <<>>}
      BY <1>3 DEF Mi!CompositionStart, Mi!inputVars
    <3>2. sent' = IF sessionActive /\ Mi!HasJongseong THEN sent \o Mi!Legacy ELSE sent
      <4>1. sent \o <<>> = sent
        BY <1>1 DEF MacTypes
      <4>2. CASE sessionActive
        <5>1. sent' = sent \o (IF Mi!HasJongseong THEN Mi!Legacy ELSE <<>>)
          BY <1>3, <4>2 DEF Mi!CompositionStart
        <5>. QED
          BY <4>1, <4>2, <5>1
      <4>3. CASE ~sessionActive
        BY <1>3, <4>3 DEF Mi!CompositionStart
      <4>. QED
        BY <4>2, <4>3
    <3>. QED
      BY <3>1, <3>2
  <2>2. CASE Mi!HasJongseong
    <3>1. legacySyllable # <<>> /\ Mi!Legacy = <<legacySyllable>> /\ sessionActive
      <4>1. legacySyllable # <<>>
        <5>1. Len(<<>>) = 0
          OBVIOUS
        <5>. QED
          BY <2>2, <5>1 DEF Mi!HasJongseong
      <4>. QED
        BY <4>1 DEF Mi!Legacy, MacInv
    <3>2. legacySyllable' = <<>> /\ pendingLegacyJamo' = pendingLegacyJamo
      BY <1>3, <2>2, <3>1 DEF Mi!CompositionStart, Mi!FlushLegacyState
    <3>3. sent' = sent \o <<legacySyllable>>
      BY <2>1, <2>2, <3>1
    <3>4. sent' \in Seq(Seq(Mi!Letter)) /\ Flat(sent') = Flat(sent) \o legacySyllable
      <4>1. /\ sent \o <<legacySyllable>> \in Seq(Seq(Mi!Letter))
            /\ Flat(sent \o <<legacySyllable>>) = Flat(sent) \o legacySyllable
        BY <1>1, FlatWith DEF MacTypes
      <4>. QED
        BY <3>3, <4>1
    <3>5. MacOut' = MacOut
      <4>1. MacOut' = OutOf(Flat(sent'), <<>>, pendingLegacyJamo)
        BY <3>2, Zenon DEF MacOut, Flat
      <4>2. /\ Flat(sent) \in Seq(Nat) /\ legacySyllable \in Seq(Nat) /\ pendingLegacyJamo \in Seq(Nat)
        BY <1>1, MacLetters
      <4>3. OutOf(Flat(sent) \o legacySyllable, <<>>, pendingLegacyJamo)
              = OutOf(Flat(sent), legacySyllable, pendingLegacyJamo)
        BY <4>2, HeldBack
      <4>. QED
        BY <3>4, <4>1, <4>3, Zenon DEF MacOut
    <3>6. MacOut' = MacOut \o Written("start")
      BY <1>2, <3>5 DEF Written
    <3>7. /\ inputBuffer' \in Seq(Mi!Letter) /\ legacySyllable' \in Seq(Mi!Letter)
          /\ pendingLegacyJamo' \in Seq(Mi!Letter)
      BY <1>1, <2>1, <3>2 DEF MacTypes
    <3>8. /\ imeActive' \in BOOLEAN /\ sessionActive' \in BOOLEAN /\ compositionActive' \in BOOLEAN
          /\ cut' \in BOOLEAN /\ overrun' \in BOOLEAN /\ (~cut' => ~cut) /\ (~overrun' => ~overrun)
      BY <1>1, <2>1 DEF MacTypes
    <3>. QED
      BY <2>1, <3>4, <3>6, <3>7, <3>8, MacHandled
  <2>3. CASE ~Mi!HasJongseong
    <3>1. UNCHANGED <<sent, legacySyllable, pendingLegacyJamo>>
      BY <1>3, <2>1, <2>3 DEF Mi!CompositionStart
    <3>2. MacOut' = MacOut
      BY <3>1, Zenon DEF MacOut, Flat
    <3>3. MacOut' = MacOut \o Written("start")
      BY <1>2, <3>2 DEF Written
    <3>7. /\ inputBuffer' \in Seq(Mi!Letter) /\ legacySyllable' \in Seq(Mi!Letter)
          /\ pendingLegacyJamo' \in Seq(Mi!Letter) /\ sent' \in Seq(Seq(Mi!Letter))
      BY <1>1, <2>1, <3>1 DEF MacTypes
    <3>8. /\ imeActive' \in BOOLEAN /\ sessionActive' \in BOOLEAN /\ compositionActive' \in BOOLEAN
          /\ cut' \in BOOLEAN /\ overrun' \in BOOLEAN /\ (~cut' => ~cut) /\ (~overrun' => ~overrun)
      BY <1>1, <2>1 DEF MacTypes
    <3>. QED
      BY <2>1, <3>3, <3>7, <3>8, MacHandled
  <2>. QED
    BY <2>2, <2>3
<1>4. CASE Mi!CompositionUpdate
  <2>1. /\ Mi!Handle("update") /\ imeActive' = TRUE /\ inputBuffer' = Mi!Data
        /\ UNCHANGED <<typed, switched, composing, sessionActive, compositionActive, pendingLegacyJamo,
                       legacySyllable, sent, cut, overrun>>
    BY <1>4 DEF Mi!CompositionUpdate, Mi!inputVars
  <2>2. MacOut' = MacOut
    BY <2>1, Zenon DEF MacOut, Flat
  <2>3. MacOut' = MacOut \o Written("update")
    BY <1>2, <2>2 DEF Written
  <2>4. macEvents # <<>> /\ macEvents[1] \in Mi!Event /\ macEvents[1][1] = "update" /\ Mi!Data = macEvents[1][2]
    <3>1. macEvents # <<>> /\ Head(macEvents)[1] = "update" /\ macEvents \in Seq(Mi!Event)
      BY <1>1, <2>1 DEF Mi!Handle, MacTypes
    <3>2. Head(macEvents) = macEvents[1] /\ macEvents[1] \in Mi!Event
      BY <3>1
    <3>. QED
      BY <3>1, <3>2 DEF Mi!Data
  <2>5. inputBuffer' \in Seq(Mi!Letter)
    BY <2>1, <2>4, MacEventIs
  <2>6. ~cut => compositionActive
    BY <2>4 DEF MacInv, Updating
  <2>7. /\ legacySyllable' \in Seq(Mi!Letter) /\ pendingLegacyJamo' \in Seq(Mi!Letter)
        /\ sent' \in Seq(Seq(Mi!Letter))
    BY <1>1, <2>1 DEF MacTypes
  <2>8. /\ imeActive' \in BOOLEAN /\ sessionActive' \in BOOLEAN /\ compositionActive' \in BOOLEAN
        /\ cut' \in BOOLEAN /\ overrun' \in BOOLEAN /\ (~cut' => ~cut) /\ (~overrun' => ~overrun)
    BY <1>1, <2>1 DEF MacTypes
  <2>9. sessionActive' \/ (legacySyllable' = <<>> /\ pendingLegacyJamo' = <<>>)
    BY <2>1 DEF MacInv
  <2>. QED
    BY <2>1, <2>3, <2>5, <2>6, <2>7, <2>8, <2>9, MacHandled
<1>. QED
  BY <1>3, <1>4

\* The text of an event.
LEMMA DataIs ==
  ASSUME MacTypes, NEW kind \in {"update", "end", "insert", "key"}, Mi!Handle(kind)
  PROVE  Mi!Data \in Seq(Mi!Letter) /\ Mi!Data \in Seq(Nat)
<1>1. macEvents # <<>> /\ Head(macEvents)[1] = kind /\ macEvents \in Seq(Mi!Event)
  BY DEF Mi!Handle, MacTypes
<1>2. Head(macEvents) \in Mi!Event
  BY <1>1
<1>. QED
  BY <1>1, <1>2, MacEventIs DEF Mi!Data

LEMMA MacCompositionEnds ==
  ASSUME MacInv, Mi!CompositionEnd
  PROVE  MacInv'
<1>. DEFINE d == Mi!Data
            f == Flat(sent)
<1>1. MacTypes /\ <<>> \in Seq(Mi!Letter) /\ <<>> \in Seq(Nat)
  BY Joined DEF MacInv
<1>2. /\ Mi!Handle("end") /\ compositionActive' = FALSE /\ inputBuffer' = <<>>
      /\ UNCHANGED <<typed, switched, composing, imeActive, sessionActive, cut>>
      /\ overrun' = (overrun \/ (pendingLegacyJamo # <<>> /\ legacySyllable # <<>>))
  BY DEF Mi!CompositionEnd, Mi!inputVars
<1>3. d \in Seq(Mi!Letter) /\ d \in Seq(Nat) /\ Written("end") = d
  BY <1>1, <1>2, DataIs DEF Written
<1>4. /\ f \in Seq(Nat) /\ legacySyllable \in Seq(Nat) /\ pendingLegacyJamo \in Seq(Nat) /\ MacOut \in Seq(Nat)
      /\ legacySyllable \in Seq(Mi!Letter) /\ pendingLegacyJamo \in Seq(Mi!Letter)
      /\ sent \in Seq(Seq(Mi!Letter))
  BY <1>1, MacLetters DEF MacTypes
<1>. HIDE DEF d, f
<1>5. /\ imeActive' \in BOOLEAN /\ sessionActive' \in BOOLEAN /\ compositionActive' \in BOOLEAN
      /\ cut' \in BOOLEAN /\ overrun' \in BOOLEAN /\ (~cut' => ~cut)
      /\ (~overrun' => ~overrun /\ (legacySyllable = <<>> \/ pendingLegacyJamo = <<>>))
  BY <1>1, <1>2 DEF MacTypes
<1>6. ASSUME legacySyllable' \in Seq(Mi!Letter), pendingLegacyJamo' \in Seq(Mi!Letter),
             sent' \in Seq(Seq(Mi!Letter)),
             legacySyllable' # <<>> \/ pendingLegacyJamo' # <<>> => legacySyllable # <<>> \/ pendingLegacyJamo # <<>>,
             ~overrun' => MacOut' = MacOut \o d
      PROVE  MacInv'
  <2>1. sessionActive' \/ (legacySyllable' = <<>> /\ pendingLegacyJamo' = <<>>)
    BY <1>2, <1>6 DEF MacInv
  <2>2. ~overrun' => (imeActive' \/ (legacySyllable' = <<>> /\ pendingLegacyJamo' = <<>>))
    BY <1>2, <1>5, <1>6 DEF MacInv
  <2>3. inputBuffer' \in Seq(Mi!Letter)
    BY <1>1, <1>2
  <2>. QED
    BY <1>2, <1>3, <1>5, <1>6, <2>1, <2>2, <2>3, MacHandled
<1>7. CASE Mi!MakesSyllable
  <2>1. /\ legacySyllable' = pendingLegacyJamo \o d /\ pendingLegacyJamo' = <<>> /\ sent' = sent
        /\ pendingLegacyJamo # <<>>
    <3>1. ~Mi!EndsSyllable
      BY <1>7 DEF Mi!MakesSyllable, Mi!EndsSyllable
    <3>. QED
      BY <1>7, <3>1 DEF Mi!CompositionEnd, Mi!MakesSyllable, d
  <2>2. legacySyllable' \in Seq(Mi!Letter)
    BY <1>3, <1>4, <2>1, Joined
  <2>3. ~overrun' => MacOut' = MacOut \o d
    <3>. SUFFICES ASSUME ~overrun' PROVE MacOut' = MacOut \o d
      OBVIOUS
    <3>1. legacySyllable = <<>>
      BY <1>5, <2>1
    <3>2. OutOf(f, pendingLegacyJamo \o d, <<>>) = OutOf(f, <<>>, pendingLegacyJamo) \o d
      <4>1. HeldNow(f, pendingLegacyJamo, d)
        BY <1>3, <1>4, HeldBack
      <4>. QED
        BY <4>1, Zenon DEF HeldNow
    <3>. QED
      BY <2>1, <3>1, <3>2, Zenon DEF MacOut, Flat, f
  <2>. QED
    BY <1>1, <1>4, <1>6, <2>1, <2>2, <2>3
<1>8. CASE Mi!EndsSyllable
  <2>1. /\ legacySyllable' = legacySyllable \o d /\ pendingLegacyJamo' = <<>> /\ pendingLegacyJamo = <<>>
        /\ sent' = sent /\ legacySyllable # <<>>
    <3>1. ~Mi!MakesSyllable
      BY <1>8 DEF Mi!MakesSyllable, Mi!EndsSyllable
    <3>. QED
      BY <1>8, <3>1 DEF Mi!CompositionEnd, Mi!EndsSyllable, d
  <2>2. legacySyllable' \in Seq(Mi!Letter)
    BY <1>3, <1>4, <2>1, Joined
  <2>3. MacOut' = MacOut \o d
    <3>2. OutOf(f, legacySyllable \o d, <<>>) = OutOf(f, legacySyllable, <<>>) \o d
      <4>1. HeldOn(f, legacySyllable, d)
        BY <1>3, <1>4, HeldBack
      <4>. QED
        BY <4>1, Zenon DEF HeldOn
    <3>. QED
      BY <2>1, <3>2, Zenon DEF MacOut, Flat, f
  <2>. QED
    BY <1>1, <1>4, <1>6, <2>1, <2>2, <2>3
<1>9. CASE ~Mi!MakesSyllable /\ ~Mi!EndsSyllable
  <2>. DEFINE ss == sent \o Mi!Legacy
  <2>1. sent' = sent \o Mi!HeldFirst /\ Mi!FlushLegacyState
    BY <1>9 DEF Mi!CompositionEnd, Mi!SendToInput
  <2>2. /\ ss \in Seq(Seq(Mi!Letter)) /\ Flat(ss) \in Seq(Nat)
        /\ legacySyllable = <<>> \/ pendingLegacyJamo = <<>> => OutOf(Flat(ss), <<>>, <<>>) = MacOut
    BY <1>1, LegacySent
  <2>3. /\ legacySyllable' \in Seq(Mi!Letter) /\ pendingLegacyJamo' \in Seq(Mi!Letter)
        /\ legacySyllable' \in {legacySyllable, <<>>} /\ pendingLegacyJamo' \in {pendingLegacyJamo, <<>>}
        /\ legacySyllable = <<>> \/ pendingLegacyJamo = <<>> =>
             legacySyllable' = <<>> /\ pendingLegacyJamo' = <<>>
    BY <1>1, <2>1, LegacyForgotten
  <2>4. sent' = ss \o <<d>>
    <3>1. Mi!Legacy \in Seq(Seq(Mi!Letter)) /\ <<d>> \in Seq(Seq(Mi!Letter))
      BY <1>3, <1>4 DEF Mi!Legacy
    <3>2. (sent \o Mi!Legacy) \o <<d>> = sent \o (Mi!Legacy \o <<d>>)
      <4>1. \A a, b, c \in Seq(Seq(Mi!Letter)) : (a \o b) \o c = a \o (b \o c)
        BY Joined
      <4>. QED
        BY <1>4, <3>1, <4>1, Zenon
    <3>. QED
      BY <2>1, <3>2, Zenon DEF Mi!HeldFirst, d
  <2>. HIDE DEF ss
  <2>5. sent' \in Seq(Seq(Mi!Letter)) /\ Flat(sent') = Flat(ss) \o d
    <3>0. ss \in Seq(Seq(Mi!Letter)) /\ d \in Seq(Mi!Letter)
      BY <1>3, <2>2
    <3>1. ss \o <<d>> \in Seq(Seq(Mi!Letter)) /\ Flat(ss \o <<d>>) = Flat(ss) \o d
      BY <3>0, FlatWith
    <3>. QED
      BY <2>4, <3>1
  <2>6. ~overrun' => MacOut' = MacOut \o d
    <3>. SUFFICES ASSUME ~overrun' PROVE MacOut' = MacOut \o d
      OBVIOUS
    <3>1. OutOf(Flat(ss), <<>>, <<>>) = MacOut /\ legacySyllable' = <<>> /\ pendingLegacyJamo' = <<>>
      BY <1>5, <2>2, <2>3
    <3>2. OutOf(Flat(ss) \o d, <<>>, <<>>) = OutOf(Flat(ss), <<>>, <<>>) \o d
      <4>1. SentOn(Flat(ss), d)
        BY <1>1, <1>3, <2>2, HeldBack
      <4>. QED
        BY <4>1, Zenon DEF SentOn
    <3>3. MacOut' = OutOf(Flat(sent'), <<>>, <<>>)
      BY <3>1, Zenon DEF MacOut, Flat
    <3>. QED
      BY <2>5, <3>1, <3>2, <3>3, Zenon
  <2>7. legacySyllable' # <<>> \/ pendingLegacyJamo' # <<>> => legacySyllable # <<>> \/ pendingLegacyJamo # <<>>
    BY <2>3
  <2>. QED
    BY <1>6, <2>3, <2>5, <2>6, <2>7
<1>. QED
  BY <1>7, <1>8, <1>9

LEMMA MacInserts ==
  ASSUME MacInv, Mi!InsertText
  PROVE  MacInv'
<1>. DEFINE d == Mi!Data
<1>1. MacTypes /\ <<>> \in Seq(Mi!Letter)
  BY Joined DEF MacInv
<1>2. /\ Mi!Handle("insert") /\ imeActive' = TRUE /\ sessionActive' = TRUE /\ pendingLegacyJamo' = d
      /\ overrun' = (overrun \/ pendingLegacyJamo # <<>>)
      /\ inputBuffer' \in {inputBuffer, <<>>}
      /\ UNCHANGED <<typed, switched, composing, compositionActive, legacySyllable, sent, cut>>
  BY DEF Mi!InsertText, Mi!inputVars
<1>3. d \in Seq(Mi!Letter) /\ d \in Seq(Nat) /\ Written("insert") = d
  BY <1>1, <1>2, DataIs DEF Written
<1>. HIDE DEF d
<1>4. /\ legacySyllable' \in Seq(Mi!Letter) /\ pendingLegacyJamo' \in Seq(Mi!Letter)
      /\ sent' \in Seq(Seq(Mi!Letter)) /\ inputBuffer' \in Seq(Mi!Letter)
  BY <1>1, <1>2, <1>3 DEF MacTypes
<1>5. /\ imeActive' \in BOOLEAN /\ sessionActive' \in BOOLEAN /\ compositionActive' \in BOOLEAN
      /\ cut' \in BOOLEAN /\ overrun' \in BOOLEAN /\ (~cut' => ~cut)
      /\ (~overrun' => ~overrun /\ pendingLegacyJamo = <<>>)
  BY <1>1, <1>2 DEF MacTypes
<1>6. ~overrun' => MacOut' = MacOut \o d
  <2>. SUFFICES ASSUME ~overrun' PROVE MacOut' = MacOut \o d
    OBVIOUS
  <2>1. Flat(sent) \in Seq(Nat) /\ legacySyllable \in Seq(Nat)
    BY <1>1, MacLetters
  <2>2. OutOf(Flat(sent), legacySyllable, d) = OutOf(Flat(sent), legacySyllable, <<>>) \o d
    BY <1>3, <2>1, HeldBack
  <2>. QED
    BY <1>2, <1>5, <2>2, Zenon DEF MacOut, Flat
<1>7. ~cut' => (compositionActive' \/ inputBuffer' = <<>>)
  BY <1>2 DEF MacInv
<1>. QED
  BY <1>2, <1>3, <1>4, <1>5, <1>6, <1>7, MacHandled

LEMMA MacKeyOrBlur ==
  ASSUME MacInv, Mi!KeyDown \/ Mi!Blur
  PROVE  MacInv'
<1>1. MacTypes /\ <<>> \in Seq(Mi!Letter)
  BY Joined DEF MacInv
<1>2. MacOut \in Seq(Nat) /\ MacOut \o <<>> = MacOut
  BY <1>1, MacLetters, Joined
\* The session ends, with the key sent after it or none.
<1>3. ASSUME NEW kind \in {"key", "blur"}, Mi!Handle(kind), NEW next, Mi!EndSession(next),
             IF kind = "key" THEN next = <<Mi!Data>> ELSE next = <<>>,
             UNCHANGED <<typed, switched, composing, overrun>>
      PROVE  MacInv'
  <2>1. kind = "key" => Mi!Data \in Seq(Mi!Letter)
    BY <1>1, <1>3, DataIs
  <2>2. next = <<>> \/ \E d \in Seq(Mi!Letter) : next = <<d>>
    BY <1>3, <2>1
  <2>3. /\ sent' \in Seq(Seq(Mi!Letter)) /\ legacySyllable' = <<>> /\ pendingLegacyJamo' = <<>>
        /\ inputBuffer' = <<>> /\ sessionActive' = FALSE /\ imeActive' = FALSE /\ compositionActive' = FALSE
        /\ cut' = (cut \/ compositionActive)
        /\ inputBuffer = <<>> /\ next = <<>> => MacOut' = MacOut
        /\ \A d \in Seq(Mi!Letter) : inputBuffer = <<>> /\ next = <<d>> => MacOut' = MacOut \o d
    BY <1>1, <1>3, <2>2, SessionEnded
  <2>4. /\ imeActive' \in BOOLEAN /\ sessionActive' \in BOOLEAN /\ compositionActive' \in BOOLEAN
        /\ cut' \in BOOLEAN /\ overrun' \in BOOLEAN /\ (~cut' => ~cut) /\ (~overrun' => ~overrun)
    BY <1>1, <1>3, <2>3 DEF MacTypes
  <2>5. ~cut' => inputBuffer = <<>>
    BY <2>3 DEF MacInv
  <2>6. ~cut' => MacOut' = MacOut \o Written(kind)
    <3>1. CASE kind = "key"
      BY <1>3, <2>1, <2>3, <2>5, <3>1 DEF Written
    <3>2. CASE kind = "blur"
      BY <1>2, <1>3, <2>3, <2>5, <3>2 DEF Written
    <3>. QED
      BY <1>3, <3>1, <3>2
  <2>7. legacySyllable' \in Seq(Mi!Letter) /\ pendingLegacyJamo' \in Seq(Mi!Letter) /\ inputBuffer' \in Seq(Mi!Letter)
    BY <1>1, <2>3
  <2>8. kind # "start" /\ kind # "update"
    BY <1>3
  <2>. QED
    BY <1>3, <2>3, <2>4, <2>6, <2>7, <2>8, MacHandled
<1>4. CASE Mi!KeyDown
  <2>1. Mi!Handle("key") /\ UNCHANGED <<typed, switched, composing, overrun>>
    BY <1>4 DEF Mi!KeyDown, Mi!inputVars
  <2>2. CASE imeActive
    <3>1. Mi!EndSession(<<Mi!Data>>)
      BY <1>4, <2>2 DEF Mi!KeyDown
    <3>. QED
      BY <1>3, <2>1, <3>1
  <2>3. CASE ~imeActive
    <3>1. /\ sent' = Append(sent, Mi!Data)
          /\ UNCHANGED <<imeActive, sessionActive, compositionActive, inputBuffer, pendingLegacyJamo,
                         legacySyllable, cut>>
      BY <1>4, <2>3 DEF Mi!KeyDown, Mi!modeVars, Mi!holdVars
    <3>2. Mi!Data \in Seq(Mi!Letter) /\ Mi!Data \in Seq(Nat) /\ Written("key") = Mi!Data
      BY <1>1, <2>1, DataIs DEF Written
    <3>3. sent' \in Seq(Seq(Mi!Letter)) /\ Flat(sent') = Flat(sent) \o Mi!Data
      <4>1. sent \in Seq(Seq(Mi!Letter)) /\ sent' = sent \o <<Mi!Data>>
        BY <1>1, <3>1, <3>2 DEF MacTypes
      <4>2. /\ sent \o <<Mi!Data>> \in Seq(Seq(Mi!Letter))
            /\ Flat(sent \o <<Mi!Data>>) = Flat(sent) \o Mi!Data
        <5>1. sent \in Seq(Seq(Mi!Letter)) /\ Mi!Data \in Seq(Mi!Letter)
          BY <3>2, <4>1
        <5>. QED
          BY <5>1, FlatWith
      <4>. QED
        BY <4>1, <4>2
    <3>4. ~overrun' => MacOut' = MacOut \o Mi!Data
      <4>. SUFFICES ASSUME ~overrun' PROVE MacOut' = MacOut \o Mi!Data
        OBVIOUS
      <4>1. legacySyllable = <<>> /\ pendingLegacyJamo = <<>>
        BY <2>1, <2>3 DEF MacInv
      <4>2. SentOn(Flat(sent), Mi!Data)
        BY <1>1, <3>2, MacLetters, HeldBack
      <4>3. OutOf(Flat(sent) \o Mi!Data, <<>>, <<>>) = OutOf(Flat(sent), <<>>, <<>>) \o Mi!Data
        BY <4>2, Zenon DEF SentOn
      <4>4. MacOut' = OutOf(Flat(sent'), <<>>, <<>>)
        BY <3>1, <4>1, Zenon DEF MacOut, Flat
      <4>. QED
        BY <3>3, <4>1, <4>3, <4>4, Zenon DEF MacOut
    <3>5. /\ inputBuffer' \in Seq(Mi!Letter) /\ legacySyllable' \in Seq(Mi!Letter)
          /\ pendingLegacyJamo' \in Seq(Mi!Letter)
          /\ imeActive' \in BOOLEAN /\ sessionActive' \in BOOLEAN /\ compositionActive' \in BOOLEAN
          /\ cut' \in BOOLEAN /\ overrun' \in BOOLEAN /\ (~cut' => ~cut) /\ (~overrun' => ~overrun)
      BY <1>1, <2>1, <3>1 DEF MacTypes
    <3>6. /\ sessionActive' \/ (legacySyllable' = <<>> /\ pendingLegacyJamo' = <<>>)
          /\ ~cut' => (compositionActive' \/ inputBuffer' = <<>>)
          /\ ~overrun' => (imeActive' \/ (legacySyllable' = <<>> /\ pendingLegacyJamo' = <<>>))
      BY <2>1, <3>1 DEF MacInv
    <3>. QED
      BY <2>1, <3>2, <3>3, <3>4, <3>5, <3>6, MacHandled
  <2>. QED
    BY <2>2, <2>3
<1>5. CASE Mi!Blur
  <2>1. Mi!Handle("blur") /\ UNCHANGED <<typed, switched, composing, overrun>>
    BY <1>5 DEF Mi!Blur, Mi!inputVars
  <2>2. CASE imeActive
    <3>1. Mi!EndSession(<<>>)
      BY <1>5, <2>2 DEF Mi!Blur
    <3>. QED
      BY <1>3, <2>1, <3>1
  <2>3. CASE ~imeActive
    <3>1. UNCHANGED <<imeActive, sessionActive, compositionActive, inputBuffer, pendingLegacyJamo,
                      legacySyllable, sent, cut>>
      BY <1>5, <2>3 DEF Mi!Blur, Mi!modeVars, Mi!holdVars
    <3>2. MacOut' = MacOut
      BY <3>1, Zenon DEF MacOut, Flat
    <3>3. MacOut' = MacOut \o Written("blur")
      BY <1>2, <3>2 DEF Written
    <3>5. /\ inputBuffer' \in Seq(Mi!Letter) /\ legacySyllable' \in Seq(Mi!Letter)
          /\ pendingLegacyJamo' \in Seq(Mi!Letter) /\ sent' \in Seq(Seq(Mi!Letter))
          /\ imeActive' \in BOOLEAN /\ sessionActive' \in BOOLEAN /\ compositionActive' \in BOOLEAN
          /\ cut' \in BOOLEAN /\ overrun' \in BOOLEAN /\ (~cut' => ~cut) /\ (~overrun' => ~overrun)
      BY <1>1, <2>1, <3>1 DEF MacTypes
    <3>6. /\ sessionActive' \/ (legacySyllable' = <<>> /\ pendingLegacyJamo' = <<>>)
          /\ ~cut' => (compositionActive' \/ inputBuffer' = <<>>)
          /\ ~overrun' => (imeActive' \/ (legacySyllable' = <<>> /\ pendingLegacyJamo' = <<>>))
      BY <2>1, <3>1 DEF MacInv
    <3>. QED
      BY <2>1, <3>3, <3>5, <3>6, MacHandled
  <2>. QED
    BY <2>2, <2>3
<1>. QED
  BY <1>4, <1>5

\* What is no event: the interception is set, marks of the shell and echoes come.
LEMMA MacUndisturbed ==
  ASSUME MacInv, UNCHANGED <<typed, switched, composing, macEvents, imeActive, sessionActive, compositionActive,
                             inputBuffer, pendingLegacyJamo, legacySyllable, sent, cut, overrun>>
  PROVE  MacInv'
<1>1. MacTypes'
  BY DEF MacInv, MacTypes
<1>2. MacOut' = MacOut
  BY Zenon DEF MacOut, Flat
<1>3. ~cut' /\ ~overrun' => InOrder(MacOut', Flat(MacTexts(macEvents')), composing', Len(typed'))
  BY <1>2 DEF MacInv
<1>. QED
  BY <1>1, <1>3 DEF MacInv

LEMMA MacIntercepts ==
  ASSUME MacInv, NEW runs \in BOOLEAN, NEW y, Mi!SetInterceptEnabled(runs, y),
         UNCHANGED <<typed, switched, composing, macEvents, sessionActive>>
  PROVE  MacInv'
<1>1. MacTypes /\ <<>> \in Seq(Mi!Letter)
  BY Joined DEF MacInv
<1>2. CASE interceptEnabled /\ ~runs /\ imeActive
  <2>. DEFINE ss == sent \o Mi!Legacy
  <2>1. /\ sent' = ss \o Mi!Nonempty(inputBuffer) /\ Mi!FlushLegacyState
        /\ cut' = (cut \/ compositionActive)
        /\ overrun' = (overrun \/ (legacySyllable # <<>> /\ pendingLegacyJamo # <<>>))
        /\ imeActive' = FALSE /\ compositionActive' = FALSE /\ inputBuffer' = <<>>
    BY <1>2 DEF Mi!SetInterceptEnabled, Mi!Forgotten
  <2>2. /\ ss \in Seq(Seq(Mi!Letter)) /\ Flat(ss) \in Seq(Nat)
        /\ legacySyllable = <<>> \/ pendingLegacyJamo = <<>> => OutOf(Flat(ss), <<>>, <<>>) = MacOut
    BY <1>1, LegacySent
  <2>3. /\ legacySyllable' \in Seq(Mi!Letter) /\ pendingLegacyJamo' \in Seq(Mi!Letter)
        /\ legacySyllable' \in {legacySyllable, <<>>} /\ pendingLegacyJamo' \in {pendingLegacyJamo, <<>>}
        /\ legacySyllable = <<>> \/ pendingLegacyJamo = <<>> =>
             legacySyllable' = <<>> /\ pendingLegacyJamo' = <<>>
    BY <1>1, <2>1, LegacyForgotten
  <2>. HIDE DEF ss
  <2>4. sent' \in Seq(Seq(Mi!Letter)) /\ (inputBuffer = <<>> => sent' = ss)
    <3>1. ss \in Seq(Seq(Mi!Letter)) /\ inputBuffer \in Seq(Mi!Letter)
      BY <1>1, <2>2 DEF MacTypes
    <3>2. ss \o Mi!Nonempty(inputBuffer) \in Seq(Seq(Mi!Letter)) /\ ss \o <<>> = ss
      BY <3>1, FlatNonempty
    <3>3. inputBuffer = <<>> => Mi!Nonempty(inputBuffer) = <<>>
      BY DEF Mi!Nonempty
    <3>. QED
      BY <2>1, <3>2, <3>3
  <2>5. /\ ~cut' => ~cut /\ ~compositionActive /\ inputBuffer = <<>>
        /\ ~overrun' => ~overrun /\ (legacySyllable = <<>> \/ pendingLegacyJamo = <<>>)
        /\ cut' \in BOOLEAN /\ overrun' \in BOOLEAN
    BY <1>1, <2>1 DEF MacInv, MacTypes
  <2>6. ~cut' /\ ~overrun' => MacOut' = MacOut
    <3>. SUFFICES ASSUME ~cut', ~overrun' PROVE MacOut' = MacOut
      OBVIOUS
    <3>1. OutOf(Flat(ss), <<>>, <<>>) = MacOut /\ legacySyllable' = <<>> /\ pendingLegacyJamo' = <<>> /\ sent' = ss
      BY <2>2, <2>3, <2>4, <2>5
    <3>2. MacOut' = OutOf(Flat(sent'), <<>>, <<>>)
      BY <3>1, Zenon DEF MacOut, Flat
    <3>. QED
      BY <3>1, <3>2, Zenon
  <2>7. MacTypes'
    BY <1>1, <2>1, <2>3, <2>4, <2>5 DEF MacTypes
  <2>8. ~cut' /\ ~overrun' => InOrder(MacOut', Flat(MacTexts(macEvents')), composing', Len(typed'))
    BY <2>5, <2>6 DEF MacInv
  <2>9. /\ sessionActive' \/ (legacySyllable' = <<>> /\ pendingLegacyJamo' = <<>>)
        /\ ~overrun' => (imeActive' \/ (legacySyllable' = <<>> /\ pendingLegacyJamo' = <<>>))
    <3>1. sessionActive' \/ (legacySyllable' = <<>> /\ pendingLegacyJamo' = <<>>)
      BY <2>3 DEF MacInv
    <3>2. ~overrun' => legacySyllable' = <<>> /\ pendingLegacyJamo' = <<>>
      BY <2>3, <2>5
    <3>. QED
      BY <3>1, <3>2
  <2>10. /\ ~cut' => (Updating(macEvents') \/ (macEvents' = <<>> /\ composing' # <<>>) => compositionActive')
         /\ ~cut' => (compositionActive' \/ inputBuffer' = <<>>)
    BY <2>1, <2>5 DEF MacInv
  <2>11. /\ Adjacent(macEvents') /\ (Settled(macEvents') => composing' = <<>>) /\ (switched' => composing' = <<>>)
    BY DEF MacInv
  <2>. QED
    BY <2>7, <2>8, <2>9, <2>10, <2>11 DEF MacInv
<1>3. CASE ~(interceptEnabled /\ ~runs /\ imeActive)
  <2>1. UNCHANGED <<sent, legacySyllable, pendingLegacyJamo, inputBuffer, cut, overrun, imeActive, compositionActive>>
    BY <1>3 DEF Mi!SetInterceptEnabled
  <2>. QED
    BY <2>1, MacUndisturbed
<1>. QED
  BY <1>2, <1>3

\* Every step keeps the letters in order.
LEMMA MacStep ==
  ASSUME MacInv, MacNext
  PROVE  MacInv'
<1>1. ASSUME NEW k \in Mi!Kind, Mi!Key(k) PROVE MacInv'
  BY <1>1, MacKeys
<1>2. CASE Mi!SwitchLanguage \/ Mi!LoseFocus
  BY <1>2, MacLeft
<1>3. CASE Mi!CompositionStart \/ Mi!CompositionUpdate
  BY <1>3, MacComposes
<1>4. CASE Mi!CompositionEnd
  BY <1>4, MacCompositionEnds
<1>5. CASE Mi!InsertText
  BY <1>5, MacInserts
<1>6. CASE Mi!KeyDown \/ Mi!Blur
  BY <1>6, MacKeyOrBlur
<1>7. CASE Mi!PromptStarts \/ Mi!CursorTimer \/ Mi!CommandStarts
  <2>1. PICK runs \in BOOLEAN, y \in {promptY, FALSE} : Mi!SetInterceptEnabled(runs, y)
    BY <1>7 DEF Mi!PromptStarts, Mi!CursorTimer, Mi!CommandStarts
  <2>2. UNCHANGED <<typed, switched, composing, macEvents, sessionActive>>
    BY <1>7 DEF Mi!PromptStarts, Mi!CursorTimer, Mi!CommandStarts, Mi!inputVars
  <2>. QED
    BY <2>1, <2>2, MacIntercepts
<1>8. CASE Mi!PromptEnds \/ Mi!Echo
  <2>1. UNCHANGED <<typed, switched, composing, macEvents, imeActive, sessionActive, compositionActive,
                    inputBuffer, pendingLegacyJamo, legacySyllable, sent, cut, overrun>>
    BY <1>8 DEF Mi!PromptEnds, Mi!Echo, Mi!inputVars, Mi!modeVars, Mi!holdVars
  <2>. QED
    BY <2>1, MacUndisturbed
<1>9. CASE UNCHANGED miVars
  BY <1>9, MacUndisturbed DEF miVars
<1>. QED
  BY <1>1, <1>2, <1>3, <1>4, <1>5, <1>6, <1>7, <1>8, <1>9 DEF MacNext, Mi!Next

\* Nothing has been typed at first.
LEMMA MacBegins ==
  ASSUME Mi!Init
  PROVE  MacInv
<1>1. /\ typed = <<>> /\ switched \in BOOLEAN /\ composing = <<>> /\ macEvents = <<>>
      /\ imeActive = FALSE /\ sessionActive = FALSE /\ compositionActive = FALSE
      /\ inputBuffer = <<>> /\ pendingLegacyJamo = <<>> /\ legacySyllable = <<>>
      /\ sent = <<>> /\ cut = FALSE /\ overrun = FALSE
  BY DEF Mi!Init
<1>2. /\ <<>> \in Seq(Mi!Kind) /\ <<>> \in Seq(Mi!Event) /\ <<>> \in Seq(Mi!Letter)
      /\ <<>> \in Seq(Seq(Mi!Letter)) /\ <<>> \in Seq(Nat) /\ <<>> \o <<>> = <<>> /\ Len(<<>>) = 0
  OBVIOUS
<1>3. MacTypes
  <2>1. Len(typed) <= MaxKeys /\ Len(macEvents) <= 3
    BY <1>1, <1>2, InputAssumption
  <2>. QED
    BY <1>1, <1>2, <2>1 DEF MacTypes
<1>4. Flat(MacTexts(<<>>)) = <<>> /\ Adjacent(<<>>) /\ ~Settled(<<>>) /\ ~Updating(<<>>)
  BY NoneQueued DEF Queued
<1>5. UpTo(0) = <<>>
  <2>1. UpTo(0) \in Seq(Nat) /\ Len(UpTo(0)) = 0
    BY DEF UpTo
  <2>. QED
    BY <2>1, EmptySeq
<1>6. MacOut = <<>>
  <2>1. Flat(<<>>) = <<>>
    BY FlatBegins DEF Flat
  <2>. QED
    BY <1>1, <1>2, <2>1 DEF MacOut, OutOf
<1>7. InOrder(MacOut, Flat(MacTexts(macEvents)), composing, Len(typed))
  BY <1>1, <1>2, <1>4, <1>5, <1>6 DEF InOrder
<1>8. Adjacent(macEvents) /\ ~Settled(macEvents) /\ ~Updating(macEvents)
  BY <1>1, <1>4
<1>. QED
  BY <1>1, <1>3, <1>7, <1>8 DEF MacInv

\* Every letter arrives once and in order.
LEMMA MacArrivesOnce ==
  ASSUME MacInv
  PROVE  Mi!LettersArriveInOrder
<1>. DEFINE text == Flat(MacTexts(macEvents))
<1>. SUFFICES ASSUME ~cut, ~overrun
              PROVE  (Mi!FlattenSeq(sent) \o Mi!Waiting) \o Mi!Undone = [i \in DOMAIN typed |-> i]
  BY DEF Mi!LettersArriveInOrder
<1>1. \A ss : Mi!FlattenSeq(ss) = Flat(ss)
  BY Zenon DEF Mi!FlattenSeq, Wi!FlattenSeq, Flat
<1>2. Mi!FlattenSeq(sent) \o Mi!Waiting = MacOut
  BY <1>1, Zenon DEF Mi!Waiting, MacOut, OutOf
<1>3. Mi!Undone = text \o composing
  BY <1>1, Zenon DEF Mi!Undone, MacTexts
<1>4. [i \in DOMAIN typed |-> i] = UpTo(Len(typed))
  <2>1. DOMAIN typed = 1 .. Len(typed)
    BY DEF MacInv, MacTypes
  <2>. QED
    BY <2>1 DEF UpTo
<1>5. InOrder(MacOut, text, composing, Len(typed))
  BY DEF MacInv
<1>6. text \in Seq(Nat) /\ MacOut \in Seq(Nat) /\ composing \in Seq(Nat)
  <2>1. Flat(Texts(MacText, macEvents)) \in Seq(Nat) /\ MacTexts(macEvents) = Texts(MacText, macEvents)
    BY MacTextIs, FlatTexts DEF MacInv, MacTypes
  <2>2. MacOut \in Seq(Nat) /\ composing \in Seq(Nat)
    BY MacLetters DEF MacInv, MacTypes
  <2>. QED
    BY <2>1, <2>2
<1>. HIDE DEF text
<1>7. (MacOut \o text) \o composing = MacOut \o (text \o composing)
  <2>1. \A a, b, c \in Seq(Nat) : (a \o b) \o c = a \o (b \o c)
    BY Joined
  <2>. QED
    BY <1>6, <2>1, Zenon
<1>. QED
  BY <1>2, <1>3, <1>4, <1>5, <1>7, Zenon DEF InOrder

-----------------------------------------------------------------------------
\* The overlay of what is composed lies as far left as texts were sent, at most, and not
\* right of the columns that the terminal has or will have: without a text that is not
\* confirmed not right of the cursor, with one not right of what the first echo will confirm.
MacFlags ==
  /\ interceptEnabled \in BOOLEAN /\ promptY \in BOOLEAN /\ promptStartAllowed \in BOOLEAN
  /\ marks \in 0 .. MaxMarks
OverlayLies(n, seen, live, at, open, base) ==
  /\ n \in Nat /\ seen \in Nat /\ at \in Int /\ open \in Nat /\ base \in Nat
  /\ seen <= n /\ base <= n /\ open <= at + n
  /\ open = 0 => at <= seen
  /\ open # 0 => at <= base + open /\ base + open <= n
  /\ live /\ open # 0 => seen <= base
OverlayInv == MacFlags /\ OverlayLies(Len(sent), echoed, sessionActive, anchor, unconfirmed, echoBase)

\* More texts are more of them.
LEMMA Longer ==
  ASSUME NEW s \in Seq(Seq(Mi!Letter)), NEW t, t = <<>> \/ \E d \in Seq(Mi!Letter) : t = <<d>>
  PROVE  s \o t \in Seq(Seq(Mi!Letter)) /\ Len(s) \in Nat /\ Len(s \o t) \in Nat /\ Len(s) <= Len(s \o t)
<1>. DEFINE T == Seq(Mi!Letter)
<1>1. t \in Seq(T)
  <2>1. <<>> \in Seq(T) /\ \A d \in T : <<d>> \in Seq(T)
    <3>. HIDE DEF T
    <3>. QED
      OBVIOUS
  <2>. QED
    BY <2>1
<1>2. s \in Seq(T)
  OBVIOUS
<1>. HIDE DEF T
<1>3. s \o t \in Seq(T) /\ Len(s) \in Nat /\ Len(t) \in Nat /\ Len(s \o t) = Len(s) + Len(t)
  BY <1>1, <1>2
<1>. QED
  BY <1>3 DEF T

\* The texts that are sent when a session ends or the interception is switched off.
LEMMA SentMore ==
  ASSUME MacTypes,
         \/ \E next : Mi!EndSession(next) /\ (next = <<>> \/ \E d \in Seq(Mi!Letter) : next = <<d>>)
         \/ sent' = sent \o Mi!Legacy \o Mi!Nonempty(inputBuffer)
  PROVE  Len(sent) \in Nat /\ Len(sent') \in Nat /\ Len(sent) <= Len(sent')
<1>. DEFINE One(t) == t = <<>> \/ \E d \in Seq(Mi!Letter) : t = <<d>>
            More(s, t) == t \in Seq(Seq(Mi!Letter)) /\ Len(s) \in Nat /\ Len(t) \in Nat /\ Len(s) <= Len(t)
<1>1. ASSUME NEW s \in Seq(Seq(Mi!Letter)), NEW t, One(t) PROVE More(s, s \o t)
  BY <1>1, Longer
<1>2. /\ sent \in Seq(Seq(Mi!Letter)) /\ inputBuffer \in Seq(Mi!Letter)
      /\ legacySyllable \in Seq(Mi!Letter) /\ pendingLegacyJamo \in Seq(Mi!Letter)
  BY DEF MacTypes
<1>3. \A d \in Seq(Mi!Letter) : One(Mi!Nonempty(d))
  BY DEF Mi!Nonempty
<1>4. One(Mi!Legacy) /\ One(<<>>)
  BY <1>2 DEF Mi!Legacy
<1>5. ASSUME NEW next, Mi!EndSession(next), One(next) PROVE More(sent, sent')
  <2>. DEFINE a == IF legacySyllable = <<>> THEN Mi!Nonempty(pendingLegacyJamo) ELSE <<>>
              b == IF legacySyllable # <<>> THEN Mi!Nonempty(pendingLegacyJamo) ELSE <<>>
              s1 == sent \o Mi!Nonempty(legacySyllable)
              s2 == s1 \o a
              s3 == s2 \o Mi!Nonempty(inputBuffer)
              s4 == s3 \o b
  <2>1. sent' = s4 \o next
    BY <1>5 DEF Mi!EndSession
  <2>2. One(a) /\ One(b)
    <3>1. One(Mi!Nonempty(pendingLegacyJamo)) /\ One(<<>>)
      BY <1>2, <1>3, <1>4
    <3>. HIDE DEF One
    <3>. QED
      BY <3>1
  <2>3. One(Mi!Nonempty(legacySyllable)) /\ One(Mi!Nonempty(inputBuffer))
    BY <1>2, <1>3
  <2>. HIDE DEF a, b, One, More
  <2>4. More(sent, s1)
    BY <1>1, <1>2, <2>3
  <2>5. s1 \in Seq(Seq(Mi!Letter))
    BY <2>4 DEF More
  <2>. HIDE DEF s1
  <2>6. More(s1, s2)
    BY <1>1, <2>2, <2>5
  <2>7. s2 \in Seq(Seq(Mi!Letter))
    BY <2>6 DEF More
  <2>. HIDE DEF s2
  <2>8. More(s2, s3)
    BY <1>1, <2>3, <2>7
  <2>9. s3 \in Seq(Seq(Mi!Letter))
    BY <2>8 DEF More
  <2>. HIDE DEF s3
  <2>10. More(s3, s4)
    BY <1>1, <2>2, <2>9
  <2>11. s4 \in Seq(Seq(Mi!Letter))
    BY <2>10 DEF More
  <2>. HIDE DEF s4
  <2>12. More(s4, s4 \o next)
    BY <1>1, <1>5, <2>11
  <2>. QED
    BY <2>1, <2>4, <2>6, <2>8, <2>10, <2>12 DEF More
<1>6. ASSUME sent' = sent \o Mi!Legacy \o Mi!Nonempty(inputBuffer) PROVE More(sent, sent')
  <2>. DEFINE s1 == sent \o Mi!Legacy
  <2>3. One(Mi!Nonempty(inputBuffer))
    BY <1>2, <1>3
  <2>. HIDE DEF One, More
  <2>4. More(sent, s1)
    BY <1>1, <1>2, <1>4
  <2>5. s1 \in Seq(Seq(Mi!Letter))
    BY <2>4 DEF More
  <2>. HIDE DEF s1
  <2>6. More(s1, s1 \o Mi!Nonempty(inputBuffer))
    BY <1>1, <2>3, <2>5
  <2>. QED
    BY <1>6, <2>4, <2>6 DEF More, s1
<1>7. More(sent, sent')
  <2>. HIDE DEF More
  <2>. QED
    BY <1>5, <1>6
<1>. QED
  BY <1>7
\* What a text that is held adds.
LEMMA HeldCounts ==
  ASSUME MacTypes
  PROVE  /\ Len(sent) \in Nat /\ Len(Mi!Legacy) \in Nat /\ Len(sent \o Mi!Legacy) = Len(sent) + Len(Mi!Legacy)
         /\ (Mi!Legacy = <<>> <=> Len(Mi!Legacy) = 0)
<1>1. \A s, t \in Seq(Seq(Mi!Letter)) :
        /\ Len(s) \in Nat /\ Len(t) \in Nat /\ Len(s \o t) = Len(s) + Len(t)
        /\ t = <<>> <=> Len(t) = 0
  BY EmptySeq
<1>2. sent \in Seq(Seq(Mi!Letter)) /\ Mi!Legacy \in Seq(Seq(Mi!Letter))
  BY DEF MacTypes, Mi!Legacy
<1>. QED
  BY <1>1, <1>2

\* Nothing of the overlay moves.
LEMMA OverlayStays ==
  ASSUME OverlayInv, MacFlags',
         UNCHANGED <<sent, echoed, sessionActive, anchor, unconfirmed, echoBase>>
  PROVE  OverlayInv'
BY DEF OverlayInv

\* A composition starts: a syllable that was held goes out before, or a session begins.
LEMMA OverlayStarts ==
  ASSUME MacTypes, OverlayInv, Mi!CompositionStart
  PROVE  OverlayInv'
<1>1. MacFlags' /\ echoed' = echoed /\ sessionActive' = TRUE
  BY DEF Mi!CompositionStart, OverlayInv, MacFlags, Mi!promptVars
<1>2. sessionActive \in BOOLEAN /\ promptY \in BOOLEAN
  BY DEF OverlayInv, MacFlags, MacTypes
<1>3. OverlayLies(Len(sent), echoed, sessionActive, anchor, unconfirmed, echoBase)
  BY DEF OverlayInv
<1>4. CASE sessionActive
  <2>. DEFINE held == IF Mi!HasJongseong THEN Mi!Legacy ELSE <<>>
              more == Len(held)
              moved == IF promptY THEN anchor + more ELSE anchor
  <2>1. /\ sent' = sent \o held /\ unconfirmed' = unconfirmed + more
        /\ echoBase' = IF unconfirmed = 0 /\ held # <<>> THEN echoed ELSE echoBase
        /\ anchor' = IF ~promptY /\ echoed > moved THEN echoed ELSE moved
    BY <1>4, Zenon DEF Mi!CompositionStart
  <2>2. /\ Len(sent) \in Nat /\ more \in Nat /\ Len(sent \o held) = Len(sent) + more
        /\ (held # <<>> <=> more # 0)
    <3>1. sent \in Seq(Seq(Mi!Letter))
      BY DEF MacTypes
    <3>2. sent \o <<>> = sent /\ Len(<<>>) = 0 /\ Len(sent) \in Nat /\ Len(sent) + 0 = Len(sent)
      BY <3>1
    <3>. QED
      BY <3>2, HeldCounts
  <2>. HIDE DEF held
  <2>3. /\ Len(sent') = Len(sent) + more
        /\ echoBase' = IF unconfirmed = 0 /\ more # 0 THEN echoed ELSE echoBase
        /\ anchor' \in {anchor, anchor + more, echoed}
    BY <2>1, <2>2
  <2>. HIDE DEF more
  <2>4. /\ \A to \in {anchor, anchor + more} :
             OverlayLies(Len(sent) + more, echoed, TRUE, to, unconfirmed + more,
                         IF unconfirmed = 0 /\ more # 0 THEN echoed ELSE echoBase)
        /\ OverlayLies(Len(sent) + more, echoed, TRUE, echoed, unconfirmed + more,
                       IF unconfirmed = 0 /\ more # 0 THEN echoed ELSE echoBase)
    <3>1. OverlayLies(Len(sent), echoed, TRUE, anchor, unconfirmed, echoBase)
      BY <1>3, <1>4
    <3>. QED
      BY <2>2, <3>1 DEF OverlayLies
  <2>. QED
    BY <1>1, <2>1, <2>3, <2>4 DEF OverlayInv
<1>5. CASE ~sessionActive
  <2>1. sent' = sent /\ unconfirmed' = 0 /\ anchor' = echoed /\ echoBase' = echoBase
    BY <1>5 DEF Mi!CompositionStart
  <2>2. OverlayLies(Len(sent), echoed, TRUE, echoed, 0, echoBase)
    <3>1. 0 \in Nat /\ TRUE \in BOOLEAN
      OBVIOUS
    <3>. QED
      BY <1>2, <1>3, <3>1 DEF OverlayLies
  <2>. QED
    BY <1>1, <2>1, <2>2 DEF OverlayInv
<1>. QED
  BY <1>4, <1>5

\* A key and the end of a composition come with a text.
LEMMA MacHolds ==
  ASSUME MacTypes, Mi!Handle("key") \/ Mi!Handle("end")
  PROVE  Mi!Data \in Seq(Mi!Letter)
<1>1. Head(macEvents) \in Mi!Event /\ Head(macEvents)[1] \in {"key", "end"}
  BY DEF MacTypes, Mi!Handle
<1>. QED
  BY <1>1 DEF Mi!Data, Mi!Event

\* A composition ends: it is held, or goes out after what was held.
LEMMA OverlayEnds ==
  ASSUME MacTypes, OverlayInv, Mi!CompositionEnd
  PROVE  OverlayInv'
<1>1. MacFlags' /\ echoed' = echoed /\ sessionActive' = sessionActive
  BY DEF Mi!CompositionEnd, OverlayInv, MacFlags, Mi!promptVars
<1>2. CASE UNCHANGED <<sent, anchor, unconfirmed, echoBase>>
  BY <1>1, <1>2, OverlayStays
<1>3. CASE Mi!SendToInput(Mi!HeldFirst)
  <2>. DEFINE more == Len(Mi!HeldFirst)
  <2>1. Len(sent) \in Nat /\ more \in Nat /\ Len(sent \o Mi!HeldFirst) = Len(sent) + more /\ Mi!HeldFirst # <<>>
        /\ more # 0
    <3>1. Mi!Data \in Seq(Mi!Letter)
      BY MacHolds DEF Mi!CompositionEnd
    <3>. DEFINE T == Seq(Mi!Letter)
                s == Mi!Legacy
                d == Mi!Data
    <3>2. s \in Seq(T) /\ d \in T /\ sent \in Seq(T)
      BY <3>1 DEF MacTypes, Mi!Legacy
    <3>. HIDE DEF T, s, d
    <3>3. /\ s \o <<d>> \in Seq(T) /\ Len(s) \in Nat /\ Len(s \o <<d>>) = Len(s) + 1 /\ Len(sent) \in Nat
          /\ s \o <<d>> # <<>>
      BY <3>2
    <3>4. Len(sent \o (s \o <<d>>)) = Len(sent) + Len(s \o <<d>>)
      BY <3>2, <3>3
    <3>5. Mi!HeldFirst = s \o <<d>>
      BY DEF Mi!HeldFirst, s, d
    <3>. QED
      BY <3>3, <3>4, <3>5
  <2>2. /\ Len(sent') = Len(sent) + more /\ unconfirmed' = unconfirmed + more
        /\ echoBase' = IF unconfirmed = 0 /\ more # 0 THEN echoed ELSE echoBase
        /\ anchor' \in {anchor, anchor + more}
    BY <1>3, <2>1 DEF Mi!SendToInput
  <2>. HIDE DEF more
  <2>3. \A to \in {anchor, anchor + more} :
          OverlayLies(Len(sent) + more, echoed, sessionActive, to, unconfirmed + more,
                      IF unconfirmed = 0 /\ more # 0 THEN echoed ELSE echoBase)
    <3>1. /\ sessionActive \in BOOLEAN
          /\ OverlayLies(Len(sent), echoed, sessionActive, anchor, unconfirmed, echoBase)
      BY DEF OverlayInv, MacTypes
    <3>. QED
      BY <2>1, <3>1 DEF OverlayLies
  <2>. QED
    BY <1>1, <2>2, <2>3 DEF OverlayInv
<1>. QED
  BY <1>2, <1>3 DEF Mi!CompositionEnd, Mi!echoVars

\* A session ends or the interception is switched off: the overlay is forgotten.
LEMMA OverlayForgotten ==
  ASSUME MacTypes, OverlayInv, MacFlags', sessionActive' \in BOOLEAN,
         anchor' = 0, unconfirmed' = 0, UNCHANGED <<echoed, echoBase>>,
         Len(sent') \in Nat, Len(sent) <= Len(sent'), Len(sent) \in Nat
  PROVE  OverlayInv'
<1>. DEFINE more == Len(sent') - Len(sent)
<1>1. more \in Nat /\ Len(sent') = Len(sent) + more
  OBVIOUS
<1>. HIDE DEF more
<1>2. OverlayLies(Len(sent) + more, echoed, sessionActive', 0, 0, echoBase)
  <2>1. /\ sessionActive \in BOOLEAN
        /\ OverlayLies(Len(sent), echoed, sessionActive, anchor, unconfirmed, echoBase)
    BY DEF OverlayInv, MacTypes
  <2>. QED
    BY <1>1, <2>1 DEF OverlayLies
<1>. QED
  BY <1>1, <1>2 DEF OverlayInv

\* A key is pressed or the focus is lost.
LEMMA OverlayLeft ==
  ASSUME MacTypes, OverlayInv, Mi!KeyDown \/ Mi!Blur
  PROVE  OverlayInv'
<1>1. UNCHANGED <<echoed, echoBase>> /\ UNCHANGED <<interceptEnabled, promptStartAllowed, marks>>
  BY DEF Mi!KeyDown, Mi!Blur, Mi!EndSession, Mi!echoVars
<1>2. CASE \E next : Mi!EndSession(next) /\ (next = <<>> \/ \E d \in Seq(Mi!Letter) : next = <<d>>)
  <2>1. sessionActive' = FALSE /\ promptY' = FALSE /\ anchor' = 0 /\ unconfirmed' = 0
    BY <1>2 DEF Mi!EndSession, Mi!Forgotten
  <2>2. Len(sent) \in Nat /\ Len(sent') \in Nat /\ Len(sent) <= Len(sent')
    BY <1>2, SentMore
  <2>3. MacFlags'
    BY <1>1, <2>1 DEF OverlayInv, MacFlags
  <2>. QED
    BY <1>1, <2>1, <2>2, <2>3, OverlayForgotten
<1>3. CASE /\ UNCHANGED <<sessionActive, promptY, anchor, unconfirmed>>
           /\ sent' = sent \/ \E d \in Seq(Mi!Letter) : sent' = Append(sent, d)
  <2>1. MacFlags'
    BY <1>1, <1>3 DEF OverlayInv, MacFlags
  <2>2. Len(sent) \in Nat /\ Len(sent') \in {Len(sent), Len(sent) + 1}
    BY <1>3 DEF MacTypes
  <2>3. PICK more \in {0, 1} : Len(sent') = Len(sent) + more
    BY <2>2
  <2>4. OverlayLies(Len(sent) + more, echoed, sessionActive, anchor, unconfirmed, echoBase)
    <3>1. /\ sessionActive \in BOOLEAN /\ more \in Nat
          /\ OverlayLies(Len(sent), echoed, sessionActive, anchor, unconfirmed, echoBase)
      BY DEF OverlayInv, MacTypes
    <3>. QED
      BY <3>1 DEF OverlayLies
  <2>. QED
    BY <1>1, <1>3, <2>1, <2>3, <2>4 DEF OverlayInv
<1>4. ASSUME Mi!KeyDown PROVE Mi!Data \in Seq(Mi!Letter)
  BY <1>4, MacHolds DEF Mi!KeyDown
<1>5. CASE Mi!KeyDown
  BY <1>2, <1>3, <1>4, <1>5 DEF Mi!KeyDown, Mi!modeVars, Mi!echoVars
<1>6. CASE Mi!Blur
  BY <1>2, <1>3, <1>6 DEF Mi!Blur, Mi!modeVars, Mi!echoVars
<1>. QED
  BY <1>5, <1>6

\* The shell's marks and the timer set the interception.
LEMMA OverlayIntercepted ==
  ASSUME MacTypes, OverlayInv, NEW runs \in BOOLEAN, NEW y \in BOOLEAN, Mi!SetInterceptEnabled(runs, y),
         UNCHANGED <<sessionActive, echoed, echoBase>>, promptStartAllowed' \in BOOLEAN, marks' \in 0 .. MaxMarks
  PROVE  OverlayInv'
<1>1. CASE interceptEnabled /\ ~runs /\ imeActive
  <2>1. /\ sent' = sent \o Mi!Legacy \o Mi!Nonempty(inputBuffer)
        /\ promptY' = FALSE /\ anchor' = 0 /\ unconfirmed' = 0 /\ interceptEnabled' = runs
    BY <1>1 DEF Mi!SetInterceptEnabled, Mi!Forgotten
  <2>2. Len(sent) \in Nat /\ Len(sent') \in Nat /\ Len(sent) <= Len(sent')
    BY <2>1, SentMore
  <2>3. MacFlags' /\ sessionActive' \in BOOLEAN
    BY <2>1 DEF MacFlags, MacTypes
  <2>. QED
    BY <2>1, <2>2, <2>3, OverlayForgotten
<1>2. CASE ~(interceptEnabled /\ ~runs /\ imeActive)
  <2>1. UNCHANGED <<sent, anchor, unconfirmed>> /\ interceptEnabled' = runs /\ promptY' = y
    BY <1>2 DEF Mi!SetInterceptEnabled
  <2>2. MacFlags'
    BY <2>1 DEF OverlayInv, MacFlags
  <2>. QED
    BY <2>1, <2>2, OverlayStays
<1>. QED
  BY <1>1, <1>2

\* An echo corrects the overlay once.
LEMMA OverlayEchoed ==
  ASSUME MacTypes, OverlayInv, Mi!Echo
  PROVE  OverlayInv'
<1>1. UNCHANGED <<sent, sessionActive, echoBase>> /\ MacFlags'
  BY DEF Mi!Echo, OverlayInv, MacFlags, Mi!modeVars, Mi!promptVars
<1>2. Len(sent) \in Nat /\ sessionActive \in BOOLEAN
  BY DEF MacTypes
<1>3. echoed < Len(sent) /\ echoed' \in (echoed + 1) .. Len(sent)
  BY DEF Mi!Echo
<1>4. OverlayLies(Len(sent), echoed, sessionActive, anchor, unconfirmed, echoBase)
  BY DEF OverlayInv
<1>5. CASE sessionActive /\ unconfirmed > 0 /\ echoed' > echoBase
  <2>1. unconfirmed' = 0 /\ anchor' \in {echoed', anchor + (echoed' - echoBase) - unconfirmed}
    BY <1>5 DEF Mi!Echo
  <2>2. /\ echoed \in Nat /\ anchor \in Int /\ unconfirmed \in Nat /\ echoBase \in Nat
        /\ echoBase <= Len(sent) /\ anchor <= echoBase + unconfirmed /\ unconfirmed <= anchor + Len(sent)
    BY <1>4, <1>5 DEF OverlayLies
  <2>3. echoed' \in Nat /\ echoed' <= Len(sent) /\ echoed' >= echoBase
    BY <1>2, <1>3, <1>5, <2>2
  <2>4. anchor' \in Int /\ anchor' <= echoed' /\ 0 <= anchor' + Len(sent)
    <3>1. CASE anchor' = echoed'
      BY <1>2, <2>3, <3>1
    <3>2. CASE anchor' = anchor + (echoed' - echoBase) - unconfirmed
      <4>1. \A a \in Int : \A e, b, u, n \in Nat :
              b <= n /\ a <= b + u /\ u <= a + n /\ e >= b =>
                /\ a + (e - b) - u \in Int /\ a + (e - b) - u <= e /\ 0 <= (a + (e - b) - u) + n
        OBVIOUS
      <4>. DEFINE to == anchor + (echoed' - echoBase) - unconfirmed
      <4>2. to \in Int /\ to <= echoed' /\ 0 <= to + Len(sent)
        BY <1>2, <2>2, <2>3, <4>1
      <4>. HIDE DEF to
      <4>. QED
        BY <3>2, <4>2 DEF to
    <3>. QED
      BY <2>1, <3>1, <3>2
  <2>5. OverlayLies(Len(sent), echoed', sessionActive, anchor', 0, echoBase)
    BY <1>2, <2>2, <2>3, <2>4 DEF OverlayLies
  <2>. QED
    BY <1>1, <2>1, <2>5 DEF OverlayInv
<1>6. CASE ~(sessionActive /\ unconfirmed > 0 /\ echoed' > echoBase)
  <2>1. UNCHANGED <<anchor, unconfirmed>>
    BY <1>6 DEF Mi!Echo
  <2>2. OverlayLies(Len(sent), echoed', sessionActive, anchor, unconfirmed, echoBase)
    BY <1>2, <1>3, <1>4, <1>6 DEF OverlayLies
  <2>. QED
    BY <1>1, <2>1, <2>2 DEF OverlayInv
<1>. QED
  BY <1>5, <1>6

\* Every step keeps the overlay where it lies.
LEMMA OverlayStep ==
  ASSUME MacInv, OverlayInv, MacNext
  PROVE  OverlayInv'
<1>0. MacTypes /\ MacFlags /\ MaxMarks \in Nat
  BY InputAssumption DEF MacInv, OverlayInv
<1>1. CASE (\E k \in Mi!Kind : Mi!Key(k)) \/ Mi!SwitchLanguage \/ Mi!LoseFocus \/ Mi!CompositionUpdate
  <2>1. UNCHANGED <<sent, echoed, sessionActive, anchor, unconfirmed, echoBase, interceptEnabled, promptY,
                    promptStartAllowed, marks>>
    BY <1>1 DEF Mi!Key, Mi!SwitchLanguage, Mi!LoseFocus, Mi!CompositionUpdate, Mi!modeVars, Mi!promptVars,
                Mi!echoVars
  <2>. QED
    BY <1>0, <2>1, OverlayStays DEF MacFlags
<1>2. CASE Mi!CompositionStart
  BY <1>0, <1>2, OverlayStarts
<1>3. CASE Mi!CompositionEnd
  BY <1>0, <1>3, OverlayEnds
<1>4. CASE Mi!InsertText
  <2>1. /\ UNCHANGED <<sent, echoed, echoBase, interceptEnabled, promptY, promptStartAllowed, marks>>
        /\ sessionActive' = TRUE
        /\ IF sessionActive THEN UNCHANGED <<anchor, unconfirmed>> ELSE anchor' = echoed /\ unconfirmed' = 0
    BY <1>4 DEF Mi!InsertText, Mi!promptVars
  <2>2. MacFlags'
    BY <1>0, <2>1 DEF MacFlags
  <2>3. CASE sessionActive
    BY <2>1, <2>2, <2>3, OverlayStays
  <2>4. CASE ~sessionActive
    <3>1. OverlayLies(Len(sent), echoed, TRUE, echoed, 0, echoBase)
      <4>1. /\ 0 \in Nat /\ TRUE \in BOOLEAN /\ sessionActive \in BOOLEAN
            /\ OverlayLies(Len(sent), echoed, sessionActive, anchor, unconfirmed, echoBase)
        BY <1>0 DEF OverlayInv, MacTypes
      <4>. QED
        BY <4>1 DEF OverlayLies
    <3>2. anchor' = echoed /\ unconfirmed' = 0
      BY <2>1, <2>4
    <3>. QED
      BY <2>1, <2>2, <3>1, <3>2 DEF OverlayInv
  <2>. QED
    BY <2>3, <2>4
<1>5. CASE Mi!KeyDown \/ Mi!Blur
  BY <1>0, <1>5, OverlayLeft
<1>6. CASE Mi!PromptStarts \/ Mi!CursorTimer \/ Mi!CommandStarts
  <2>1. PICK runs \in BOOLEAN, y \in {promptY, FALSE} : Mi!SetInterceptEnabled(runs, y)
    BY <1>6 DEF Mi!PromptStarts, Mi!CursorTimer, Mi!CommandStarts
  <2>2. UNCHANGED <<sessionActive, echoed, echoBase>> /\ promptStartAllowed' \in {TRUE, FALSE, promptStartAllowed}
    BY <1>6 DEF Mi!PromptStarts, Mi!CursorTimer, Mi!CommandStarts
  <2>3. marks' \in 0 .. MaxMarks
    <3>1. Mi!Mark
      BY <1>6 DEF Mi!PromptStarts, Mi!CursorTimer, Mi!CommandStarts
    <3>. QED
      BY <1>0, <3>1 DEF Mi!Mark, MacFlags
  <2>4. promptStartAllowed' \in BOOLEAN /\ y \in BOOLEAN
    BY <1>0, <2>1, <2>2 DEF MacFlags
  <2>. QED
    BY <1>0, <2>1, <2>2, <2>3, <2>4, OverlayIntercepted
<1>7. CASE Mi!PromptEnds
  <2>1. /\ UNCHANGED <<sent, echoed, sessionActive, anchor, unconfirmed, echoBase>>
        /\ interceptEnabled' = interceptEnabled /\ promptY' \in BOOLEAN
        /\ promptStartAllowed' = promptStartAllowed
    BY <1>7 DEF Mi!PromptEnds, Mi!modeVars, Mi!echoVars
  <2>2. marks' \in 0 .. MaxMarks
    BY <1>0, <1>7 DEF Mi!PromptEnds, Mi!Mark, MacFlags
  <2>3. MacFlags'
    BY <1>0, <2>1, <2>2 DEF MacFlags
  <2>. QED
    BY <2>1, <2>3, OverlayStays
<1>8. CASE Mi!Echo
  BY <1>0, <1>8, OverlayEchoed
<1>9. CASE UNCHANGED miVars
  BY <1>0, <1>9, OverlayStays DEF miVars, MacFlags
<1>. QED
  BY <1>1, <1>2, <1>3, <1>4, <1>5, <1>6, <1>7, <1>8, <1>9 DEF MacNext, Mi!Next

\* The overlay is at the left edge at first.
LEMMA OverlayBegins ==
  ASSUME Mi!Init
  PROVE  OverlayInv
<1>1. /\ sent = <<>> /\ echoed = 0 /\ anchor = 0 /\ unconfirmed = 0 /\ echoBase = 0 /\ Len(<<>>) = 0
      /\ MacFlags
  BY InputAssumption DEF Mi!Init, MacFlags
<1>. QED
  BY <1>1 DEF OverlayInv, OverlayLies

\* So the input of macOS is typed.
LEMMA MacTyped ==
  ASSUME MacInv, OverlayInv
  PROVE  Mi!TypeOK
<1>1. MacTypes /\ MacFlags
  BY DEF MacInv, OverlayInv
<1>2. /\ echoed \in 0 .. Len(sent) /\ anchor \in (-Len(sent)) .. Len(sent)
      /\ unconfirmed \in 0 .. Len(sent) /\ echoBase \in 0 .. Len(sent)
  <2>1. Len(sent) \in Nat
    BY <1>1 DEF MacTypes
  <2>. QED
    BY <2>1 DEF OverlayInv, OverlayLies
<1>3. {unconfirmed, echoBase} \subseteq 0 .. Len(sent)
  BY <1>2
<1>4. {switched, imeActive, sessionActive, compositionActive, interceptEnabled, promptY,
       promptStartAllowed, cut, overrun} \subseteq BOOLEAN
  BY <1>1 DEF MacTypes, MacFlags
<1>. QED
  BY <1>1, <1>2, <1>3, <1>4 DEF MacTypes, MacFlags, Mi!TypeOK

-----------------------------------------------------------------------------
\* The part that runs keeps its invariant.
InputInv ==
  /\ part = "mac" => MacInv /\ OverlayInv
  /\ part = "win" => WinInv
  /\ part = "bar" => BarInv
  /\ part = "completion" => CompletionInv

\* It holds at first, and every step keeps it.
LEMMA InputKept == TypingSpec => []InputInv
<1>1. TypingInit => InputInv
  <2>1. ASSUME TypingInit
        PROVE  /\ part = "mac" => Mi!Init
               /\ part = "win" => Wi!Init
               /\ part = "bar" => Ib!Init
               /\ part = "completion" => Ac!AcInit
    BY <2>1 DEF TypingInit
  <2>. QED
    BY <2>1, MacBegins, OverlayBegins, WinBegins, BarBegins, CompletionBegins DEF InputInv
<1>2. InputInv /\ [TypingNext]_typingVars => InputInv'
  BY PartsStep, MacStep, OverlayStep, WinStep, BarStep, CompletionStep DEF InputInv
<1>. QED
  BY <1>1, <1>2, PTL DEF TypingSpec

\* What is typed, composed, attached or completed arrives once and in order, however the
\* events of the input methods, the shell's marks, drops and answers of the completion
\* cross (lib/platform/ime/mac.ts, lib/platform/ime/windows.ts, TerminalInputBar.tsx, useAutocomplete.ts).
THEOREM InputAlwaysArrives == TypingSpec => []InputArrivesOnce
<1>1. InputInv => InputArrivesOnce
  <2>1. CompletionInv => Ac!EnterTakesAPick
    BY DEF CompletionInv, PickedIn, Ac!EnterTakesAPick
  <2>. QED
    BY <2>1, MacArrivesOnce, WinArrivesOnce, BarAttachesOnce DEF InputInv, InputArrivesOnce
<1>. QED
  BY <1>1, InputKept, PTL

\* What runs is typed; under macOS the overlay is never right of the columns that the
\* terminal has or will have, whatever is echoed when and wherever the prompt is marked
\* (lib/platform/ime/mac.ts, sendToInput and setupRenderListener).
THEOREM TypingTyped == TypingSpec => []TypingTypeOK
<1>1. InputInv => TypingTypeOK
  BY MacTyped DEF InputInv, TypingTypeOK, WinInv, BarInv, BarTypes, CompletionInv
<1>. QED
  BY <1>1, InputKept, PTL
=============================================================================
