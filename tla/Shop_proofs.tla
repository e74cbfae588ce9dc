---------------------------- MODULE Shop_proofs -----------------------------
(***************************************************************************)
(* Theorems about what a shop enters: Wizard, for any sellers, buyers and  *)
(* phones; Records, for any editors, records and columns; Orders, for any  *)
(* offices, shops, people and tabs; Till, for any registers, jobs and       *)
(* payments.                                                               *)
(***************************************************************************)
EXTENDS Wizard, Records, Orders, Till, FiniteSetTheorems, FunctionTheorems,
        WellFoundedInduction, TLAPS

-----------------------------------------------------------------------------
(* Wizard *)

Typeable == [buyer: Buyers \cup {Untyped}, handset: Handsets \cup {Untyped},
             noLock: BOOLEAN]
Wizards == [step: 1..5, entry: Entries, shows: SUBSET Typeable, moved: BOOLEAN]
Requests == [entry: Entries, at: {"way", "checked", "kept", "done"}, own: BOOLEAN]
Rows == [nth: Nat, buyer: Buyers, handset: Handsets, noLock: BOOLEAN, open: BOOLEAN]

\* Types, weaker than WizardTypeOK: how many phones were registered is not counted.
Typed ==
  /\ wizard \in [Sellers -> SUBSET Wizards]
  /\ post \in [Sellers -> SUBSET Requests]
  /\ book \in [Buyers -> {"none", "active", "inactive"}]
  /\ sold \subseteq Rows /\ IsFiniteSet(sold)

\* A phone like this was registered, and has its code if it needs one.
IsSold(x) == \E q \in sold : Shown(q) = x
HasCode(x) == x.noLock \/ x.handset \in codes

\* Past a step its boxes are filled; a code is shown on the last page only.
BoxesFilled ==
  \A s \in Sellers : \A w \in wizard[s] :
    /\ w.step \in 2..4 => w.entry.buyer \in Buyers
    /\ w.step \in 3..4 => w.entry.handset \in Handsets
    /\ w.shows # {} => w.step = 5

\* A request is for a buyer and a phone; one past the transaction has its sale,
\* and one that will be answered its code.
Followed ==
  \A s \in Sellers : \A r \in post[s] :
    /\ r.entry.buyer \in Buyers /\ r.entry.handset \in Handsets
    /\ r.at \in {"kept", "done"} => IsSold(Shown(r.entry))
    /\ r.at = "kept" => ~r.entry.noLock
    /\ r.at = "done" => HasCode(Shown(r.entry))

\* A wizard that has not moved holds what its request asked for; a closed one
\* has no request of its own.
Together ==
  \A s \in Sellers : \A r \in post[s] :
    r.own => wizard[s] # {} /\ \A w \in wizard[s] : ~w.moved => Shown(r.entry) = Shown(w.entry)

\* Whoever was sold a phone is in the book.
Booked == \A q \in sold : book[q.buyer] # "none"

Inv == Typed /\ BoxesFilled /\ Followed /\ Together /\ Booked /\ SoldOnce

\* The handset and the buyer of what is sold stay, and so do the codes.
Grows ==
  /\ \A q \in sold : \E p \in sold' : Shown(p) = Shown(q)
  /\ codes \subseteq codes'

-----------------------------------------------------------------------------
LEMMA ShownFields ==
  ASSUME NEW x, NEW y
  PROVE  Shown(x) = Shown(y) <=>
           x.buyer = y.buyer /\ x.handset = y.handset /\ x.noLock = y.noLock
BY DEF Shown

\* What was followed stays followed when the sales grow.
LEMMA GrowsKeeps ==
  ASSUME Grows
  PROVE  \A x : (IsSold(x) => IsSold(x)') /\ (HasCode(x) => HasCode(x)')
BY DEF Grows, IsSold, HasCode

LEMMA Untouched ==
  ASSUME Inv, Grows, UNCHANGED <<wizard, post>>
  PROVE  (BoxesFilled /\ Followed /\ Together /\ QrOfThePhoneNamed)'
<1>1. Followed'
  BY GrowsKeeps DEF Inv, Followed
<1>2. QrOfThePhoneNamed'
  <2>1. \A r : (\E q \in sold : Shown(q) = r /\ (r.noLock \/ r.handset \in codes)) =>
               (\E q \in sold' : Shown(q) = r /\ (r.noLock \/ r.handset \in codes'))
    BY DEF Grows
  <2> QED
    BY <2>1 DEF Inv, SoldOnce, QrOfThePhoneNamed
<1> QED
  BY <1>1, <1>2 DEF Inv, BoxesFilled, Together

-----------------------------------------------------------------------------
(* The wizard's own actions leave what was sold alone. *)

LEMMA BooksUntouched ==
  ASSUME Inv, UNCHANGED <<book, sold, codes>>
  PROVE  (Booked /\ NothingSoldTwice /\ WholeSales)'
BY DEF Inv, SoldOnce, Booked, NothingSoldTwice, WholeSales

LEMMA OpenWizardStep ==
  ASSUME Inv, NEW s \in Sellers, OpenWizard(s) PROVE Inv'
<1> DEFINE w == [step |-> 1, shows |-> {}, moved |-> FALSE,
                 entry |-> [buyer |-> Untyped, handset |-> Untyped, noLock |-> FALSE, fair |-> TRUE]]
<1> USE DEF Inv, SoldOnce, OpenWizard
<1>1. w \in Wizards /\ wizard' = [wizard EXCEPT ![s] = {w}]
  BY DEF Wizards, Entries
<1>2. Typed'
  BY <1>1 DEF Typed
<1>3. \A t \in Sellers : wizard'[t] = wizard[t] \/ (t = s /\ wizard'[t] = {w})
  BY <1>1 DEF Typed
<1>4. BoxesFilled'
  BY <1>3 DEF BoxesFilled
<1>5. Followed'
  BY DEF Followed, IsSold, HasCode
<1>6. Together'
  BY <1>3 DEF Together
<1>7. QrOfThePhoneNamed'
  BY <1>3 DEF QrOfThePhoneNamed
<1> QED
  BY <1>2, <1>4, <1>5, <1>6, <1>7, BooksUntouched

\* Typing: the entry changes on the page of its step.
LEMMA EntersStep ==
  ASSUME Inv, NEW s \in Sellers, NEW step \in 1..3, NEW w \in wizard[s], NEW entry \in Entries,
         Enters(s, step, w, entry),
         step > 1 => entry.buyer = w.entry.buyer,
         step > 2 => entry.handset = w.entry.handset
  PROVE  Inv'
<1> DEFINE v == [w EXCEPT !.entry = entry, !.moved = \E r \in post[s] : r.own]
<1> USE DEF Inv, SoldOnce
<1>1. w \in Wizards
  BY DEF Typed
<1>0. w.step = step /\ wizard' = [wizard EXCEPT ![s] = {v}]
  BY DEF Enters
<1>2. v \in Wizards /\ v.step = step /\ v.entry = entry /\ v.shows = w.shows
  <2>1. (\E r \in post[s] : r.own) \in BOOLEAN
    OBVIOUS
  <2> QED
    BY <1>0, <1>1, <2>1 DEF Wizards
<1>11. ~v.moved => \A r \in post[s] : ~r.own
  BY <1>1 DEF Wizards
<1> HIDE DEF v
<1>3. \A t \in Sellers : wizard'[t] = wizard[t] \/ (t = s /\ wizard'[t] = {v})
  BY <1>0 DEF Typed
<1>4. Typed'
  <2>1. UNCHANGED <<post, book, sold>>
    BY DEF Enters
  <2>2. wizard' \in [Sellers -> SUBSET Wizards]
    BY <1>0, <1>2 DEF Typed
  <2> QED
    BY <2>1, <2>2 DEF Typed
<1>5. w.shows = {} /\ v.shows = {}
  BY <1>0, <1>2 DEF BoxesFilled
<1>6. BoxesFilled'
  BY <1>0, <1>2, <1>3, <1>5 DEF BoxesFilled
<1>7. Followed'
  BY DEF Enters, Followed, IsSold, HasCode
<1>8. Together'
  <2>1. post' = post
    BY DEF Enters
  <2>2. ASSUME NEW t \in Sellers, NEW r \in post[t], r.own
        PROVE  wizard'[t] # {} /\ \A x \in wizard'[t] : ~x.moved => Shown(r.entry) = Shown(x.entry)
    BY <1>3, <1>11, <2>2 DEF Together
  <2> QED
    BY <2>1, <2>2 DEF Together
<1>9. QrOfThePhoneNamed'
  BY <1>3, <1>5 DEF Enters, QrOfThePhoneNamed
<1> QED
  BY <1>4, <1>6, <1>7, <1>8, <1>9, BooksUntouched DEF Enters

LEMMA GoesToStep ==
  ASSUME Inv, NEW s \in Sellers, NEW w \in wizard[s], NEW step \in 1..4, GoesTo(s, w, step),
         w.step # 5,
         step > 1 => w.entry.buyer \in Buyers,
         step > 2 => w.entry.handset \in Handsets
  PROVE  Inv'
<1> DEFINE v == [w EXCEPT !.step = step]
<1> USE DEF Inv, SoldOnce
<1>1. w \in Wizards
  BY DEF Typed
<1>2. /\ v \in Wizards /\ v.step = step /\ v.entry = w.entry
      /\ v.shows = w.shows /\ v.moved = w.moved
  BY <1>1 DEF Wizards
<1>10. wizard' = [wizard EXCEPT ![s] = {v}]
  BY DEF GoesTo
<1> HIDE DEF v
<1>3. \A t \in Sellers : wizard'[t] = wizard[t] \/ (t = s /\ wizard'[t] = {v})
  BY <1>10 DEF Typed
<1>4. Typed'
  BY <1>2, <1>10 DEF GoesTo, Typed
<1>5. v.shows = {}
  BY <1>2 DEF BoxesFilled
<1>6. BoxesFilled'
  BY <1>2, <1>3, <1>5 DEF BoxesFilled
<1>7. Followed'
  BY DEF GoesTo, Followed, IsSold, HasCode
<1>8. Together'
  BY <1>2, <1>3 DEF GoesTo, Together
<1>9. QrOfThePhoneNamed'
  BY <1>3, <1>5 DEF GoesTo, QrOfThePhoneNamed
<1> QED
  BY <1>4, <1>6, <1>7, <1>8, <1>9, BooksUntouched DEF GoesTo

LEMMA CloseWizardStep ==
  ASSUME Inv, NEW s \in Sellers, CloseWizard(s) PROVE Inv'
<1> DEFINE Left(r) == [r EXCEPT !.own = FALSE]
<1> USE DEF Inv, SoldOnce
<1>1. ASSUME NEW r \in post[s]
      PROVE  Left(r) \in Requests /\ ~Left(r).own /\ Left(r).entry = r.entry /\ Left(r).at = r.at
  <2>1. r \in Requests
    BY DEF Typed
  <2> QED
    BY <2>1 DEF Requests
<1>2. post' = [post EXCEPT ![s] = {Left(r) : r \in post[s]}] /\ wizard' = [wizard EXCEPT ![s] = {}]
  BY DEF CloseWizard
<1> HIDE DEF Left
<1>3. \A t \in Sellers : \A x \in post'[t] :
        \/ x \in post[t] /\ wizard'[t] = wizard[t]
        \/ ~x.own /\ \E r \in post[t] : x.entry = r.entry /\ x.at = r.at
  BY <1>1, <1>2 DEF Typed
<1>4. \A t \in Sellers : wizard'[t] = wizard[t] \/ wizard'[t] = {}
  BY <1>2 DEF Typed
<1>5. Typed'
  BY <1>1, <1>2 DEF CloseWizard, Typed
<1>6. BoxesFilled'
  BY <1>4 DEF BoxesFilled
<1>7. Followed'
  BY <1>3 DEF CloseWizard, Followed, IsSold, HasCode
<1>8. Together'
  BY <1>3 DEF Together
<1>9. QrOfThePhoneNamed'
  BY <1>4 DEF CloseWizard, QrOfThePhoneNamed
<1> QED
  BY <1>5, <1>6, <1>7, <1>8, <1>9, BooksUntouched DEF CloseWizard

LEMMA ApproveStep ==
  ASSUME Inv, NEW s \in Sellers, Approve(s) PROVE Inv'
<1> USE DEF Inv, SoldOnce
<1>1. PICK w \in wizard[s] :
        /\ w.step = 4
        /\ post' = [post EXCEPT ![s] = {[entry |-> w.entry, at |-> "way", own |-> TRUE]}]
        /\ wizard' = [wizard EXCEPT ![s] = {[w EXCEPT !.moved = FALSE]}]
  BY DEF Approve
<1> DEFINE v == [w EXCEPT !.moved = FALSE]
           p == [entry |-> w.entry, at |-> "way", own |-> TRUE]
<1>2. w \in Wizards
  BY DEF Typed
<1>3. /\ v \in Wizards /\ v.step = 4 /\ v.entry = w.entry /\ v.shows = w.shows
      /\ p \in Requests /\ p.entry = w.entry /\ p.at = "way"
  BY <1>1, <1>2 DEF Wizards, Requests
<1>12. wizard' = [wizard EXCEPT ![s] = {v}] /\ post' = [post EXCEPT ![s] = {p}]
  BY <1>1
<1> HIDE DEF v, p
<1>4. \A t \in Sellers : (wizard'[t] = wizard[t] /\ post'[t] = post[t])
                           \/ (t = s /\ wizard'[t] = {v} /\ post'[t] = {p})
  BY <1>12 DEF Typed
<1>5. Typed'
  BY <1>3, <1>12 DEF Approve, Typed
<1>6. v.shows = {}
  BY <1>1, <1>3 DEF BoxesFilled
<1>7. w.entry.buyer \in Buyers /\ w.entry.handset \in Handsets
  BY <1>1 DEF BoxesFilled
<1>8. BoxesFilled'
  BY <1>3, <1>4, <1>6, <1>7 DEF BoxesFilled
<1>9. Followed'
  BY <1>3, <1>4, <1>7 DEF Approve, Followed, IsSold, HasCode
<1>10. Together'
  BY <1>3, <1>4 DEF Together
<1>11. QrOfThePhoneNamed'
  BY <1>4, <1>6 DEF Approve, QrOfThePhoneNamed
<1> QED
  BY <1>5, <1>8, <1>9, <1>10, <1>11, BooksUntouched DEF Approve

\* What the answer makes of a wizard.
LEMMA AnsweredFields ==
  ASSUME NEW w \in Wizards, NEW x \in Typeable
  PROVE  LET v == [w EXCEPT !.step = 5, !.shows = {x}]
         IN /\ v \in Wizards /\ v.entry = w.entry
            /\ v.moved = w.moved /\ v.step = 5 /\ v.shows = {x}
<1> DEFINE v == [w EXCEPT !.step = 5, !.shows = {x}]
<1>1. v.entry = w.entry /\ v.moved = w.moved /\ v.step = 5 /\ v.shows = {x}
  BY DEF Wizards
<1>2. v \in Wizards
  <2>1. PICK a \in 1..5, e \in Entries, h \in SUBSET Typeable, m \in BOOLEAN :
          w = [step |-> a, entry |-> e, shows |-> h, moved |-> m]
    <3>1. w = [step |-> w.step, entry |-> w.entry, shows |-> w.shows, moved |-> w.moved]
      BY DEF Wizards
    <3> QED
      BY <3>1 DEF Wizards
  <2>2. [w EXCEPT !.step = 5] = [step |-> 5, entry |-> e, shows |-> h, moved |-> m]
    BY <2>1
  <2>3. v = [[w EXCEPT !.step = 5] EXCEPT !.shows = {x}]
    OBVIOUS
  <2> HIDE DEF v
  <2>4. v = [step |-> 5, entry |-> e, shows |-> {x}, moved |-> m]
    <3>1. v = [[step |-> 5, entry |-> e, shows |-> h, moved |-> m] EXCEPT !.shows = {x}]
      BY <2>2, <2>3, Zenon
    <3> QED
      BY <3>1
  <2> QED
    BY <2>4 DEF Wizards
<1> QED
  BY <1>1, <1>2

LEMMA AnswerShownStep ==
  ASSUME Inv, NEW s \in Sellers, AnswerShown(s) PROVE Inv'
<1> USE DEF Inv, SoldOnce
<1>1. PICK r \in post[s] :
        /\ r.at = "done"
        /\ post' = [post EXCEPT ![s] = {}]
        /\ wizard' = [wizard EXCEPT ![s] =
             {IF r.own THEN [w EXCEPT !.step = 5, !.shows = {Shown(r.entry)}] ELSE w : w \in @}]
  BY DEF AnswerShown
<1> DEFINE Told(w) == [w EXCEPT !.step = 5, !.shows = {Shown(r.entry)}]
<1>2. r \in Requests /\ Shown(r.entry) \in Typeable
  BY DEF Typed, Requests, Entries, Shown, Typeable
<1>3. wizard[s] \subseteq Wizards
  BY DEF Typed
<1>4. ASSUME NEW w \in wizard[s]
      PROVE  /\ Told(w) \in Wizards /\ Told(w).entry = w.entry
             /\ Told(w).moved = w.moved /\ Told(w).step = 5
             /\ Told(w).shows = {Shown(r.entry)}
  <2>1. w \in Wizards
    BY <1>3
  <2> QED
    BY <1>2, <2>1, AnsweredFields
<1>5. wizard'[s] = IF r.own THEN {Told(w) : w \in wizard[s]} ELSE wizard[s]
  BY <1>1 DEF Typed
<1> HIDE DEF Told
<1>6. \A t \in Sellers \ {s} : wizard'[t] = wizard[t] /\ post'[t] = post[t]
  BY <1>1 DEF Typed
<1>7. post'[s] = {}
  BY <1>1 DEF Typed
<1>8. Typed'
  <2>1. wizard'[s] \subseteq Wizards
    BY <1>3, <1>4, <1>5
  <2> QED
    BY <1>1, <2>1 DEF AnswerShown, Typed
<1>9. BoxesFilled'
  BY <1>4, <1>5, <1>6 DEF BoxesFilled
<1>10. Followed'
  BY <1>6, <1>7 DEF AnswerShown, Followed, IsSold, HasCode
<1>11. Together'
  BY <1>6, <1>7 DEF Together
<1>12. QrOfThePhoneNamed'
  <2>1. IsSold(Shown(r.entry)) /\ HasCode(Shown(r.entry))
    BY <1>1 DEF Followed
  <2>2. \E q \in sold : Shown(q) = Shown(r.entry)
                        /\ (Shown(r.entry).noLock \/ Shown(r.entry).handset \in codes)
    BY <2>1 DEF IsSold, HasCode
  <2>3. r.own => \A w \in wizard[s] : ~w.moved => Shown(r.entry) = Shown(w.entry)
    BY DEF Together
  <2>4. \A w \in wizard'[s] : \A x \in w.shows :
          /\ ~w.moved => x = Shown(w.entry)
          /\ \E q \in sold : Shown(q) = x /\ (x.noLock \/ x.handset \in codes)
    <3>1. CASE r.own
      BY <1>4, <1>5, <2>2, <2>3, <3>1
    <3>2. CASE ~r.own
      BY <1>5, <3>2 DEF QrOfThePhoneNamed
    <3> QED
      BY <3>1, <3>2
  <2> QED
    BY <1>6, <2>4 DEF AnswerShown, QrOfThePhoneNamed
<1> QED
  BY <1>8, <1>9, <1>10, <1>11, <1>12, BooksUntouched DEF AnswerShown

LEMMA SaleFailsStep ==
  ASSUME Inv, NEW s \in Sellers, SaleFails(s) PROVE Inv'
<1> USE DEF Inv, SoldOnce, SaleFails
<1>1. \A t \in Sellers : post'[t] = post[t] \/ post'[t] = {}
  BY DEF Typed
<1>2. Typed'
  BY DEF Typed
<1>3. Followed'
  BY <1>1 DEF Followed, IsSold, HasCode
<1>4. (BoxesFilled /\ Together /\ QrOfThePhoneNamed)'
  BY <1>1 DEF BoxesFilled, Together, QrOfThePhoneNamed
<1> QED
  BY <1>2, <1>3, <1>4, BooksUntouched

-----------------------------------------------------------------------------
(* The server *)

\* A step of one request, which is about the same sale before and after it.
LEMMA AdvancesKeeps ==
  ASSUME Inv, Grows, NEW s \in Sellers, NEW r \in post[s], NEW at \in {"checked", "kept", "done"},
         Advances(s, r, at), UNCHANGED wizard,
         at \in {"kept", "done"} => IsSold(Shown(r.entry))',
         at = "kept" => ~r.entry.noLock,
         at = "done" => HasCode(Shown(r.entry))'
  PROVE  /\ post' \in [Sellers -> SUBSET Requests]
         /\ (BoxesFilled /\ Followed /\ Together /\ QrOfThePhoneNamed)'
<1> DEFINE p == [r EXCEPT !.at = at]
<1> USE DEF Inv, SoldOnce
<1>1. r \in Requests
  BY DEF Typed
<1>2. p \in Requests /\ p.entry = r.entry /\ p.own = r.own /\ p.at = at
  BY <1>1 DEF Requests
<1>3. post' = [post EXCEPT ![s] = {p}]
  BY DEF Advances
<1> HIDE DEF p
<1>4. \A t \in Sellers : \A x \in post'[t] : x \in post[t] \/ (t = s /\ x = p)
  BY <1>3 DEF Typed
<1>5. post' \in [Sellers -> SUBSET Requests]
  BY <1>2, <1>3 DEF Typed
<1>6. Followed'
  BY <1>2, <1>4, GrowsKeeps DEF Followed
<1>7. Together'
  BY <1>2, <1>4 DEF Together
<1>8. (BoxesFilled /\ QrOfThePhoneNamed)'
  <2>1. \A x : (\E q \in sold : Shown(q) = x /\ (x.noLock \/ x.handset \in codes)) =>
               (\E q \in sold' : Shown(q) = x /\ (x.noLock \/ x.handset \in codes'))
    BY DEF Grows
  <2> QED
    BY <2>1 DEF BoxesFilled, QrOfThePhoneNamed
<1> QED
  BY <1>5, <1>6, <1>7, <1>8

LEMMA SaleCheckedStep ==
  ASSUME Inv, NEW s \in Sellers, SaleChecked(s) PROVE Inv'
<1>1. PICK r \in post[s] : Advances(s, r, "checked")
  BY DEF SaleChecked
<1>2. Grows
  BY DEF SaleChecked, Grows
<1>3. post' \in [Sellers -> SUBSET Requests] /\ (BoxesFilled /\ Followed /\ Together /\ QrOfThePhoneNamed)'
  BY <1>1, <1>2, AdvancesKeeps DEF SaleChecked
<1>4. Typed'
  BY <1>3 DEF SaleChecked, Inv, Typed
<1> QED
  BY <1>3, <1>4, BooksUntouched DEF SaleChecked, Inv, SoldOnce

LEMMA SaleWrittenStep ==
  ASSUME Inv, NEW s \in Sellers, SaleWritten(s) PROVE Inv'
<1> USE DEF Inv, SoldOnce
<1>1. PICK r \in post[s] :
        /\ r.at = "checked" /\ IndexAllows(r.entry)
        /\ book' = [book EXCEPT ![r.entry.buyer] = "active"]
        /\ sold' = sold \cup {[nth |-> Cardinality(sold) + 1, buyer |-> r.entry.buyer,
             handset |-> r.entry.handset, noLock |-> r.entry.noLock, open |-> TRUE]}
        /\ Advances(s, r, IF r.entry.noLock THEN "done" ELSE "kept")
  BY DEF SaleWritten, AfterSale
<1> DEFINE new == [nth |-> Cardinality(sold) + 1, buyer |-> r.entry.buyer,
                   handset |-> r.entry.handset, noLock |-> r.entry.noLock, open |-> TRUE]
<1>2. r.entry.buyer \in Buyers /\ r.entry.handset \in Handsets /\ r.entry.noLock \in BOOLEAN
  <2>1. r \in Requests
    BY DEF Typed
  <2> QED
    BY <2>1 DEF Followed, Requests, Entries
<1>3. new \in Rows /\ Shown(new) = Shown(r.entry)
  <2>1. Cardinality(sold) \in Nat
    BY FS_CardinalityType DEF Typed
  <2> QED
    BY <1>2, <2>1 DEF Rows, Shown
<1>4. IsFiniteSet(sold')
  BY <1>1, FS_AddElement DEF Typed
<1>5. new.buyer = r.entry.buyer /\ new.handset = r.entry.handset /\ new.noLock = r.entry.noLock
  OBVIOUS
<1>6. sold' = sold \cup {new}
  BY <1>1
<1> HIDE DEF new
<1>7. Grows
  BY <1>6 DEF SaleWritten, Grows
<1>8. post' \in [Sellers -> SUBSET Requests] /\ (BoxesFilled /\ Followed /\ Together /\ QrOfThePhoneNamed)'
  <2>1. IsSold(Shown(r.entry))'
    BY <1>3, <1>6 DEF IsSold
  <2>2. CASE r.entry.noLock
    <3>1. HasCode(Shown(r.entry))'
      BY <2>2 DEF HasCode, Shown
    <3> QED
      BY <1>1, <1>7, <2>1, <2>2, <3>1, AdvancesKeeps DEF SaleWritten
  <2>3. CASE ~r.entry.noLock
    BY <1>1, <1>7, <2>1, <2>3, AdvancesKeeps DEF SaleWritten
  <2> QED
    BY <2>2, <2>3
<1>9. book' \in [Buyers -> {"none", "active", "inactive"}]
  BY <1>1 DEF Typed
<1>10. Typed'
  BY <1>3, <1>4, <1>6, <1>8, <1>9 DEF SaleWritten, Typed
<1>11. \A q \in sold : q.handset # new.handset /\ q.buyer # new.buyer /\ q.buyer \in Buyers
  BY <1>1, <1>5 DEF IndexAllows, Registered, Booked, Typed, Rows
<1>12. Booked'
  BY <1>1, <1>2, <1>5, <1>6, <1>11 DEF Booked, Typed
<1>13. NothingSoldTwice'
  BY <1>6, <1>11 DEF NothingSoldTwice
<1>14. WholeSales'
  <2>1. \A h \in codes : \E q \in sold' : q.handset = h /\ ~q.noLock
    BY <1>6 DEF WholeSales
  <2>2. \A b \in Buyers : book'[b] # "none" => \E q \in sold' : q.buyer = b
    BY <1>1, <1>5, <1>6 DEF WholeSales, Typed
  <2> QED
    BY <2>1, <2>2 DEF SaleWritten, WholeSales
<1> QED
  BY <1>8, <1>10, <1>12, <1>13, <1>14

LEMMA CodeIssuedStep ==
  ASSUME Inv, NEW s \in Sellers, CodeIssued(s) PROVE Inv'
<1> USE DEF Inv, SoldOnce
<1>1. PICK r \in post[s] :
        r.at = "kept" /\ codes' = codes \cup {r.entry.handset} /\ Advances(s, r, "done")
  BY DEF CodeIssued
<1>2. Grows
  BY <1>1 DEF CodeIssued, Grows
<1>3. IsSold(Shown(r.entry)) /\ ~r.entry.noLock
  BY <1>1 DEF Followed
<1>4. post' \in [Sellers -> SUBSET Requests] /\ (BoxesFilled /\ Followed /\ Together /\ QrOfThePhoneNamed)'
  <2>1. IsSold(Shown(r.entry))' /\ HasCode(Shown(r.entry))'
    BY <1>1, <1>3 DEF CodeIssued, IsSold, HasCode, Shown
  <2> QED
    BY <1>1, <1>2, <2>1, AdvancesKeeps DEF CodeIssued
<1>5. (Typed /\ Booked /\ NothingSoldTwice)'
  BY <1>4 DEF CodeIssued, Typed, Booked, NothingSoldTwice
<1>6. WholeSales'
  <2>1. \E q \in sold : q.handset = r.entry.handset /\ ~q.noLock
    BY <1>3 DEF IsSold, Shown
  <2> QED
    BY <1>1, <2>1 DEF CodeIssued, WholeSales
<1> QED
  BY <1>4, <1>5, <1>6

LEMMA PaidUpStep ==
  ASSUME Inv, PaidUp PROVE Inv'
<1> USE DEF Inv, SoldOnce
<1>1. PICK q \in sold : sold' = (sold \ {q}) \cup {[q EXCEPT !.open = FALSE]}
  BY DEF PaidUp
<1> DEFINE p == [q EXCEPT !.open = FALSE]
<1>2. p \in Rows /\ p.handset = q.handset /\ p.buyer = q.buyer /\ p.noLock = q.noLock
  BY DEF Typed, Rows
<1>3. sold' = (sold \ {q}) \cup {p}
  BY <1>1
<1> HIDE DEF p
<1>4. Shown(p) = Shown(q)
  BY <1>2 DEF Shown
<1>5. Grows
  BY <1>3, <1>4 DEF PaidUp, Grows
<1>6. (BoxesFilled /\ Followed /\ Together /\ QrOfThePhoneNamed)'
  BY <1>5, Untouched DEF PaidUp
<1>7. IsFiniteSet(sold')
  BY <1>3, FS_AddElement, FS_RemoveElement DEF Typed
<1>8. Typed'
  BY <1>2, <1>3, <1>7 DEF PaidUp, Typed
<1>9. (Booked /\ NothingSoldTwice /\ WholeSales)'
  BY <1>2, <1>3 DEF PaidUp, Booked, NothingSoldTwice, WholeSales
<1> QED
  BY <1>6, <1>8, <1>9

LEMMA DeactivateCustomerStep ==
  ASSUME Inv, DeactivateCustomer PROVE Inv'
<1> USE DEF Inv, SoldOnce
<1>1. PICK b \in Buyers : book[b] = "active" /\ book' = [book EXCEPT ![b] = "inactive"]
  BY DEF DeactivateCustomer
<1>2. Grows
  BY DEF DeactivateCustomer, Grows
<1>3. (BoxesFilled /\ Followed /\ Together /\ QrOfThePhoneNamed)'
  BY <1>2, Untouched DEF DeactivateCustomer
<1>4. Typed'
  BY <1>1 DEF DeactivateCustomer, Typed
<1>5. \A c \in Buyers : book'[c] # "none" <=> book[c] # "none"
  BY <1>1 DEF Typed
<1>6. \A q \in sold : q.buyer \in Buyers
  BY DEF Typed, Rows
<1>7. (Booked /\ NothingSoldTwice /\ WholeSales)'
  BY <1>5, <1>6 DEF DeactivateCustomer, Booked, NothingSoldTwice, WholeSales
<1> QED
  BY <1>3, <1>4, <1>7

-----------------------------------------------------------------------------
\* Each action keeps the invariant.
LEMMA InvStep == Inv /\ [WizardNext]_wizardVars => Inv'
<1> SUFFICES ASSUME Inv, [WizardNext]_wizardVars PROVE Inv'
  OBVIOUS
<1>0. \A s \in Sellers : \A w \in wizard[s] : w \in Wizards /\ w.entry \in Entries /\ w.step \in 1..5
  BY DEF Inv, Typed, Wizards
<1>1. ASSUME NEW s \in Sellers, EnterCustomer(s) PROVE Inv'
  <2>1. PICK w \in wizard[s], b \in Buyers : Enters(s, 1, w, [w.entry EXCEPT !.buyer = b])
    BY <1>1 DEF EnterCustomer
  <2> DEFINE e == [w.entry EXCEPT !.buyer = b]
  <2>2. e \in Entries
    BY <1>0 DEF Entries
  <2>3. Enters(s, 1, w, e)
    BY <2>1
  <2> HIDE DEF e
  <2> QED
    BY <2>2, <2>3, EntersStep
<1>2. ASSUME NEW s \in Sellers, EnterPhone(s) PROVE Inv'
  <2>1. PICK w \in wizard[s], h \in Handsets : Enters(s, 2, w, [w.entry EXCEPT !.handset = h])
    BY <1>2 DEF EnterPhone
  <2> DEFINE e == [w.entry EXCEPT !.handset = h]
  <2>2. e \in Entries /\ e.buyer = w.entry.buyer
    BY <1>0 DEF Entries
  <2>3. Enters(s, 2, w, e)
    BY <2>1
  <2> HIDE DEF e
  <2> QED
    BY <2>2, <2>3, EntersStep
<1>3. ASSUME NEW s \in Sellers, AnswerCheck(s) PROVE Inv'
  <2>1. PICK w \in wizard[s] : \E n \in BOOLEAN : Enters(s, 2, w, [w.entry EXCEPT !.noLock = n])
    BY <1>3 DEF AnswerCheck
  <2>2. PICK n \in BOOLEAN : Enters(s, 2, w, [w.entry EXCEPT !.noLock = n])
    BY <2>1
  <2> DEFINE e == [w.entry EXCEPT !.noLock = n]
  <2>3. e \in Entries /\ e.buyer = w.entry.buyer
    BY <1>0 DEF Entries
  <2>4. Enters(s, 2, w, e)
    BY <2>2
  <2> HIDE DEF e
  <2> QED
    BY <2>3, <2>4, EntersStep
<1>4. ASSUME NEW s \in Sellers, EnterTerms(s) PROVE Inv'
  <2>1. PICK w \in wizard[s], f \in BOOLEAN : Enters(s, 3, w, [w.entry EXCEPT !.fair = f])
    BY <1>4 DEF EnterTerms
  <2> DEFINE e == [w.entry EXCEPT !.fair = f]
  <2>2. /\ e \in Entries
        /\ e.buyer = w.entry.buyer
        /\ e.handset = w.entry.handset
    BY <1>0 DEF Entries
  <2>3. Enters(s, 3, w, e)
    BY <2>1
  <2> HIDE DEF e
  <2> QED
    BY <2>2, <2>3, EntersStep
<1>5. ASSUME NEW s \in Sellers, NextStep(s) PROVE Inv'
  <2>1. PICK w \in wizard[s] : w.step < 4 /\ Complete(w) /\ GoesTo(s, w, w.step + 1)
    BY <1>5 DEF NextStep
  <2>2. /\ w.step \in 1..3 /\ w.entry \in Entries
        /\ w.step \in 2..4 => w.entry.buyer \in Buyers
        /\ w.step \in 3..4 => w.entry.handset \in Handsets
    BY <1>0, <2>1 DEF Inv, BoxesFilled
  <2>3. w.entry.buyer \in Buyers /\ (w.step > 1 => w.entry.handset \in Handsets)
    BY <2>1, <2>2 DEF Complete, Entries
  <2>4. w.step + 1 \in 1..4 /\ w.step # 5 /\ (w.step + 1 > 2 => w.step > 1)
    BY <2>2
  <2> QED
    BY <2>1, <2>3, <2>4, GoesToStep
<1>6. ASSUME NEW s \in Sellers, BackStep(s) PROVE Inv'
  <2>1. PICK w \in wizard[s] : w.step \in 2..4 /\ GoesTo(s, w, w.step - 1)
    BY <1>6 DEF BackStep
  <2>2. w.entry.buyer \in Buyers /\ (w.step > 2 => w.entry.handset \in Handsets)
    BY <2>1 DEF Inv, BoxesFilled
  <2>3. w.step - 1 \in 1..4 /\ w.step # 5 /\ (w.step - 1 > 2 => w.step > 2)
    BY <2>1
  <2> QED
    BY <2>1, <2>2, <2>3, GoesToStep
<1>7. CASE UNCHANGED wizardVars
  <2>1. Grows
    BY <1>7 DEF Grows, wizardVars
  <2>2. Typed'
    BY <1>7 DEF Inv, Typed, wizardVars
  <2> QED
    BY <1>7, <2>1, <2>2, Untouched, BooksUntouched DEF wizardVars, Inv, SoldOnce
<1> QED
  BY <1>1, <1>2, <1>3, <1>4, <1>5, <1>6, <1>7, OpenWizardStep, CloseWizardStep, ApproveStep,
     AnswerShownStep, SaleFailsStep, SaleCheckedStep, SaleWrittenStep, CodeIssuedStep,
     PaidUpStep, DeactivateCustomerStep DEF WizardNext

\* However many sell at once, close their wizards, go back and approve again: a
\* phone is sold once, whole, and the code shown is the code of the phone named.
THEOREM SalesStaySound == WizardSpec => []SoldOnce
<1>1. WizardInit => Inv
  <2>1. IsFiniteSet({})
    BY FS_EmptySet
  <2> QED
    BY <2>1 DEF WizardInit, Inv, Typed, BoxesFilled, Followed, Together, Booked, SoldOnce,
      NothingSoldTwice, WholeSales, QrOfThePhoneNamed
<1>2. Inv => SoldOnce
  BY DEF Inv
<1> QED
  BY <1>1, <1>2, InvStep, PTL DEF WizardSpec

-----------------------------------------------------------------------------
(* Records *)

Settings == kind = "settings"

\* A form differs from what it was filled from only where it was touched; a
\* settings page, from its shop, as long as it keeps abreast of it.
FormOK(f) ==
  /\ ~Settings => \A c \in Fields : f.typed[c] # f.copy[c] => c \in f.touched
  /\ Settings /\ f.abreast =>
       f.of \in Subjects /\ \A c \in Fields : c \in f.touched \/ f.typed[c] = records[f.of][c]

\* A request asks for what was touched, and what was checked is still so if
\* nobody overtook it.
PostOK(r) ==
  /\ ~Settings => r.due \subseteq r.touched
  /\ Settings => \E c \in Fields : r.due = {c}
  /\ Settings /\ r.abreast => \A c \in Fields : c \in r.touched \/ r.row[c] = records[r.of][c]
  /\ ~Settings /\ r.checked /\ ~r.raced /\ "identity" \in NextPart(r) => ~Taken(r)

\* What a settings page has on its way is what it shows.
SentAsShown(f, r) ==
  Settings /\ f.abreast => r.of = f.of /\ \A c \in Fields : r.row[c] = f.typed[c]

RecordsShape ==
  /\ kind \in Kinds
  /\ records \in [Subjects -> Columns]
  /\ form \in [Editors -> Forms]
  /\ sent \in [Editors -> SUBSET Posts]
  /\ \A e \in Editors : \A q, r \in sent[e] : q = r
  /\ loads \in [Editors -> SUBSET Subjects]
  /\ ~Settings => \A e \in Editors : loads[e] = {}
  /\ saves \in 0..MaxSaves

RecordsInv ==
  /\ RecordsShape
  /\ \A e \in Editors :
       /\ FormOK(form[e])
       /\ \A r \in sent[e] : PostOK(r) /\ SentAsShown(form[e], r)

-----------------------------------------------------------------------------
(* Records *)

LEMMA ColumnFields ==
  /\ Fields = {"plain", "identity"}
  /\ \A row \in Columns :
       /\ DOMAIN row = Fields /\ row["plain"] \in Plain /\ row["identity"] \in Identities
       /\ row.plain = row["plain"] /\ row.identity = row["identity"]
       /\ \A f \in Columns : Filled(f, row) = row
       /\ \A v \in Plain : [row EXCEPT !["plain"] = v] \in Columns
       /\ \A v \in Identities : [row EXCEPT !["identity"] = v] \in Columns
BY DEF Columns, Fields, Filled

LEMMA FormFields ==
  ASSUME NEW f \in Forms
  PROVE  /\ f.of \in Subjects \cup {NoSubject} /\ f.copy \in Columns /\ f.typed \in Columns
         /\ f.touched \subseteq Fields /\ f.abreast \in BOOLEAN
BY DEF Forms

LEMMA PostFields ==
  ASSUME NEW r \in Posts
  PROVE  /\ r.of \in Subjects /\ r.row \in Columns /\ r.due \subseteq Fields
         /\ r.touched \subseteq Fields /\ r.checked \in BOOLEAN /\ r.abreast \in BOOLEAN
         /\ r.raced \in BOOLEAN
BY DEF Posts

LEMMA BlankForm == Blank \in Forms /\ Blank.of = NoSubject /\ ~Blank.abreast /\ Blank.typed = Blank.copy
<1>1. Defaults \in Columns  BY RecordsAssumption DEF Defaults, Columns
<1> QED  BY <1>1 DEF Blank, Forms

-----------------------------------------------------------------------------
(* Steps that write no record *)

\* One editor's form and request change, the records do not.
LEMMA EditorStep ==
  ASSUME RecordsInv, NEW e \in Editors, NEW F \in Forms, NEW S \in SUBSET Posts,
         UNCHANGED <<kind, records>>,
         form' = [form EXCEPT ![e] = F], sent' = [sent EXCEPT ![e] = S],
         loads' \in [Editors -> SUBSET Subjects],
         Settings \/ loads' = loads, saves' \in 0..MaxSaves,
         \A q, r \in S : q = r,
         FormOK(F), \A r \in S : PostOK(r) /\ SentAsShown(F, r)
  PROVE  RecordsInv'
<1>1. \A x \in Editors : /\ form'[x] = IF x = e THEN F ELSE form[x]
                        /\ sent'[x] = IF x = e THEN S ELSE sent[x]
  BY DEF RecordsInv, RecordsShape
<1>2. RecordsShape'
  BY <1>1, ZenonT(60) DEF RecordsInv, RecordsShape, Settings
<1>3. ASSUME NEW x \in Editors PROVE FormOK(form[x])'
  <2>1. FormOK(form'[x])  BY <1>1 DEF RecordsInv
  <2> QED  BY <2>1 DEF FormOK, Settings
<1>4. ASSUME NEW x \in Editors, NEW r \in sent'[x] PROVE PostOK(r)' /\ SentAsShown(form[x], r)'
  <2>1. PostOK(r) /\ SentAsShown(form'[x], r)  BY <1>1 DEF RecordsInv
  <2>2. NextPart(r)' = NextPart(r) /\ (Taken(r)' <=> Taken(r))  BY DEF NextPart, Taken
  <2> QED  BY <2>1, <2>2 DEF PostOK, SentAsShown, Settings
<1> QED  BY <1>2, <1>3, <1>4 DEF RecordsInv

\* What there is of one editor.
LEMMA OneEditor ==
  ASSUME RecordsInv, NEW e \in Editors
  PROVE  /\ form[e] \in Forms /\ sent[e] \in SUBSET Posts /\ FormOK(form[e])
         /\ \A q, r \in sent[e] : q = r
         /\ \A r \in sent[e] : PostOK(r) /\ SentAsShown(form[e], r)
         /\ form = [form EXCEPT ![e] = form[e]] /\ sent = [sent EXCEPT ![e] = sent[e]]
         /\ loads \in [Editors -> SUBSET Subjects] /\ loads[e] \subseteq Subjects /\ saves \in 0..MaxSaves
         /\ ~Settings => loads[e] = {}
         /\ \A s \in Subjects : records[s] \in Columns
BY DEF RecordsInv, RecordsShape

LEMMA FillingStep ==
  ASSUME RecordsInv, NEW e \in Editors,
         \/ \E s \in Subjects : OpenForm(e, s) \/ SelectShop(e, s)
         \/ LoadLands(e) \/ LoadFails(e) \/ CloseForm(e)
  PROVE  RecordsInv'
<1> USE OneEditor
<1>1. ASSUME NEW s \in Subjects, OpenForm(e, s) PROVE RecordsInv'
  <2> DEFINE F == [of |-> s, copy |-> records[s], typed |-> records[s], touched |-> {}, abreast |-> FALSE]
  <2>1. F \in Forms  BY DEF Forms
  <2>2. FormOK(F) /\ \A r \in sent[e] : SentAsShown(F, r)  BY DEF FormOK, SentAsShown
  <2>3. form' = [form EXCEPT ![e] = F] /\ UNCHANGED <<kind, records, sent, loads, saves>>
    BY <1>1 DEF OpenForm
  <2> HIDE DEF F
  <2> QED  BY <2>1, <2>2, <2>3, EditorStep
<1>2. ASSUME NEW s \in Subjects, SelectShop(e, s) PROVE RecordsInv'
  <2> DEFINE F == [form[e] EXCEPT !.of = s, !.touched = {}, !.abreast = FALSE]
  <2>1. F \in Forms /\ ~F.abreast  BY ZenonT(60) DEF Forms
  <2>2. Settings  BY <1>2 DEF SelectShop, Settings
  <2>3. form' = [form EXCEPT ![e] = F]  BY <1>2 DEF SelectShop
  <2>4. UNCHANGED <<kind, records, sent, saves>> /\ loads' \in [Editors -> SUBSET Subjects]
    BY <1>2 DEF SelectShop
  <2> HIDE DEF F
  <2>5. FormOK(F) /\ \A r \in sent[e] : SentAsShown(F, r)  BY <2>1, <2>2 DEF FormOK, SentAsShown
  <2> QED  BY <2>1, <2>2, <2>3, <2>4, <2>5, EditorStep
<1>3. CASE LoadLands(e)
  <2>1. PICK s \in loads[e] :
          /\ form' = [form EXCEPT ![e] =
               FilledAgain(form[e], records[s], s = form[e].of /\ sent[e] = {})]
          /\ loads' = [loads EXCEPT ![e] = @ \ {s}]
    BY <1>3 DEF LoadLands
  <2>2. UNCHANGED <<kind, records, sent, saves>>  BY <1>3 DEF LoadLands
  <2> DEFINE near == s = form[e].of /\ sent[e] = {}
             F == FilledAgain(form[e], records[s], near)
  <2>3. Settings /\ s \in Subjects /\ records[s] \in Columns  BY <2>1
  <2>4. Filled(form[e].typed, records[s]) = records[s]  BY <2>3, ColumnFields, FormFields
  <2>5. near \in BOOLEAN  OBVIOUS
  <2>6. form' = [form EXCEPT ![e] = F]  BY <2>1
  <2>7. F \in Forms /\ F.typed = records[s] /\ F.of = form[e].of /\ F.abreast = near
    <3> HIDE DEF near
    <3> QED  BY <2>3, <2>4, <2>5, ZenonT(60) DEF Forms, FilledAgain
  <2>8. loads' \in [Editors -> SUBSET Subjects]  BY <2>1
  <2> HIDE DEF F
  <2>9. F.abreast => F.of = s /\ sent[e] = {}  BY <2>7
  <2>10. FormOK(F)  BY <2>3, <2>7, <2>9 DEF FormOK
  <2>11. \A r \in sent[e] : SentAsShown(F, r)  BY <2>9 DEF SentAsShown
  <2> QED  BY <2>2, <2>3, <2>6, <2>7, <2>8, <2>10, <2>11, EditorStep
<1>4. CASE LoadFails(e)
  <2>1. PICK s \in loads[e] : loads' = [loads EXCEPT ![e] = @ \ {s}]  BY <1>4 DEF LoadFails
  <2>2. UNCHANGED <<kind, records, form, sent, saves>>  BY <1>4 DEF LoadFails
  <2>3. Settings /\ loads' \in [Editors -> SUBSET Subjects]  BY <2>1
  <2> QED  BY <2>2, <2>3, EditorStep
<1>5. CASE CloseForm(e)
  <2>1. /\ form' = [form EXCEPT ![e] = Blank] /\ sent[e] = {}
        /\ UNCHANGED <<kind, records, sent, loads, saves>>
    BY <1>5 DEF CloseForm
  <2>2. FormOK(Blank)  BY BlankForm DEF FormOK
  <2> QED  BY <2>1, <2>2, BlankForm, EditorStep
<1> QED  BY <1>1, <1>2, <1>3, <1>4, <1>5

LEMMA TypesStep ==
  ASSUME RecordsInv, NEW e \in Editors, NEW c \in Fields, NEW v \in Plain \cup Identities,
         c = "plain" => v \in Plain, c = "identity" => v \in Identities, Types(e, c, v)
  PROVE  RecordsInv'
<1> USE OneEditor
<1>1. /\ form[e].of # NoSubject /\ sent[e] = {} /\ UNCHANGED <<kind, records, sent, loads, saves>>
      /\ form' = [form EXCEPT ![e].typed[c] = v, ![e].touched = @ \cup {c}]
  BY DEF Types
<1> DEFINE row == [form[e].typed EXCEPT ![c] = v]
           F == [form[e] EXCEPT !.typed = row, !.touched = @ \cup {c}]
<1>2. row \in Columns  BY ColumnFields, FormFields
<1>3. \A d \in Fields : d # c => row[d] = form[e].typed[d]  BY ColumnFields, FormFields
<1>4. form' = [form EXCEPT ![e] = F]  BY <1>1, Zenon
<1> HIDE DEF row
<1>5. /\ F \in Forms /\ F.typed = row /\ F.touched = form[e].touched \cup {c}
      /\ F.of = form[e].of /\ F.copy = form[e].copy /\ F.abreast = form[e].abreast
  BY <1>2, ZenonT(60) DEF Forms
<1> HIDE DEF F
<1>6. FormOK(F)  BY <1>3, <1>5 DEF FormOK
<1> QED  BY <1>1, <1>4, <1>5, <1>6, EditorStep

LEMMA EditingStep ==
  ASSUME RecordsInv, NEW e \in Editors,
         EditCustomer(e) \/ EditDevice(e) \/ TypeImei(e) \/ EditProfile(e) \/ EditPolicyCard(e)
  PROVE  RecordsInv'
<1>1. \/ \E v \in Plain : Types(e, "plain", v)
      \/ \E v \in Identities : Types(e, "identity", v)
  BY DEF EditCustomer, EditDevice, TypeImei, EditProfile, EditPolicyCard
<1> QED  BY <1>1, TypesStep, ColumnFields

LEMMA SaveStep ==
  ASSUME RecordsInv, NEW e \in Editors, Save(e)
  PROVE  RecordsInv'
<1> USE OneEditor
<1>1. PICK due \in Sendable(form[e]) :
        sent' = [sent EXCEPT ![e] =
          {[of |-> form[e].of, row |-> form[e].typed, due |-> due, touched |-> form[e].touched,
            checked |-> FALSE, abreast |-> form[e].abreast, raced |-> FALSE]}]
  BY DEF Save
<1>2. /\ form[e].of \in Subjects /\ sent[e] = {} /\ saves' \in 0..MaxSaves
      /\ UNCHANGED <<kind, records, form, loads>>
  BY FormFields, RecordsAssumption DEF Save
<1> DEFINE r == [of |-> form[e].of, row |-> form[e].typed, due |-> due, touched |-> form[e].touched,
                 checked |-> FALSE, abreast |-> form[e].abreast, raced |-> FALSE]
<1>3. /\ due \subseteq Fields
      /\ ~Settings => due \subseteq form[e].touched
      /\ Settings => \E c \in Fields : due = {c}
  BY ColumnFields, FormFields DEF Sendable, Changed, Settings, FormOK
<1>4. r \in Posts  BY <1>2, <1>3, FormFields DEF Posts
<1>5. /\ r.of = form[e].of /\ r.row = form[e].typed /\ r.due = due /\ r.touched = form[e].touched
      /\ ~r.checked /\ r.abreast = form[e].abreast
  OBVIOUS
<1>6. sent' = [sent EXCEPT ![e] = {r}]  BY <1>1
<1> HIDE DEF r
<1>7. PostOK(r)  BY <1>3, <1>5 DEF PostOK, FormOK
<1>8. SentAsShown(form[e], r)  BY <1>5 DEF SentAsShown
<1> DEFINE S == {r}
<1>9. /\ S \in SUBSET Posts /\ \A p, q \in S : p = q
      /\ \A q \in S : PostOK(q) /\ SentAsShown(form[e], q)
      /\ sent' = [sent EXCEPT ![e] = S]
  BY <1>4, <1>6, <1>7, <1>8
<1> HIDE DEF S
<1>10. form' = [form EXCEPT ![e] = form[e]] /\ loads' \in [Editors -> SUBSET Subjects]  BY <1>2
<1> QED  BY <1>2, <1>9, <1>10, EditorStep

LEMMA SaveFailsStep ==
  ASSUME RecordsInv, NEW e \in Editors, SaveFails(e)
  PROVE  RecordsInv'
BY OneEditor, EditorStep DEF SaveFails

\* The parts of a request: the IMEI of a phone goes by itself.
LEMMA IdentityPart ==
  ASSUME NEW r \in Posts
  PROVE  /\ NextPart(r) \subseteq r.due
         /\ Settings => NextPart(r) = r.due
         /\ kind = "device" /\ "identity" \in NextPart(r) => NextPart(r) = {"identity"}
<1>1. r.due \subseteq {"plain", "identity"}  BY PostFields, ColumnFields
<1> QED  BY <1>1 DEF NextPart, Settings

LEMMA SaveCheckedStep ==
  ASSUME RecordsInv, NEW e \in Editors, SaveChecked(e)
  PROVE  RecordsInv'
<1> USE OneEditor
<1>1. PICK r \in sent[e] :
        sent' = [sent EXCEPT ![e] =
          IF DuplicateCustomer(r) \/ ImeiTaken(r) THEN {} ELSE {[r EXCEPT !.checked = TRUE]}]
  BY DEF SaveChecked
<1>2. UNCHANGED <<kind, records, form, loads, saves>>  BY DEF SaveChecked
<1>3. CASE DuplicateCustomer(r) \/ ImeiTaken(r)
  <2>1. sent' = [sent EXCEPT ![e] = {}]  BY <1>1, <1>3
  <2> QED  BY <1>2, <2>1, EditorStep
<1>4. CASE ~DuplicateCustomer(r) /\ ~ImeiTaken(r)
  <2> DEFINE q == [r EXCEPT !.checked = TRUE]
  <2>0. r \in Posts  OBVIOUS
  <2>1. q \in Posts /\ q.of = r.of /\ q.row = r.row /\ q.due = r.due /\ q.touched = r.touched
        /\ q.abreast = r.abreast
    BY <2>0 DEF Posts
  <2>2. sent' = [sent EXCEPT ![e] = {q}]  BY <1>1, <1>4
  <2> HIDE DEF q
  <2>3. NextPart(q) = NextPart(r) /\ (Taken(q) <=> Taken(r))  BY <2>1 DEF NextPart, Taken
  <2>4. ~Settings /\ "identity" \in NextPart(r) => ~Taken(r)
    <3>1. kind \in {"customer", "device", "settings"}
      BY RecordsAssumption DEF RecordsInv, RecordsShape
    <3>2. r \in Posts  OBVIOUS
    <3> QED  BY <1>4, <3>1, <3>2, IdentityPart DEF DuplicateCustomer, ImeiTaken, Settings
  <2>5. PostOK(q)  BY <2>1, <2>3, <2>4 DEF PostOK
  <2>6. SentAsShown(form[e], q)  BY <2>1 DEF SentAsShown
  <2> DEFINE S == {q}
  <2>7. /\ S \in SUBSET Posts /\ \A p, x \in S : p = x
        /\ \A p \in S : PostOK(p) /\ SentAsShown(form[e], p)
        /\ sent' = [sent EXCEPT ![e] = S]
    BY <2>1, <2>2, <2>5, <2>6
  <2> HIDE DEF S
  <2>8. form' = [form EXCEPT ![e] = form[e]] /\ loads' \in [Editors -> SUBSET Subjects]
        /\ saves' \in 0..MaxSaves
    BY <1>2
  <2> QED  BY <1>2, <2>7, <2>8, EditorStep
<1> QED  BY <1>3, <1>4

-----------------------------------------------------------------------------
(* A save *)

\* What a save writes, and what it leaves.
LEMMA RowWritten ==
  ASSUME RecordsInv, NEW r \in Posts
  PROVE  /\ RowSaved(r) \in Columns
         /\ \A c \in Fields : RowSaved(r)[c] = IF c \in NextPart(r) THEN r.row[c] ELSE records[r.of][c]
<1>1. r.of \in Subjects /\ r.row \in Columns /\ records[r.of] \in Columns
  BY PostFields DEF RecordsInv, RecordsShape
<1>2. \A c \in Fields : RowSaved(r)[c] = IF c \in NextPart(r) THEN r.row[c] ELSE records[r.of][c]
  BY DEF RowSaved
<1>3. /\ DOMAIN RowSaved(r) = Fields
      /\ RowSaved(r)["plain"] \in Plain /\ RowSaved(r)["identity"] \in Identities
      /\ RowSaved(r) = [c \in Fields |-> RowSaved(r)[c]]
  BY <1>1, <1>2, ColumnFields DEF RowSaved
<1>4. RowSaved(r) \in Columns  BY <1>3 DEF Columns, Fields
<1> QED  BY <1>2, <1>4

\* The other requests and forms fall behind, and are otherwise as they were.
LEMMA FallenBehind ==
  /\ \A q \in Posts, x \in Posts :
       LET p == PostBehind(q, x) IN
       /\ p \in Posts /\ p.of = q.of /\ p.row = q.row /\ p.due = q.due /\ p.touched = q.touched
       /\ p.checked = q.checked
       /\ p.abreast => q.abreast /\ q.of # x.of
       /\ ~p.raced => ~q.raced
       /\ ~p.raced /\ q.checked => "identity" \notin NextPart(x)
  /\ \A f \in Forms, x \in Posts :
       LET g == FormBehind(f, x) IN
       /\ g \in Forms /\ g.of = f.of /\ g.copy = f.copy /\ g.typed = f.typed /\ g.touched = f.touched
       /\ g.abreast => f.abreast /\ f.of # x.of
<1>1. ASSUME NEW q \in Posts, NEW x \in Posts
      PROVE  LET p == PostBehind(q, x) IN
             /\ p \in Posts /\ p.of = q.of /\ p.row = q.row /\ p.due = q.due /\ p.touched = q.touched
             /\ p.checked = q.checked
             /\ p.abreast => q.abreast /\ q.of # x.of
             /\ ~p.raced => ~q.raced
             /\ ~p.raced /\ q.checked => "identity" \notin NextPart(x)
  <2>1. /\ RacedBy(q, x) \in Posts /\ RacedBy(q, x).of = q.of /\ RacedBy(q, x).row = q.row
        /\ RacedBy(q, x).due = q.due /\ RacedBy(q, x).touched = q.touched
        /\ RacedBy(q, x).checked = q.checked /\ RacedBy(q, x).abreast = q.abreast
        /\ ~RacedBy(q, x).raced => ~q.raced
        /\ ~RacedBy(q, x).raced /\ q.checked => "identity" \notin NextPart(x)
    BY DEF RacedBy, Posts
  <2>2. ASSUME NEW r \in Posts, NEW b \in BOOLEAN
        PROVE  LET p == [r EXCEPT !.abreast = b] IN
               /\ p \in Posts /\ p.of = r.of /\ p.row = r.row /\ p.due = r.due /\ p.touched = r.touched
               /\ p.checked = r.checked /\ p.raced = r.raced /\ p.abreast = b
    BY DEF Posts
  <2> DEFINE b == RacedBy(q, x).abreast /\ q.of # x.of
  <2>3. PostBehind(q, x) = [RacedBy(q, x) EXCEPT !.abreast = b]  BY DEF PostBehind
  <2>4. b \in BOOLEAN /\ (b => q.abreast /\ q.of # x.of)  BY <2>1
  <2> HIDE DEF b
  <2> QED  BY <2>1, <2>2, <2>3, <2>4
<1>2. ASSUME NEW f \in Forms, NEW x \in Posts
      PROVE  LET g == FormBehind(f, x) IN
             /\ g \in Forms /\ g.of = f.of /\ g.copy = f.copy /\ g.typed = f.typed /\ g.touched = f.touched
             /\ g.abreast => f.abreast /\ f.of # x.of
  <2> DEFINE b == f.abreast /\ f.of # x.of
  <2>1. FormBehind(f, x) = [f EXCEPT !.abreast = b]  BY DEF FormBehind
  <2>2. b \in BOOLEAN /\ (b => f.abreast /\ f.of # x.of)  OBVIOUS
  <2> HIDE DEF b
  <2>3. LET g == [f EXCEPT !.abreast = b] IN
        /\ g \in Forms /\ g.of = f.of /\ g.copy = f.copy /\ g.typed = f.typed /\ g.touched = f.touched
        /\ g.abreast = b
    BY <2>2 DEF Forms
  <2> QED  BY <2>1, <2>2, <2>3
<1> QED  BY <1>1, <1>2

\* What a written save does, part by part.
Wrote(e, r) ==
  /\ r \in sent[e] /\ r.checked /\ ~IndexRefuses(r)
  /\ UNCHANGED <<kind, loads, saves>>
  /\ records' = [records EXCEPT ![r.of] = RowSaved(r)]
  /\ form' \in [Editors -> Forms] /\ sent' \in [Editors -> SUBSET Posts]
  /\ form'[e] \in {form[e], Blank} /\ (Settings => form'[e] = form[e])
  /\ \/ sent'[e] = {}
     \/ ~Settings /\ \E q \in Posts : /\ sent'[e] = {q} /\ ~q.checked
                                       /\ q.due \subseteq r.due /\ q.touched = r.touched
  /\ \A x \in Editors \ {e} : /\ form'[x] = FormBehind(form[x], r)
                              /\ sent'[x] = {PostBehind(q, r) : q \in sent[x]}

LEMMA SaveWrites ==
  ASSUME RecordsInv, NEW e \in Editors, SaveWritten(e)
  PROVE  \E r \in sent[e] : Wrote(e, r)
<1> USE OneEditor
<1>1. PICK r \in sent[e] :
        /\ r.checked /\ ~IndexRefuses(r)
        /\ records' = [records EXCEPT ![r.of] = RowSaved(r)]
        /\ \E answered \in BOOLEAN :
             LET rest == r.due \ NextPart(r)
                 done == answered /\ rest = {} /\ kind # "settings"
             IN /\ sent' = [x \in Editors |->
                     IF x # e THEN {PostBehind(q, r) : q \in sent[x]}
                     ELSE IF answered /\ rest # {}
                     THEN {[r EXCEPT !.due = rest, !.checked = FALSE, !.raced = FALSE]} ELSE {}]
                /\ form' = [x \in Editors |->
                     IF x # e THEN FormBehind(form[x], r) ELSE IF done THEN Blank ELSE form[x]]
  BY DEF SaveWritten
<1>2. PICK answered \in BOOLEAN :
        LET rest == r.due \ NextPart(r)
            done == answered /\ rest = {} /\ kind # "settings"
        IN /\ sent' = [x \in Editors |->
                IF x # e THEN {PostBehind(q, r) : q \in sent[x]}
                ELSE IF answered /\ rest # {}
                THEN {[r EXCEPT !.due = rest, !.checked = FALSE, !.raced = FALSE]} ELSE {}]
           /\ form' = [x \in Editors |->
                IF x # e THEN FormBehind(form[x], r) ELSE IF done THEN Blank ELSE form[x]]
  BY <1>1
<1>3. UNCHANGED <<kind, loads, saves>>  BY DEF SaveWritten
<1>4. r \in Posts  OBVIOUS
<1> DEFINE rest == r.due \ NextPart(r)
           q0 == [r EXCEPT !.due = rest, !.checked = FALSE, !.raced = FALSE]
<1>5. q0 \in Posts /\ ~q0.checked /\ q0.due = rest /\ q0.touched = r.touched
  BY <1>4, PostFields DEF Posts
<1>6. Settings => rest = {}  BY <1>4, IdentityPart
<1>7. \A x \in Editors : form[x] \in Forms /\ sent[x] \in SUBSET Posts  OBVIOUS
<1>8. \A x \in Editors \ {e} : /\ form'[x] = FormBehind(form[x], r)
                               /\ sent'[x] = {PostBehind(q, r) : q \in sent[x]}
  BY <1>2
<1>9. form'[e] \in {form[e], Blank} /\ (Settings => form'[e] = form[e])
  BY <1>2 DEF Settings
<1>10. sent'[e] = {} \/ (rest # {} /\ sent'[e] = {q0})
  BY <1>2
<1> HIDE DEF q0
<1>11. \A x \in Editors : form'[x] \in Forms /\ sent'[x] \in SUBSET Posts
  <2>1. form'[e] \in Forms /\ sent'[e] \in SUBSET Posts  BY <1>5, <1>7, <1>9, <1>10, BlankForm
  <2>2. ASSUME NEW x \in Editors \ {e} PROVE form'[x] \in Forms /\ sent'[x] \in SUBSET Posts
    <3>1. FormBehind(form[x], r) \in Forms /\ \A q \in sent[x] : PostBehind(q, r) \in Posts
      BY <1>4, <1>7, FallenBehind
    <3> QED  BY <1>8, <3>1
  <2> QED  BY <2>1, <2>2
<1>12. form' \in [Editors -> Forms] /\ sent' \in [Editors -> SUBSET Posts]
  BY <1>2, <1>11
<1>13. \/ sent'[e] = {}
       \/ ~Settings /\ \E q \in Posts : /\ sent'[e] = {q} /\ ~q.checked
                                         /\ q.due \subseteq r.due /\ q.touched = r.touched
  BY <1>5, <1>6, <1>10
<1>14. Wrote(e, r)  BY <1>1, <1>3, <1>8, <1>9, <1>12, <1>13 DEF Wrote
<1> QED  BY <1>14

LEMMA WroteStep ==
  ASSUME RecordsInv, NEW e \in Editors, NEW r \in sent[e], Wrote(e, r)
  PROVE  RecordsInv'
<1> USE OneEditor
<1>1. r \in Posts /\ r.of \in Subjects  BY PostFields
<1>2. \A s \in Subjects : /\ records'[s] = IF s = r.of THEN RowSaved(r) ELSE records[s]
                         /\ records'[s] \in Columns
  BY <1>1, RowWritten DEF Wrote, RecordsInv, RecordsShape
<1>3. RecordsShape'
  <2>1. records' \in [Subjects -> Columns]  BY <1>1, RowWritten DEF Wrote, RecordsInv, RecordsShape
  <2>2. \A x \in Editors : \A p, q \in sent'[x] : p = q  BY DEF Wrote
  <2> QED  BY <2>1, <2>2 DEF Wrote, RecordsInv, RecordsShape, Settings
<1>4. kind' = kind /\ (Settings' <=> Settings)  BY DEF Wrote, Settings
\* The one who saved.
<1>5. /\ FormOK(form[e])'
      /\ \A q \in sent'[e] : PostOK(q)' /\ SentAsShown(form[e], q)'
  <2>1. FormOK(form[e]) /\ PostOK(r) /\ SentAsShown(form[e], r)  OBVIOUS
  <2>2. form'[e] \in {form[e], Blank} /\ (Settings => form'[e] = form[e])  BY DEF Wrote
  <2>3. CASE Settings
    <3>1. form'[e] = form[e] /\ sent'[e] = {}  BY <2>2, <2>3 DEF Wrote
    <3>2. ASSUME form[e].abreast, NEW c \in Fields, c \notin form[e].touched
          PROVE  form[e].typed[c] = records'[form[e].of][c]
      <4>1. form[e].of \in Subjects /\ form[e].typed[c] = records[form[e].of][c]
        BY <2>1, <2>3, <3>2 DEF FormOK
      <4>2. r.of = form[e].of /\ r.row[c] = form[e].typed[c]
        BY <2>1, <2>3, <3>2 DEF SentAsShown
      <4>3. RowSaved(r)[c] = IF c \in NextPart(r) THEN r.row[c] ELSE records[r.of][c]
        BY <1>1, RowWritten
      <4> QED  BY <1>2, <4>1, <4>2, <4>3
    <3>3. form[e].abreast => form[e].of \in Subjects  BY <2>1, <2>3 DEF FormOK
    <3> QED  BY <1>4, <2>3, <3>1, <3>2, <3>3 DEF FormOK
  <2>4. CASE ~Settings
    <3>1. FormOK(form[e])'  BY <1>4, <2>1, <2>2, <2>4, BlankForm DEF FormOK
    <3>2. ASSUME NEW q \in sent'[e] PROVE PostOK(q)' /\ SentAsShown(form[e], q)'
      <4>1. ~q.checked /\ q.due \subseteq r.due /\ q.touched = r.touched  BY <3>2 DEF Wrote
      <4> QED  BY <1>4, <2>1, <2>4, <4>1 DEF PostOK, SentAsShown
    <3> QED  BY <3>1, <3>2
  <2> QED  BY <2>3, <2>4
\* The others.
<1>6. ASSUME NEW x \in Editors \ {e}
      PROVE  /\ FormOK(form[x])'
             /\ \A q \in sent'[x] : PostOK(q)' /\ SentAsShown(form[x], q)'
  <2>1. /\ form'[x].of = form[x].of /\ form'[x].copy = form[x].copy /\ form'[x].typed = form[x].typed
        /\ form'[x].touched = form[x].touched
        /\ (form'[x].abreast => form[x].abreast /\ form[x].of # r.of)
    <3>1. form[x] \in Forms /\ form'[x] = FormBehind(form[x], r)  BY DEF Wrote
    <3> QED  BY <1>1, <3>1, FallenBehind
  <2>2. FormOK(form[x]) /\ \A q \in sent[x] : PostOK(q) /\ SentAsShown(form[x], q)  OBVIOUS
  <2>3. FormOK(form[x])'
    BY <1>2, <1>4, <2>1, <2>2 DEF FormOK
  <2>4. ASSUME NEW q \in sent'[x] PROVE PostOK(q)' /\ SentAsShown(form[x], q)'
    <3>1. PICK o \in sent[x] : q = PostBehind(o, r)  BY DEF Wrote
    <3>2. /\ o \in Posts /\ q \in Posts /\ q.of = o.of /\ q.row = o.row /\ q.due = o.due
          /\ q.touched = o.touched /\ q.checked = o.checked /\ (q.abreast => o.abreast /\ o.of # r.of)
          /\ (~q.raced => ~o.raced) /\ (~q.raced /\ o.checked => "identity" \notin NextPart(r))
      BY <1>1, <3>1, FallenBehind
    <3>3. PostOK(o) /\ SentAsShown(form[x], o)  BY <2>2
    <3>4. SentAsShown(form[x], q)'  BY <1>4, <2>1, <3>2, <3>3 DEF SentAsShown
    <3>5. ASSUME ~Settings, q.checked, ~q.raced, "identity" \in NextPart(q) PROVE ~Taken(q)'
      <4>1. NextPart(o) = NextPart(q)  BY <3>2 DEF NextPart
      <4>2. ~Taken(o) /\ "identity" \notin NextPart(r)  BY <3>2, <3>3, <3>5, <4>1 DEF PostOK
      <4>3. RowSaved(r)["identity"] = records[r.of]["identity"]  BY <1>1, <4>2, RowWritten, ColumnFields
      <4>4. \A s \in Subjects : records'[s].identity = records[s].identity
        <5>1. RowSaved(r).identity = RowSaved(r)["identity"] /\ records[r.of].identity = records[r.of]["identity"]
          BY <1>1, RowWritten, ColumnFields
        <5> QED  BY <1>2, <4>3, <5>1
      <4> QED  BY <3>2, <4>2, <4>4 DEF Taken, Same
    <3>6. PostOK(q)'
      <4>1. NextPart(q)' = NextPart(q)  BY <1>4 DEF NextPart
      <4>2. ~Settings => q.due \subseteq q.touched  BY <3>2, <3>3 DEF PostOK
      <4>3. Settings => \E c \in Fields : q.due = {c}  BY <3>2, <3>3 DEF PostOK
      <4>4. Settings /\ q.abreast => \A c \in Fields : c \in q.touched \/ q.row[c] = records'[q.of][c]
        <5>1. q.of \in Subjects  BY <3>2, PostFields
        <5> QED  BY <1>2, <3>2, <3>3, <5>1 DEF PostOK
      <4> QED  BY <1>4, <3>5, <4>1, <4>2, <4>3, <4>4 DEF PostOK
    <3> QED  BY <3>4, <3>6
  <2> QED  BY <2>3, <2>4
<1> QED  BY <1>3, <1>5, <1>6 DEF RecordsInv

LEMMA RecordsInitOK == RecordsInit => RecordsInv
<1> SUFFICES ASSUME RecordsInit PROVE RecordsInv  OBVIOUS
<1>1. RecordsShape  BY BlankForm, RecordsAssumption DEF RecordsInit, RecordsShape
<1>2. FormOK(Blank)  BY BlankForm DEF FormOK
<1> QED  BY <1>1, <1>2 DEF RecordsInit, RecordsInv

LEMMA RecordsStep == RecordsInv /\ [RecordsNext]_recordVars => RecordsInv'
<1>1. ASSUME RecordsInv, UNCHANGED recordVars PROVE RecordsInv'
  BY <1>1 DEF recordVars, RecordsInv, RecordsShape, FormOK, PostOK, SentAsShown, Settings, NextPart, Taken
<1>2. ASSUME RecordsInv, RecordsNext PROVE RecordsInv'
  BY <1>2, FillingStep, EditingStep, SaveStep, SaveCheckedStep, SaveFailsStep, SaveWrites, WroteStep
  DEF RecordsNext
<1> QED  BY <1>1, <1>2

LEMMA RecordsImplies == RecordsInv => RecordsTypeOK
<1> SUFFICES ASSUME RecordsInv PROVE RecordsTypeOK  OBVIOUS
<1>1. ASSUME NEW e \in Editors PROVE sent[e] \subseteq Posts /\ Cardinality(sent[e]) <= 1
  <2>1. sent[e] \subseteq Posts /\ \A q, r \in sent[e] : q = r  BY DEF RecordsInv, RecordsShape
  <2>2. CASE sent[e] = {}  BY <2>1, <2>2, FS_EmptySet
  <2>3. CASE sent[e] # {}
    <3>1. PICK q \in sent[e] : TRUE  BY <2>3
    <3>2. sent[e] = {q}  BY <2>1, <3>1
    <3>3. Cardinality({q}) = 1  BY FS_Singleton
    <3> QED  BY <2>1, <3>2, <3>3
  <2> QED  BY <2>2, <2>3
<1> QED  BY <1>1 DEF RecordsInv, RecordsShape, RecordsTypeOK

\* For any editors, records and columns: records, forms and requests keep their
\* types, and nobody has two saves on their way.
THEOREM RecordsTypeCorrect == RecordsSpec => []RecordsTypeOK
<1> QED  BY RecordsInitOK, RecordsStep, RecordsImplies, PTL DEF RecordsSpec

-----------------------------------------------------------------------------
(* What a save means *)

\* The write of a request: it keeps to what was touched, and makes no twin.
LEMMA WrittenAsMeant ==
  ASSUME RecordsInv, NEW e \in Editors, NEW r \in sent[e], Wrote(e, r)
  PROVE  OnlyWhatWasTouched(r) /\ NoTwinMade(r)
<1> USE OneEditor
<1>1. r \in Posts /\ r.of \in Subjects /\ PostOK(r) /\ r.checked  BY PostFields DEF Wrote
<1>2. \A s \in Subjects : records'[s] = IF s = r.of THEN RowSaved(r) ELSE records[s]
  BY <1>1, RowWritten DEF Wrote, RecordsInv, RecordsShape
<1>3. \A c \in Fields : RowSaved(r)[c] = IF c \in NextPart(r) THEN r.row[c] ELSE records[r.of][c]
  BY <1>1, RowWritten
<1>4. ASSUME NEW c \in Fields, records'[r.of][c] # records[r.of][c]
      PROVE  c \in r.touched \/ (kind = "settings" /\ ~r.abreast)
  <2>1. c \in NextPart(r) /\ r.row[c] # records[r.of][c]  BY <1>1, <1>2, <1>3, <1>4
  <2>2. c \in r.due  BY <1>1, <2>1, IdentityPart
  <2> QED  BY <1>1, <2>1, <2>2 DEF PostOK, Settings
<1>5. ASSUME ~Settings, ~Same(records'[r.of], records[r.of]), ~r.raced, NEW s \in Subjects \ {r.of}
      PROVE  ~Same(records'[s], records'[r.of])
  <2>1. RowSaved(r) \in Columns /\ records[r.of] \in Columns /\ r.row \in Columns
    BY <1>1, RowWritten, PostFields
  <2>2. /\ RowSaved(r).identity = RowSaved(r)["identity"] /\ r.row.identity = r.row["identity"]
        /\ records[r.of].identity = records[r.of]["identity"]
    BY <2>1, ColumnFields
  <2>3. "identity" \in NextPart(r) /\ RowSaved(r).identity = r.row.identity
    BY <1>1, <1>2, <1>3, <1>5, <2>2, ColumnFields DEF Same
  <2>4. ~Taken(r)  BY <1>1, <1>5, <2>3 DEF PostOK
  <2> QED  BY <1>1, <1>2, <2>3, <2>4 DEF Taken, Same
<1> QED  BY <1>4, <1>5 DEF OnlyWhatWasTouched, NoTwinMade, Settings

LEMMA SavesAsMeant ==
  ASSUME RecordsInv, RecordsNext, NEW e \in Editors, NEW r \in sent[e], Saves(e, r)
  PROVE  OnlyWhatWasTouched(r) /\ NoTwinMade(r)
<1>1. CASE records' = records
  BY <1>1 DEF OnlyWhatWasTouched, NoTwinMade, Same
<1>2. CASE records' # records
  <2>1. PICK x \in Editors : SaveWritten(x)
    BY <1>2, ZenonT(60) DEF RecordsNext, OpenForm, SelectShop, LoadLands, LoadFails, EditCustomer, EditDevice,
                TypeImei, EditProfile, EditPolicyCard, Types, CloseForm, Save, SaveChecked, SaveFails
  <2>2. PICK w \in sent[x] : Wrote(x, w)  BY <2>1, SaveWrites
  <2>3. x = e
    <3>1. SUFFICES ASSUME x # e PROVE FALSE  OBVIOUS
    <3>2. PostBehind(r, w) \in sent'[e]  BY <2>2, <3>1 DEF Wrote
    <3>3. r \in Posts /\ w \in Posts  BY OneEditor
    <3>4. PostBehind(r, w).checked = r.checked  BY <3>3, FallenBehind
    <3> QED  BY <3>2, <3>4 DEF Saves
  <2>4. w = r  BY <2>2, <2>3, OneEditor
  <2> QED  BY <2>2, <2>3, <2>4, WrittenAsMeant, ZenonT(60)
<1> QED  BY <1>1, <1>2

\* A save writes only what its editor touched, and makes no two records one,
\* with the exceptions that OnlyWhatWasTouched and NoTwinMade name, for any
\* editors at any records, whatever is lost, repeated or overtaken.
THEOREM SavesMeanWhatTheySay == RecordsSpec => SavedAsMeant
<1>1. RecordsInv /\ [RecordsNext]_recordVars
        => [\A e \in Editors, r \in UNION {sent[x] : x \in Editors} :
              Saves(e, r) => OnlyWhatWasTouched(r) /\ NoTwinMade(r)]_recordVars
  <2>1. ASSUME RecordsInv, RecordsNext, NEW e \in Editors,
               NEW r \in UNION {sent[x] : x \in Editors}, Saves(e, r)
        PROVE  OnlyWhatWasTouched(r) /\ NoTwinMade(r)
    <3>1. r \in sent[e]  BY <2>1 DEF Saves
    <3> QED  BY <2>1, <3>1, SavesAsMeant
  <2> QED  BY <2>1
<1> QED  BY <1>1, RecordsInitOK, RecordsStep, PTL DEF RecordsSpec, SavedAsMeant

-----------------------------------------------------------------------------
(* Orders *)

Noted(S, email, size) == \E s \in S : s.email = email /\ s.order \in {size, NoOrder}

SignupFormOK(F, R) ==
  /\ F \subseteq SignupForms /\ R \subseteq Signings
  /\ \A f, g \in F : f = g
  /\ \A r \in R : r.own =>
       /\ F # {}
       /\ \A q \in R : q.own => q = r
       /\ \A f \in F : f.at = "sent" /\ f.email = r.email /\ (f.repicked \/ f.size = r.size)

SignupNoted(F, R, S) ==
  /\ \A r \in R : r.at = "written" => Noted(S, r.email, r.size)
  /\ \A f \in F : f.at = "done" /\ ~f.repicked => Noted(S, f.email, f.size)

SignupInv ==
  /\ shops \subseteq ShopRows /\ raced \subseteq Boxes
  /\ signup = [w \in Applicants |-> signup[w]] /\ signing = [w \in Applicants |-> signing[w]]
  /\ \A w \in Applicants :
       SignupFormOK(signup[w], signing[w]) /\ SignupNoted(signup[w], signing[w], shops)
  /\ OneShopEach /\ OrdersWait

IdsOf(K) == {k.id : k \in K}

PageOK(O, L, G, K) ==
  /\ O \subseteq OfficePages /\ L \subseteq Fetches /\ G \subseteq Givings
  /\ \A p, q \in O : p = q
  /\ \A x \in O \cup L \cup G : x.known \subseteq IdsOf(K)
  /\ \A x \in O \cup L : \A s \in x.orders : s.order # NoOrder
  /\ \A r \in G : r.wrote \subseteq IdsOf(K)

OneAtATime(O, L, G) ==
  /\ \A r \in G : r.own =>
       /\ \E p \in O : p.busy
       /\ \A q \in G : q.own => q = r
       /\ \A l \in L : ~l.after
  /\ \A l \in L : l.after => (\E p \in O : p.busy) /\ \A m \in L : m.after => m = l

Tells(a, list, of, known, orders, K) ==
  \A k \in K : k.by = a /\ k.told =>
    /\ list = "locks" /\ of \in {k.shop, EveryShop} => k.id \in known
    /\ list = "orders" => \A s \in orders : s.email # k.shop

PageTells(a, O, L, G, K) ==
  /\ \A p \in O : ~p.mixed =>
       /\ \A l, m \in L : l = m
       /\ \A l \in L : Tells(a, p.kind, l.of, l.known, l.orders, K)
       /\ ~p.failed /\ L = {} => Tells(a, p.kind, p.of, p.known, p.orders, K)
  /\ \A r \in G :
       /\ r.own /\ r.sure /\ r.wrote = {} =>
            \A k \in K : k.shop = r.shop /\ k.by = a /\ k.told => k.id \in r.known
       /\ \A k \in K : k.id \in r.wrote => k.by = a

PacksLike(K, e, n, known) == {k \in K : k.shop = e /\ k.size = n /\ k.id \in known}
MoneyLike(M, e, n) == {m \in M : m.shop = e /\ m.size = n}

Short(G, K, M) ==
  \A r \in G : r.wrote = {} =>
    Cardinality(PacksLike(K, r.shop, r.size, r.known))
      < Cardinality(MoneyLike(M, r.shop, r.size))

GivingInv ==
  /\ packs \subseteq PackRows /\ IsFiniteSet(packs) /\ blind \subseteq Emails
  /\ \A k, l \in packs : k.id = l.id => k = l
  /\ money \subseteq [shop: Emails, size: PackSizes, slip: Slips] /\ IsFiniteSet(money)
  /\ office = [a \in Offices |-> office[a]] /\ fetches = [a \in Offices |-> fetches[a]]
  /\ giving = [a \in Offices |-> giving[a]]
  /\ \A a \in Offices :
       /\ PageOK(office[a], fetches[a], giving[a], packs)
       /\ OneAtATime(office[a], fetches[a], giving[a])
       /\ PageTells(a, office[a], fetches[a], giving[a], packs)
       /\ Short(giving[a], packs, money)
  /\ GivenOnce

OrdersInv == SignupInv /\ GivingInv


-----------------------------------------------------------------------------
LEMMA SignupRecords ==
  ASSUME NEW f \in SignupForms, NEW e \in Emails, NEW n \in PackSizes
  PROVE  /\ [f EXCEPT !.email = e, !.size = n] \in SignupForms
         /\ [f EXCEPT !.size = n, !.repicked = TRUE] \in SignupForms
         /\ [f EXCEPT !.at = "sent", !.repicked = FALSE] \in SignupForms
         /\ [f EXCEPT !.at = "done"] \in SignupForms
         /\ [f EXCEPT !.at = "open"] \in SignupForms
BY DEF SignupForms

LEMMA SigningRecords ==
  ASSUME NEW r \in Signings
  PROVE  /\ [r EXCEPT !.own = FALSE] \in Signings
         /\ [r EXCEPT !.at = "checked"] \in Signings
         /\ [r EXCEPT !.at = "written"] \in Signings
BY DEF Signings

\* A step at one form that leaves the shops alone.
LEMMA SignupLocal ==
  ASSUME SignupInv, NEW w \in Applicants, NEW F, NEW R,
         signup' = [signup EXCEPT ![w] = F], signing' = [signing EXCEPT ![w] = R],
         SignupFormOK(F, R), SignupNoted(F, R, shops), UNCHANGED <<shops, raced, packs>>
  PROVE  SignupInv'
<1>1. \A v \in Applicants : signup'[v] = IF v = w THEN F ELSE signup[v]  BY DEF SignupInv
<1>2. \A v \in Applicants : signing'[v] = IF v = w THEN R ELSE signing[v]  BY DEF SignupInv
<1>3. signup' = [v \in Applicants |-> signup'[v]] /\ signing' = [v \in Applicants |-> signing'[v]]
  BY DEF SignupInv
<1>4. \A v \in Applicants :
        SignupFormOK(signup'[v], signing'[v]) /\ SignupNoted(signup'[v], signing'[v], shops')
  BY <1>1, <1>2 DEF SignupInv
<1> QED  BY <1>3, <1>4 DEF SignupInv, OneShopEach, OrdersWait

LEMMA SignupSame ==
  ASSUME SignupInv, NEW w \in Applicants
  PROVE  signup = [signup EXCEPT ![w] = signup[w]] /\ signing = [signing EXCEPT ![w] = signing[w]]
BY DEF SignupInv

\* A sign-up moves on at the server.
LEMMA SigningReplaced ==
  ASSUME NEW F, NEW R, NEW r \in R, NEW q \in Signings, SignupFormOK(F, R),
         q.email = r.email, q.size = r.size, q.own = r.own
  PROVE  SignupFormOK(F, (R \ {r}) \cup {q})
BY DEF SignupFormOK

\* A sign-up that was the form's own is over, or the form's no more.
LEMMA SigningGone ==
  ASSUME NEW F, NEW G, NEW R, NEW r \in R, NEW Q, SignupFormOK(F, R), G \subseteq SignupForms,
         \A f, g \in G : f = g, r.own \/ G = F,
         Q \subseteq Signings, \A q \in Q : (q \in R /\ q # r) \/ ~q.own
  PROVE  SignupFormOK(G, Q)
<1>1. CASE r.own
  <2>1. \A q \in Q : ~q.own  BY <1>1 DEF SignupFormOK
  <2> QED  BY <2>1 DEF SignupFormOK
<1>2. CASE ~r.own
  BY <1>2 DEF SignupFormOK
<1> QED  BY <1>1, <1>2

LEMMA SignupFormsStep ==
  ASSUME SignupInv, NEW w \in Applicants,
         \/ OpenSignup(w) \/ FillSignup(w) \/ PickPack(w) \/ LeaveSignup(w) \/ SendSignup(w)
  PROVE  SignupInv'
<1> DEFINE F == signup[w]
           R == signing[w]
<1>1. SignupFormOK(F, R) /\ SignupNoted(F, R, shops)  BY DEF SignupInv
<1>2. signup = [signup EXCEPT ![w] = F] /\ signing = [signing EXCEPT ![w] = R]  BY SignupSame
<1>3. CASE OpenSignup(w)
  <2>1. PICK e \in Emails, n \in PackSizes :
          signup' = [signup EXCEPT ![w] = {[email |-> e, size |-> n, at |-> "open", repicked |-> FALSE]}]
    BY <1>3 DEF OpenSignup
  <2> DEFINE f == [email |-> e, size |-> n, at |-> "open", repicked |-> FALSE]
  <2>2. f \in SignupForms /\ f.at = "open"  BY DEF SignupForms
  <2>3. signup' = [signup EXCEPT ![w] = {f}]  BY <2>1
  <2> HIDE DEF f
  <2>4. SignupFormOK({f}, R)  BY <1>1, <1>3, <2>2 DEF SignupFormOK, OpenSignup
  <2>5. SignupNoted({f}, R, shops)  BY <1>1, <2>2 DEF SignupNoted
  <2> QED  BY <1>2, <1>3, <2>3, <2>4, <2>5, SignupLocal DEF OpenSignup, GivingVars
<1>4. CASE FillSignup(w)
  <2>1. PICK g \in F, e \in Emails, n \in PackSizes :
          g.at = "open" /\ signup' = [signup EXCEPT ![w] = {[g EXCEPT !.email = e, !.size = n]}]
    BY <1>4 DEF FillSignup
  <2> DEFINE f == [g EXCEPT !.email = e, !.size = n]
  <2>2. g \in SignupForms  BY <1>1 DEF SignupFormOK
  <2>3. f \in SignupForms /\ f.at = "open"  BY <2>1, <2>2, SignupRecords DEF SignupForms
  <2>4. signup' = [signup EXCEPT ![w] = {f}]  BY <2>1
  <2> HIDE DEF f
  <2>5. SignupFormOK({f}, R)  BY <1>1, <2>1, <2>3 DEF SignupFormOK
  <2>6. SignupNoted({f}, R, shops)  BY <1>1, <2>3 DEF SignupNoted
  <2> QED  BY <1>2, <1>4, <2>4, <2>5, <2>6, SignupLocal DEF FillSignup, GivingVars
<1>5. CASE PickPack(w)
  <2>1. PICK g \in F, n \in PackSizes :
          g.at = "sent" /\ signup' = [signup EXCEPT ![w] = {[g EXCEPT !.size = n, !.repicked = TRUE]}]
    BY <1>5 DEF PickPack
  <2> DEFINE f == [g EXCEPT !.size = n, !.repicked = TRUE]
  <2>2. g \in SignupForms  BY <1>1 DEF SignupFormOK
  <2>3. f \in SignupForms /\ f.at = "sent" /\ f.repicked /\ f.email = g.email
    BY <2>1, <2>2, SignupRecords DEF SignupForms
  <2>4. signup' = [signup EXCEPT ![w] = {f}]  BY <2>1
  <2> HIDE DEF f
  <2>5. SignupFormOK({f}, R)  BY <1>1, <2>1, <2>3 DEF SignupFormOK
  <2>6. SignupNoted({f}, R, shops)  BY <1>1, <2>3 DEF SignupNoted
  <2> QED  BY <1>2, <1>5, <2>4, <2>5, <2>6, SignupLocal DEF PickPack, GivingVars
<1>6. CASE LeaveSignup(w)
  <2> DEFINE Q == {[r EXCEPT !.own = FALSE] : r \in R}
  <2>1. signup' = [signup EXCEPT ![w] = {}] /\ signing' = [signing EXCEPT ![w] = Q]
    BY <1>6 DEF LeaveSignup
  <2>2. \A q \in Q : q \in Signings /\ ~q.own
                     /\ \E r \in R : q.at = r.at /\ q.email = r.email /\ q.size = r.size
    <3> TAKE q \in Q
    <3>1. PICK r \in R : q = [r EXCEPT !.own = FALSE]  OBVIOUS
    <3>2. r \in Signings  BY <1>1 DEF SignupFormOK
    <3>3. q \in Signings  BY <3>1, <3>2, SigningRecords
    <3> QED  BY <3>1, <3>2, <3>3 DEF Signings
  <2> HIDE DEF Q
  <2>3. SignupFormOK({}, Q)  BY <2>2 DEF SignupFormOK
  <2>4. SignupNoted({}, Q, shops)  BY <1>1, <2>2 DEF SignupNoted
  <2> QED  BY <1>6, <2>1, <2>3, <2>4, SignupLocal DEF LeaveSignup, GivingVars
<1>7. CASE SendSignup(w)
  <2>1. PICK g \in F :
          /\ g.at = "open"
          /\ signup' = [signup EXCEPT ![w] = {[g EXCEPT !.at = "sent", !.repicked = FALSE]}]
          /\ signing' = [signing EXCEPT ![w] = @ \cup
               {[email |-> g.email, size |-> g.size, own |-> TRUE, at |-> "way"]}]
    BY <1>7 DEF SendSignup
  <2> DEFINE f == [g EXCEPT !.at = "sent", !.repicked = FALSE]
             r == [email |-> g.email, size |-> g.size, own |-> TRUE, at |-> "way"]
  <2>2. g \in SignupForms  BY <1>1 DEF SignupFormOK
  <2>3. f \in SignupForms /\ f.at = "sent" /\ f.email = g.email /\ f.size = g.size
    <3>1. g.email \in Emails /\ g.size \in PackSizes  BY <2>2, ZenonT(60) DEF SignupForms
    <3>2. f \in SignupForms  BY <2>2, <3>1, SignupRecords
    <3> QED  BY <2>2, <3>2 DEF SignupForms
  <2>4. r \in Signings /\ r.at = "way" /\ r.own /\ r.email = g.email /\ r.size = g.size
    BY <2>2 DEF SignupForms, Signings
  <2>5. signup' = [signup EXCEPT ![w] = {f}] /\ signing' = [signing EXCEPT ![w] = R \cup {r}]
    BY <2>1 DEF SignupInv
  <2> HIDE DEF f, r
  <2>6. \A q \in R : ~q.own  BY <1>1, <2>1 DEF SignupFormOK
  <2>7. SignupFormOK({f}, R \cup {r})  BY <1>1, <2>3, <2>4, <2>6 DEF SignupFormOK
  <2>8. SignupNoted({f}, R \cup {r}, shops)  BY <1>1, <2>3, <2>4 DEF SignupNoted
  <2> QED  BY <1>7, <2>5, <2>7, <2>8, SignupLocal DEF SendSignup, GivingVars
<1> QED  BY <1>3, <1>4, <1>5, <1>6, <1>7

LEMMA SignupServerStep ==
  ASSUME SignupInv, NEW w \in Applicants,
         \/ SignupChecked(w) \/ SignupAnswered(w) \/ SignupFails(w) \/ SignupGivenUp(w)
  PROVE  SignupInv'
<1> DEFINE F == signup[w]
           R == signing[w]
           Over(at) == {[f EXCEPT !.at = at] : f \in F}
<1>1. SignupFormOK(F, R) /\ SignupNoted(F, R, shops)  BY DEF SignupInv
<1>2. signup = [signup EXCEPT ![w] = F] /\ signing = [signing EXCEPT ![w] = R]  BY SignupSame
<1>3. \A f \in F : f \in SignupForms /\ f.email \in Emails /\ f.size \in PackSizes
  BY <1>1 DEF SignupFormOK, SignupForms
<1>4. \A r \in R : r \in Signings  BY <1>1 DEF SignupFormOK
<1>5. \A at \in {"done", "open"} :
        /\ Over(at) \subseteq SignupForms /\ \A f, g \in Over(at) : f = g
        /\ \A f \in Over(at) : f.at = at /\ \E g \in F : f.email = g.email /\ f.size = g.size /\ f.repicked = g.repicked
  <2> TAKE at \in {"done", "open"}
  <2>1. \A g \in F : [g EXCEPT !.at = at] \in SignupForms  BY <1>3, SignupRecords
  <2>2. \A g \in F : LET f == [g EXCEPT !.at = at]
                     IN  f.at = at /\ f.email = g.email /\ f.size = g.size /\ f.repicked = g.repicked
    BY <1>3 DEF SignupForms
  <2>3. \A f, g \in Over(at) : f = g  BY <1>1 DEF SignupFormOK
  <2> QED  BY <2>1, <2>2, <2>3, ZenonT(60)
<1>6. CASE SignupChecked(w)
  <2>1. PICK r \in R : r.at = "way" /\ SigningMoves(w, r, "checked")  BY <1>6 DEF SignupChecked
  <2> DEFINE q == [r EXCEPT !.at = "checked"]
  <2>2. q \in Signings /\ q.at = "checked" /\ q.email = r.email /\ q.size = r.size /\ q.own = r.own
    BY <1>4, SigningRecords DEF Signings
  <2>3. signing' = [signing EXCEPT ![w] = (R \ {r}) \cup {q}]  BY <2>1 DEF SigningMoves, SignupInv
  <2> HIDE DEF q
  <2>4. SignupFormOK(F, (R \ {r}) \cup {q})  BY <1>1, <2>2, SigningReplaced
  <2>5. SignupNoted(F, (R \ {r}) \cup {q}, shops)  BY <1>1, <2>2 DEF SignupNoted
  <2> QED  BY <1>2, <1>6, <2>3, <2>4, <2>5, SignupLocal DEF SignupChecked, GivingVars
<1>7. CASE SignupAnswered(w)
  <2>1. PICK r \in R :
          /\ r.at = "written"
          /\ signing' = [signing EXCEPT ![w] = @ \ {r}]
          /\ signup' = IF r.own THEN [signup EXCEPT ![w] = {[f EXCEPT !.at = "done"] : f \in @}] ELSE signup
    BY <1>7 DEF SignupAnswered
  <2> DEFINE G == IF r.own THEN Over("done") ELSE F
  <2>2. signup' = [signup EXCEPT ![w] = G]  BY <1>2, <2>1 DEF SignupInv
  <2>3. signing' = [signing EXCEPT ![w] = R \ {r}]  BY <2>1 DEF SignupInv
  <2>4. G \subseteq SignupForms /\ (\A f, g \in G : f = g) /\ (r.own \/ G = F)
    BY <1>1, <1>3, <1>5 DEF SignupFormOK
  <2>5. SignupFormOK(G, R \ {r})  BY <1>1, <1>4, <2>4, SigningGone
  <2>6. SignupNoted(G, R \ {r}, shops)
    <3>1. \A f \in G : f.at = "done" /\ ~f.repicked => Noted(shops, f.email, f.size)
      <4>1. CASE ~r.own  BY <4>1, <1>1 DEF SignupNoted
      <4>2. CASE r.own
        <5> SUFFICES ASSUME NEW f \in Over("done"), ~f.repicked PROVE Noted(shops, f.email, f.size)
          BY <4>2
        <5>1. PICK g \in F : f.email = g.email /\ f.size = g.size /\ f.repicked = g.repicked  BY <1>5
        <5>2. g.email = r.email /\ g.size = r.size  BY <5>1, <4>2, <1>1 DEF SignupFormOK
        <5> QED  BY <5>1, <5>2, <2>1, <1>1 DEF SignupNoted
      <4> QED  BY <4>1, <4>2
    <3> QED  BY <3>1, <1>1 DEF SignupNoted
  <2> HIDE DEF G
  <2> QED  BY <1>7, <2>2, <2>3, <2>5, <2>6, SignupLocal DEF SignupAnswered, GivingVars
<1>8. ASSUME NEW r \in R, FormFreed(w, r), NEW Q, signing' = [signing EXCEPT ![w] = Q],
             Q \subseteq Signings, \A q \in Q : (q \in R /\ q # r) \/ ~q.own,
             \A q \in Q : q \in R \/ q.at # "written", UNCHANGED <<shops, raced, packs>>
      PROVE  SignupInv'
  <2> DEFINE G == IF r.own THEN Over("open") ELSE F
  <2>1. signup' = [signup EXCEPT ![w] = G]  BY <1>2, <1>8 DEF FormFreed, SignupInv
  <2>2. G \subseteq SignupForms /\ (\A f, g \in G : f = g) /\ (r.own \/ G = F)
    BY <1>1, <1>3, <1>5 DEF SignupFormOK
  <2>3. SignupFormOK(G, Q)  BY <1>1, <1>8, <2>2, SigningGone
  <2>4. \A f \in G : f.at = "open" \/ f \in F  BY <1>5
  <2>5. SignupNoted(G, Q, shops)  BY <1>1, <1>8, <2>4 DEF SignupNoted
  <2> HIDE DEF G
  <2> QED  BY <1>8, <2>1, <2>3, <2>5, SignupLocal
<1>9. CASE SignupFails(w)
  <2>1. PICK r \in R : signing' = [signing EXCEPT ![w] = @ \ {r}] /\ FormFreed(w, r)
    BY <1>9 DEF SignupFails
  <2> DEFINE Q == R \ {r}
  <2>2. signing' = [signing EXCEPT ![w] = Q]  BY <2>1 DEF SignupInv
  <2>3. Q \subseteq Signings /\ \A q \in Q : q \in R /\ q # r  BY <1>4
  <2>4. UNCHANGED <<shops, raced, packs>>  BY <1>9 DEF SignupFails, GivingVars
  <2> HIDE DEF Q
  <2> QED  BY <1>8, <2>1, <2>2, <2>3, <2>4, ZenonT(60)
<1>10. CASE SignupGivenUp(w)
  <2>1. PICK r \in R :
          /\ r.at # "written"
          /\ signing' = [signing EXCEPT ![w] = (@ \ {r}) \cup {[r EXCEPT !.own = FALSE]}]
          /\ FormFreed(w, r)
    BY <1>10 DEF SignupGivenUp
  <2> DEFINE q == [r EXCEPT !.own = FALSE]
             Q == (R \ {r}) \cup {q}
  <2>2. q \in Signings /\ ~q.own /\ q.at # "written"  BY <1>4, <2>1, SigningRecords, ZenonT(60) DEF Signings
  <2>3. signing' = [signing EXCEPT ![w] = Q]  BY <2>1 DEF SignupInv
  <2> HIDE DEF q
  <2>4. /\ Q \subseteq Signings /\ \A x \in Q : (x \in R /\ x # r) \/ ~x.own
        /\ \A x \in Q : x \in R \/ x.at # "written"
    BY <1>4, <2>2
  <2>5. UNCHANGED <<shops, raced, packs>>  BY <1>10 DEF SignupGivenUp, GivingVars
  <2> HIDE DEF Q
  <2> QED  BY <1>8, <2>1, <2>3, <2>4, <2>5
<1> QED  BY <1>6, <1>7, <1>9, <1>10

LEMMA SignupWrittenStep ==
  ASSUME SignupInv, NEW w \in Applicants, SignupWritten(w), NoOrder \notin PackSizes
  PROVE  SignupInv'
<1>1. PICK r \in signing[w] :
        /\ r.at = "checked" /\ AddressFree(r.email)
        /\ shops' = shops \cup {[email |-> r.email, order |-> r.size]}
        /\ raced' = IF SignedUp(r.email) THEN raced \cup {r.email.box} ELSE raced
        /\ SigningMoves(w, r, "written")
  BY DEF SignupWritten
<1>2. UNCHANGED <<signup, packs>>  BY DEF SignupWritten, GivingVars
<1>3. \A v \in Applicants : SignupFormOK(signup[v], signing[v]) /\ SignupNoted(signup[v], signing[v], shops)
  BY DEF SignupInv
<1>4. r \in Signings  BY <1>3 DEF SignupFormOK
<1> DEFINE q == [r EXCEPT !.at = "written"]
           new == [email |-> r.email, order |-> r.size]
<1>5. q \in Signings /\ q.email = r.email /\ q.size = r.size /\ q.own = r.own
  BY <1>4, SigningRecords DEF Signings
<1>6. new \in ShopRows /\ new.email = r.email /\ new.order = r.size /\ new.order # NoOrder
      /\ r.email.box \in Boxes
  BY <1>4 DEF ShopRows, Signings, Emails
<1>7. signing' = [signing EXCEPT ![w] = (signing[w] \ {r}) \cup {q}]  BY <1>1 DEF SigningMoves, SignupInv
<1>8. \A v \in Applicants : signing'[v] = IF v = w THEN (signing[w] \ {r}) \cup {q} ELSE signing[v]
  BY <1>7 DEF SignupInv
<1>9. shops' = shops \cup {new}  BY <1>1
<1> HIDE DEF q, new
<1>10. \A e, n : Noted(shops, e, n) => Noted(shops', e, n)  BY <1>9 DEF Noted
<1>11. Noted(shops', r.email, r.size)  BY <1>6, <1>9 DEF Noted
<1>12. \A v \in Applicants :
         SignupFormOK(signup'[v], signing'[v]) /\ SignupNoted(signup'[v], signing'[v], shops')
  <2> TAKE v \in Applicants
  <2>1. CASE v = w
    <3>1. SignupFormOK(signup[w], (signing[w] \ {r}) \cup {q})  BY <1>3, <1>5, SigningReplaced
    <3>2. SignupNoted(signup[w], (signing[w] \ {r}) \cup {q}, shops')
      BY <1>3, <1>5, <1>10, <1>11 DEF SignupNoted
    <3> QED  BY <2>1, <3>1, <3>2, <1>2, <1>8
  <2>2. CASE v # w
    BY <2>2, <1>2, <1>3, <1>8, <1>10 DEF SignupNoted
  <2> QED  BY <2>1, <2>2
<1>13. OneShopEach'
  BY <1>1, <1>6, <1>9 DEF OneShopEach, SignupInv, SignedUp
<1>14. OrdersWait'  BY <1>2, <1>6, <1>9 DEF OrdersWait, SignupInv
<1>15. shops' \subseteq ShopRows /\ raced' \subseteq Boxes  BY <1>1, <1>6, <1>9 DEF SignupInv
<1>16. signup' = [v \in Applicants |-> signup'[v]] /\ signing' = [v \in Applicants |-> signing'[v]]
  BY <1>2, <1>7 DEF SignupInv
<1> QED  BY <1>12, <1>13, <1>14, <1>15, <1>16 DEF SignupInv

\* A pack given closes the order and leaves the rest of the shops.
LEMMA SignupPackGiven ==
  ASSUME SignupInv, NEW a \in Offices, PackGiven(a)
  PROVE  SignupInv'
<1>1. PICK r \in giving[a], i \in PackIds :
        /\ packs' = packs \cup {[id |-> i, shop |-> r.shop, size |-> r.size, by |-> a, told |-> FALSE]}
        /\ shops' = OrderClosed(r.shop)
  BY DEF PackGiven
<1>2. UNCHANGED <<signup, signing, raced>>  BY DEF PackGiven
<1>3. \A s \in shops : s \in ShopRows  BY DEF SignupInv
<1>4. \A s \in shops : [s EXCEPT !.order = NoOrder] \in ShopRows
                       /\ [s EXCEPT !.order = NoOrder].email = s.email
                       /\ [s EXCEPT !.order = NoOrder].order = NoOrder
  BY <1>3 DEF ShopRows
<1> DEFINE closed(s) == IF s.email = r.shop THEN [s EXCEPT !.order = NoOrder] ELSE s
<1>5. \A s \in shops : /\ closed(s) \in ShopRows /\ closed(s).email = s.email
                       /\ closed(s).order \in {s.order, NoOrder}
                       /\ closed(s).order = s.order \/ s.email = r.shop
  BY <1>3, <1>4
<1>6. shops' = {closed(s) : s \in shops}  BY <1>1 DEF OrderClosed
<1> HIDE DEF closed
<1>7. \A e, n : Noted(shops, e, n) => Noted(shops', e, n)
  <2> SUFFICES ASSUME NEW e, NEW n, NEW s \in shops, s.email = e, s.order \in {n, NoOrder}
               PROVE \E t \in shops' : t.email = e /\ t.order \in {n, NoOrder}
    BY DEF Noted
  <2> QED  BY <1>5, <1>6
<1>8. \A v \in Applicants :
         SignupFormOK(signup'[v], signing'[v]) /\ SignupNoted(signup'[v], signing'[v], shops')
  BY <1>2, <1>7 DEF SignupInv, SignupNoted
<1>9. OneShopEach'
  <2> SUFFICES ASSUME NEW s \in shops, NEW t \in shops, s.email.box = t.email.box, s # t
               PROVE  s.email.box \in raced
    BY <1>2, <1>5, <1>6 DEF OneShopEach
  <2> QED  BY DEF SignupInv, OneShopEach
<1>10. OrdersWait'
  <2> SUFFICES ASSUME NEW s \in shops, closed(s).order = NoOrder
               PROVE  \E k \in packs' : k.shop = s.email
    BY <1>5, <1>6 DEF OrdersWait
  <2>1. CASE s.email = r.shop
    <3> DEFINE k == [id |-> i, shop |-> r.shop, size |-> r.size, by |-> a, told |-> FALSE]
    <3>1. k \in packs' /\ k.shop = r.shop  BY <1>1
    <3> QED  BY <2>1, <3>1
  <2>2. CASE s.email # r.shop  BY <2>2, <1>1, <1>5 DEF SignupInv, OrdersWait
  <2> QED  BY <2>1, <2>2
<1>11. shops' \subseteq ShopRows  BY <1>5, <1>6
<1> QED  BY <1>2, <1>8, <1>9, <1>10, <1>11 DEF SignupInv

-----------------------------------------------------------------------------
\* A step at one page that leaves the packs alone.
LEMMA GivingLocal ==
  ASSUME GivingInv, NEW a \in Offices, NEW O, NEW L, NEW G,
         office' = [office EXCEPT ![a] = O], fetches' = [fetches EXCEPT ![a] = L],
         giving' = [giving EXCEPT ![a] = G], UNCHANGED <<packs, money, blind>>,
         PageOK(O, L, G, packs), OneAtATime(O, L, G), PageTells(a, O, L, G, packs),
         Short(G, packs, money)
  PROVE  GivingInv'
<1>1. \A b \in Offices : office'[b] = IF b = a THEN O ELSE office[b]  BY DEF GivingInv
<1>2. \A b \in Offices : fetches'[b] = IF b = a THEN L ELSE fetches[b]  BY DEF GivingInv
<1>3. \A b \in Offices : giving'[b] = IF b = a THEN G ELSE giving[b]  BY DEF GivingInv
<1>4. /\ office' = [b \in Offices |-> office'[b]] /\ fetches' = [b \in Offices |-> fetches'[b]]
      /\ giving' = [b \in Offices |-> giving'[b]]
  BY DEF GivingInv
<1>5. \A b \in Offices :
        /\ PageOK(office'[b], fetches'[b], giving'[b], packs')
        /\ OneAtATime(office'[b], fetches'[b], giving'[b])
        /\ PageTells(b, office'[b], fetches'[b], giving'[b], packs')
        /\ Short(giving'[b], packs', money')
  <2> TAKE b \in Offices
  <2>1. CASE b = a  BY <2>1, <1>1, <1>2, <1>3
  <2>2. CASE b # a
    <3>1. UNCHANGED <<office[b], fetches[b], giving[b]>>  BY <2>2, <1>1, <1>2, <1>3
    <3> QED  BY <3>1 DEF GivingInv
  <2> QED  BY <2>1, <2>2
<1>6. GivenOnce'  BY DEF GivingInv, GivenOnce, PacksGiven, PaidFor
<1> QED  BY <1>4, <1>5, <1>6 DEF GivingInv

LEMMA GivingSame ==
  ASSUME GivingInv, NEW a \in Offices
  PROVE  /\ office = [office EXCEPT ![a] = office[a]] /\ fetches = [fetches EXCEPT ![a] = fetches[a]]
         /\ giving = [giving EXCEPT ![a] = giving[a]]
BY DEF GivingInv

LEMMA OfficeRecords ==
  ASSUME NEW p \in OfficePages, NEW yes \in BOOLEAN
  PROVE  /\ [p EXCEPT !.busy = yes] \in OfficePages
         /\ [p EXCEPT !.mixed = yes] \in OfficePages
         /\ [p EXCEPT !.failed = TRUE, !.busy = yes] \in OfficePages
BY DEF OfficePages

LEMMA OfficeChooses ==
  ASSUME NEW p \in OfficePages, NEW e \in Emails \cup {EveryShop}
  PROVE  [p EXCEPT !.chosen = e] \in OfficePages
BY DEF OfficePages

LEMMA OfficeShows ==
  ASSUME NEW p \in OfficePages, NEW l \in Fetches, NEW yes \in BOOLEAN
  PROVE  [p EXCEPT !.of = l.of, !.orders = l.orders, !.known = l.known, !.failed = FALSE,
            !.busy = yes] \in OfficePages
BY DEF OfficePages, Fetches

LEMMA GivingRecords ==
  ASSUME NEW r \in Givings, NEW i \in PackIds
  PROVE  [r EXCEPT !.own = FALSE] \in Givings /\ [r EXCEPT !.wrote = {i}] \in Givings
BY DEF Givings

\* What the server answers now tells of every pack there is.
LEMMA FetchTells ==
  ASSUME GivingInv, shops \subseteq ShopRows, NEW list \in {"orders", "locks"},
         NEW e \in Emails \cup {EveryShop}, NEW after \in BOOLEAN
  PROVE  LET l == FetchNow(list, e, after)
         IN  /\ l \in Fetches /\ l.known \subseteq IdsOf(packs) /\ l.of = e
             /\ \A s \in l.orders : s.order # NoOrder
             /\ \A k \in packs : /\ list = "locks" /\ e \in {k.shop, EveryShop} => k.id \in l.known
                                 /\ list = "orders" => \A s \in l.orders : s.email # k.shop
<1> DEFINE l == FetchNow(list, e, after)
<1>1. \A k \in packs : k.id \in PackIds  BY DEF GivingInv, PackRows
<1>2. OrdersWaiting \subseteq ShopRows  BY DEF OrdersWaiting
<1>3. PacksOf(e) \subseteq packs  BY DEF PacksOf
<1>4. /\ l.of = e
      /\ l.orders = IF list = "orders" THEN OrdersWaiting ELSE {}
      /\ l.known = IF list = "locks" THEN {k.id : k \in PacksOf(e)} ELSE {}
  BY DEF FetchNow
<1>5. l \in Fetches  BY <1>1, <1>2, <1>3 DEF FetchNow, Fetches
<1> HIDE DEF l
<1>6. l.known \subseteq IdsOf(packs)  BY <1>3, <1>4 DEF IdsOf
<1>7. \A s \in l.orders : s.order # NoOrder /\ \A k \in packs : s.email # k.shop
  BY <1>4 DEF OrdersWaiting
<1>8. \A k \in packs : list = "locks" /\ e \in {k.shop, EveryShop} => k.id \in l.known
  BY <1>4 DEF PacksOf
<1> QED  BY <1>4, <1>5, <1>6, <1>7, <1>8 DEF l

\* A page that asks, and is told of no new pack.
LEMMA GivingAsks ==
  ASSUME GivingInv, shops \subseteq ShopRows, NEW a \in Offices, NEW p \in office[a],
         NEW q \in OfficePages, q.kind = p.kind, q.busy = p.busy, q.mixed = p.mixed,
         q.known = p.known, q.orders = p.orders,
         NEW e \in Emails \cup {EveryShop}, Asks(a, q, e, FALSE),
         UNCHANGED <<packs, money, giving, blind>>
  PROVE  GivingInv'
<1> DEFINE l == FetchNow(q.kind, e, FALSE)
           L == fetches[a] \cup {l}
           s == [q EXCEPT !.mixed = q.mixed \/ fetches[a] # {}]
           G == giving[a]
<1>1. /\ PageOK(office[a], fetches[a], G, packs) /\ OneAtATime(office[a], fetches[a], G)
      /\ PageTells(a, office[a], fetches[a], G, packs) /\ Short(G, packs, money)
  BY DEF GivingInv
<1>2. office' = [office EXCEPT ![a] = {s}] /\ fetches' = [fetches EXCEPT ![a] = L]
  BY DEF Asks, GivingInv
<1>3. giving' = [giving EXCEPT ![a] = G]  BY GivingSame
<1>4. q.kind \in {"orders", "locks"}  BY DEF OfficePages
<1>5. /\ l \in Fetches /\ l.known \subseteq IdsOf(packs) /\ l.of = e
      /\ \A x \in l.orders : x.order # NoOrder
      /\ \A k \in packs : /\ q.kind = "locks" /\ e \in {k.shop, EveryShop} => k.id \in l.known
                          /\ q.kind = "orders" => \A x \in l.orders : x.email # k.shop
  BY <1>4, FetchTells
<1>50. ~l.after  BY DEF FetchNow
<1>6. s \in OfficePages /\ s.kind = q.kind /\ s.busy = q.busy /\ s.known = q.known
      /\ s.orders = q.orders /\ (s.mixed <=> (q.mixed \/ fetches[a] # {}))
  <2>1. (q.mixed \/ fetches[a] # {}) \in BOOLEAN  BY DEF OfficePages
  <2>2. s \in OfficePages  BY <2>1, OfficeRecords
  <2> QED  BY <2>2 DEF OfficePages
<1> HIDE DEF l, s
<1>7. PageOK({s}, L, G, packs)  BY <1>1, <1>5, <1>6 DEF PageOK
<1>8. OneAtATime({s}, L, G)  BY <1>1, <1>5, <1>50, <1>6 DEF OneAtATime, PageOK
<1>9. PageTells(a, {s}, L, G, packs)
  <2>1. s.mixed \/ L = {l}  BY <1>6
  <2>2. Tells(a, s.kind, l.of, l.known, l.orders, packs)  BY <1>5, <1>6 DEF Tells
  <2> QED  BY <2>1, <2>2, <1>1 DEF PageTells
<1> QED  BY <1>1, <1>2, <1>3, <1>7, <1>8, <1>9, GivingLocal

LEMMA GivingPagesStep ==
  ASSUME GivingInv, SignupInv, NEW a \in Offices,
         \/ OpenPage(a) \/ ClosePage(a) \/ ChooseShop(a) \/ TryAgain(a)
         \/ FetchLands(a) \/ FetchFails(a)
  PROVE  GivingInv'
<1> DEFINE O == office[a]
           L == fetches[a]
           G == giving[a]
<1>1. /\ PageOK(O, L, G, packs) /\ OneAtATime(O, L, G)
      /\ PageTells(a, O, L, G, packs) /\ Short(G, packs, money)
  BY DEF GivingInv
<1>2. /\ office = [office EXCEPT ![a] = O] /\ fetches = [fetches EXCEPT ![a] = L]
      /\ giving = [giving EXCEPT ![a] = G]
  BY GivingSame
<1>3. shops \subseteq ShopRows /\ {s.email : s \in shops} \subseteq Emails
  BY DEF SignupInv, ShopRows
<1>4. \A p \in O : p \in OfficePages /\ p.busy \in BOOLEAN  BY <1>1 DEF PageOK, OfficePages
<1>5. CASE OpenPage(a)
  <2>1. PICK list \in {"orders", "locks"}, e \in Emails \cup {EveryShop} :
          /\ office' = [office EXCEPT ![a] =
               {[kind |-> list, chosen |-> e, of |-> e, orders |-> {}, known |-> {},
                 mixed |-> FALSE, failed |-> FALSE, busy |-> FALSE]}]
          /\ fetches' = [fetches EXCEPT ![a] = {FetchNow(list, e, FALSE)}]
    BY <1>3, <1>5 DEF OpenPage
  <2> DEFINE p == [kind |-> list, chosen |-> e, of |-> e, orders |-> {}, known |-> {},
                   mixed |-> FALSE, failed |-> FALSE, busy |-> FALSE]
             l == FetchNow(list, e, FALSE)
  <2>2. p \in OfficePages /\ p.kind = list /\ p.orders = {} /\ p.known = {}  BY DEF OfficePages
  <2>3. /\ l \in Fetches /\ l.known \subseteq IdsOf(packs) /\ l.of = e
        /\ \A s \in l.orders : s.order # NoOrder
        /\ \A k \in packs : /\ list = "locks" /\ e \in {k.shop, EveryShop} => k.id \in l.known
                            /\ list = "orders" => \A s \in l.orders : s.email # k.shop
    BY <1>3, FetchTells, ZenonT(60)
  <2>30. ~l.after  BY DEF FetchNow
  <2>4. office' = [office EXCEPT ![a] = {p}] /\ fetches' = [fetches EXCEPT ![a] = {l}]  BY <2>1
  <2> HIDE DEF p, l
  <2>5. \A r \in G : ~r.own  BY <1>1, <1>5 DEF OneAtATime, OpenPage
  <2>6. PageOK({p}, {l}, G, packs)  BY <1>1, <2>2, <2>3 DEF PageOK
  <2>7. OneAtATime({p}, {l}, G)  BY <2>30, <2>5 DEF OneAtATime
  <2>8. Tells(a, p.kind, l.of, l.known, l.orders, packs)  BY <2>2, <2>3 DEF Tells
  <2>9. PageTells(a, {p}, {l}, G, packs)  BY <1>1, <2>8 DEF PageTells
  <2> QED  BY <1>1, <1>2, <1>5, <2>4, <2>6, <2>7, <2>9, GivingLocal DEF OpenPage
<1>6. CASE ClosePage(a)
  <2> DEFINE Q == {[r EXCEPT !.own = FALSE] : r \in G}
  <2>1. /\ office' = [office EXCEPT ![a] = {}] /\ fetches' = [fetches EXCEPT ![a] = {}]
        /\ giving' = [giving EXCEPT ![a] = Q] /\ UNCHANGED <<packs, money, blind>>
    BY <1>6 DEF ClosePage, GivingInv
  <2>2. \A q \in Q : /\ q \in Givings /\ ~q.own
                     /\ \E r \in G : /\ q.shop = r.shop /\ q.size = r.size /\ q.known = r.known
                                     /\ q.wrote = r.wrote
    <3> TAKE q \in Q
    <3>1. PICK r \in G : q = [r EXCEPT !.own = FALSE]  OBVIOUS
    <3>2. r \in Givings  BY <1>1 DEF PageOK
    <3>3. q \in Givings  BY <3>1, <3>2 DEF Givings
    <3> QED  BY <3>1, <3>2, <3>3 DEF Givings
  <2> HIDE DEF Q
  <2>3. PageOK({}, {}, Q, packs)
    <3>1. \A q \in Q : q.known \subseteq IdsOf(packs) /\ q.wrote \subseteq IdsOf(packs)
      BY <1>1, <2>2 DEF PageOK
    <3> QED  BY <2>2, <3>1 DEF PageOK
  <2>4. OneAtATime({}, {}, Q)  BY <2>2 DEF OneAtATime
  <2>5. PageTells(a, {}, {}, Q, packs)
    <3>1. \A q \in Q : \A k \in packs : k.id \in q.wrote => k.by = a
      BY <1>1, <2>2 DEF PageTells
    <3> QED  BY <2>2, <3>1 DEF PageTells
  <2>6. Short(Q, packs, money)
    <3> SUFFICES ASSUME NEW q \in Q, q.wrote = {}
                 PROVE Cardinality(PacksLike(packs, q.shop, q.size, q.known))
                         < Cardinality(MoneyLike(money, q.shop, q.size))
      BY DEF Short
    <3>1. PICK r \in G : q.shop = r.shop /\ q.size = r.size /\ q.known = r.known /\ q.wrote = r.wrote
      BY <2>2
    <3>2. Cardinality(PacksLike(packs, r.shop, r.size, r.known))
            < Cardinality(MoneyLike(money, r.shop, r.size))
      BY <1>1, <3>1 DEF Short
    <3> QED  BY <3>1, <3>2
  <2> QED  BY <2>1, <2>3, <2>4, <2>5, <2>6, GivingLocal
<1>7. CASE ChooseShop(a)
  <2>1. PICK p \in O, e \in Emails \cup {EveryShop} : Asks(a, [p EXCEPT !.chosen = e], e, FALSE)
    BY <1>3, <1>7 DEF ChooseShop
  <2> DEFINE q == [p EXCEPT !.chosen = e]
  <2>2. q \in OfficePages  BY <1>4, OfficeChooses
  <2>3. q.kind = p.kind /\ q.busy = p.busy /\ q.mixed = p.mixed /\ q.known = p.known /\ q.orders = p.orders
    BY <1>4 DEF OfficePages
  <2>4. Asks(a, q, e, FALSE)  BY <2>1
  <2> HIDE DEF q
  <2> QED  BY <1>3, <1>7, <2>2, <2>3, <2>4, GivingAsks DEF ChooseShop
<1>8. CASE TryAgain(a)
  BY <1>3, <1>4, <1>8, GivingAsks DEF TryAgain
<1>9. ASSUME NEW p \in O, NEW l \in L, NEW q \in OfficePages, q.kind = p.kind, q.mixed = p.mixed,
             q.busy <=> (p.busy /\ ~l.after), q.known \in {p.known, l.known}, q.orders \in {p.orders, l.orders},
             q.failed \/ (q.of = l.of /\ q.known = l.known /\ q.orders = l.orders),
             office' = [office EXCEPT ![a] = {q}], fetches' = [fetches EXCEPT ![a] = L \ {l}],
             UNCHANGED <<packs, money, giving, blind>>
      PROVE  GivingInv'
  <2>1. PageOK({q}, L \ {l}, G, packs)
    <3>1. q.known \subseteq IdsOf(packs) /\ \A s \in q.orders : s.order # NoOrder  BY <1>1, <1>9 DEF PageOK
    <3> QED  BY <3>1, <1>1 DEF PageOK
  <2>2. OneAtATime({q}, L \ {l}, G)
    <3>1. \A x \in O : x = p  BY <1>1 DEF PageOK
    <3>2. \A r \in G : r.own => q.busy  BY <1>1, <1>9, <3>1 DEF OneAtATime
    <3>3. \A m \in L \ {l} : m.after => q.busy  BY <1>1, <1>9, <3>1 DEF OneAtATime
    <3> QED  BY <1>1, <3>2, <3>3 DEF OneAtATime
  <2>3. PageTells(a, {q}, L \ {l}, G, packs)
    <3>1. CASE p.mixed  BY <3>1, <1>1, <1>9 DEF PageTells
    <3>2. CASE ~p.mixed
      <4>1. L \ {l} = {} /\ Tells(a, p.kind, l.of, l.known, l.orders, packs)  BY <3>2, <1>1 DEF PageTells
      <4>2. ~q.failed => Tells(a, q.kind, q.of, q.known, q.orders, packs)  BY <4>1, <1>9
      <4> QED  BY <4>1, <4>2, <1>1 DEF PageTells
    <3> QED  BY <3>1, <3>2
  <2> QED  BY <1>1, <1>2, <1>9, <2>1, <2>2, <2>3, GivingLocal
<1>10. CASE FetchLands(a)
  <2>1. PICK p \in O, l \in L :
          /\ office' = [office EXCEPT ![a] =
               {[p EXCEPT !.of = l.of, !.orders = l.orders, !.known = l.known, !.failed = FALSE,
                  !.busy = p.busy /\ ~l.after]}]
          /\ fetches' = [fetches EXCEPT ![a] = @ \ {l}]
    BY <1>10 DEF FetchLands
  <2> DEFINE q == [p EXCEPT !.of = l.of, !.orders = l.orders, !.known = l.known, !.failed = FALSE,
                     !.busy = p.busy /\ ~l.after]
  <2>2. l \in Fetches /\ (p.busy /\ ~l.after) \in BOOLEAN  BY <1>1, <1>4 DEF PageOK, Fetches
  <2>3. q \in OfficePages  BY <1>4, <2>2, OfficeShows
  <2>4. /\ q.kind = p.kind /\ q.mixed = p.mixed /\ (q.busy <=> (p.busy /\ ~l.after))
        /\ q.known = l.known /\ q.orders = l.orders /\ q.of = l.of
    BY <1>4, <2>3 DEF OfficePages
  <2>5. office' = [office EXCEPT ![a] = {q}] /\ fetches' = [fetches EXCEPT ![a] = L \ {l}]
    BY <2>1 DEF GivingInv
  <2> HIDE DEF q
  <2> QED  BY <1>9, <1>10, <2>3, <2>4, <2>5 DEF FetchLands
<1>11. CASE FetchFails(a)
  <2>1. PICK p \in O, l \in L :
          /\ office' = [office EXCEPT ![a] = {[p EXCEPT !.failed = TRUE, !.busy = p.busy /\ ~l.after]}]
          /\ fetches' = [fetches EXCEPT ![a] = @ \ {l}]
    BY <1>11 DEF FetchFails
  <2> DEFINE q == [p EXCEPT !.failed = TRUE, !.busy = p.busy /\ ~l.after]
  <2>2. l \in Fetches /\ (p.busy /\ ~l.after) \in BOOLEAN  BY <1>1, <1>4 DEF PageOK, Fetches
  <2>3. q \in OfficePages  BY <1>4, <2>2, OfficeRecords
  <2>4. /\ q.kind = p.kind /\ q.mixed = p.mixed /\ (q.busy <=> (p.busy /\ ~l.after))
        /\ q.known = p.known /\ q.orders = p.orders /\ q.failed
    BY <1>4, <2>3 DEF OfficePages
  <2>5. office' = [office EXCEPT ![a] = {q}] /\ fetches' = [fetches EXCEPT ![a] = L \ {l}]
    BY <2>1 DEF GivingInv
  <2> HIDE DEF q
  <2>6. UNCHANGED <<packs, money, giving, blind>>  BY <1>11 DEF FetchFails
  <2>7. q.known \in {p.known, l.known} /\ q.orders \in {p.orders, l.orders}  BY <2>4
  <2> QED  BY <1>9, <2>3, <2>4, <2>5, <2>6, <2>7
<1> QED  BY <1>5, <1>6, <1>7, <1>8, <1>10, <1>11

\* Nothing is given to a shop for which the page is up to date but what was
\* paid for and is not there.
LEMMA GivingPressed ==
  ASSUME GivingInv, NEW a \in Offices, NEW p \in office[a], NEW e \in Emails, NEW n \in PackSizes,
         \/ p.kind = "locks" /\ p.chosen = e
         \/ p.kind = "orders" /\ \E s \in p.orders : s.email = e,
         Gives(a, p, e, n)
  PROVE  GivingInv'
<1> DEFINE O == office[a]
           L == fetches[a]
           G == giving[a]
           q == [p EXCEPT !.busy = TRUE]
           r == [shop |-> e, size |-> n, known |-> p.known, sure |-> UpToDate(a, p), own |-> TRUE,
                 wrote |-> {}]
<1>1. /\ PageOK(O, L, G, packs) /\ OneAtATime(O, L, G)
      /\ PageTells(a, O, L, G, packs) /\ Short(G, packs, money)
  BY DEF GivingInv
<1>2. p \in OfficePages /\ \A x \in O : x = p  BY <1>1 DEF PageOK
<1>3. /\ q \in OfficePages /\ q.busy /\ q.kind = p.kind /\ q.known = p.known /\ q.orders = p.orders
      /\ q.of = p.of /\ q.mixed = p.mixed /\ q.failed = p.failed
  <2>1. q \in OfficePages  BY <1>2, OfficeRecords
  <2> QED  BY <1>2, <2>1 DEF OfficePages
<1>4. /\ r \in Givings /\ r.shop = e /\ r.size = n /\ r.known = p.known /\ r.own /\ r.wrote = {}
      /\ (r.sure <=> UpToDate(a, p))
  <2>1. p.known \in SUBSET PackIds  BY <1>2 DEF OfficePages
  <2>2. UpToDate(a, p) \in BOOLEAN  BY DEF UpToDate
  <2>3. {} \in SUBSET PackIds  OBVIOUS
  <2>4. r \in Givings  BY <2>1, <2>2, <2>3 DEF Givings
  <2> QED  BY <2>4
<1>5. /\ office' = [office EXCEPT ![a] = {q}] /\ giving' = [giving EXCEPT ![a] = G \cup {r}]
      /\ fetches' = [fetches EXCEPT ![a] = L] /\ UNCHANGED <<packs, money, blind>>
  BY GivingSame DEF Gives, GivingInv
<1>6. ~p.busy  BY DEF Gives
<1>7. (\A x \in G : ~x.own) /\ \A l \in L : ~l.after  BY <1>1, <1>2, <1>6 DEF OneAtATime
<1>8. r.sure => \A k \in packs : k.shop = e /\ k.by = a /\ k.told => k.id \in p.known
  <2> SUFFICES ASSUME UpToDate(a, p), NEW k \in packs, k.shop = e, k.by = a, k.told
               PROVE  k.id \in p.known
    BY <1>4
  <2>1. Tells(a, p.kind, p.of, p.known, p.orders, packs)  BY <1>1 DEF PageTells, UpToDate
  <2> QED  BY <2>1 DEF Tells, UpToDate
<1>9. Cardinality(PacksLike(packs, e, n, p.known))
        < Cardinality(MoneyLike(money, e, n))
  <2>1. PacksLike(packs, e, n, p.known)
          = {k \in PacksGiven(e, n) : k.id \in p.known}
    BY DEF PacksGiven, PacksLike
  <2>2. MoneyLike(money, e, n) = PaidFor(e, n)  BY DEF MoneyLike, PaidFor
  <2> QED  BY <2>1, <2>2 DEF Gives
<1> HIDE DEF q, r
<1>10. PageOK({q}, L, G \cup {r}, packs)  BY <1>1, <1>2, <1>3, <1>4 DEF PageOK
<1>11. OneAtATime({q}, L, G \cup {r})  BY <1>3, <1>7 DEF OneAtATime
<1>12. PageTells(a, {q}, L, G \cup {r}, packs)
  <2>1. \A x \in {q} : ~x.mixed =>
          /\ \A l, m \in L : l = m
          /\ \A l \in L : Tells(a, x.kind, l.of, l.known, l.orders, packs)
          /\ ~x.failed /\ L = {} => Tells(a, x.kind, x.of, x.known, x.orders, packs)
    BY <1>1, <1>3 DEF PageTells
  <2>2. \A x \in G \cup {r} :
          /\ x.own /\ x.sure /\ x.wrote = {} =>
               \A k \in packs : k.shop = x.shop /\ k.by = a /\ k.told => k.id \in x.known
          /\ \A k \in packs : k.id \in x.wrote => k.by = a
    BY <1>1, <1>4, <1>8 DEF PageTells
  <2> QED  BY <2>1, <2>2 DEF PageTells
<1>13. Short(G \cup {r}, packs, money)  BY <1>1, <1>4, <1>9 DEF Short
<1> QED  BY <1>5, <1>10, <1>11, <1>12, <1>13, GivingLocal

LEMMA GivingPressStep ==
  ASSUME GivingInv, NEW a \in Offices, GiveOrder(a) \/ GivePack(a)
  PROVE  GivingInv'
<1>1. PageOK(office[a], fetches[a], giving[a], packs)  BY DEF GivingInv
<1>2. CASE GiveOrder(a)
  <2>0. PICK p \in office[a] : p.kind = "orders" /\ \E s \in p.orders : Gives(a, p, s.email, s.order)
    BY <1>2 DEF GiveOrder
  <2>1. PICK s \in p.orders : Gives(a, p, s.email, s.order)  BY <2>0
  <2>2. s \in ShopRows /\ s.order # NoOrder  BY <1>1 DEF PageOK, OfficePages
  <2>3. s.email \in Emails /\ s.order \in PackSizes  BY <2>2 DEF ShopRows
  <2> QED  BY <2>0, <2>1, <2>3, GivingPressed
<1>3. CASE GivePack(a)
  <2>1. PICK p \in office[a], n \in PackSizes :
          p.kind = "locks" /\ p.chosen # EveryShop /\ Gives(a, p, p.chosen, n)
    BY <1>3 DEF GivePack
  <2>2. p.chosen \in Emails  BY <1>1, <2>1 DEF PageOK, OfficePages
  <2> QED  BY <2>1, <2>2, GivingPressed
<1> QED  BY <1>2, <1>3

\* A request that is over, or the page's no more.
LEMMA GivingLeft ==
  ASSUME GivingInv, NEW a \in Offices, NEW r \in giving[a], NEW G,
         giving' = [giving EXCEPT ![a] = G], G \subseteq Givings,
         \A q \in G : \/ q \in giving[a] /\ q # r
                      \/ /\ ~q.own /\ q.shop = r.shop /\ q.size = r.size /\ q.known = r.known
                         /\ q.wrote = r.wrote,
         Freed(a, r), UNCHANGED <<packs, money, fetches, blind>>
  PROVE  GivingInv'
<1> DEFINE O == office[a]
           L == fetches[a]
           R == giving[a]
           P == IF r.own THEN {[p EXCEPT !.busy = FALSE] : p \in O} ELSE O
<1>1. /\ PageOK(O, L, R, packs) /\ OneAtATime(O, L, R)
      /\ PageTells(a, O, L, R, packs) /\ Short(R, packs, money)
  BY DEF GivingInv
<1>2. /\ office' = [office EXCEPT ![a] = P] /\ fetches' = [fetches EXCEPT ![a] = L]
  BY GivingSame DEF Freed, GivingInv
<1>3. \A p \in O : p \in OfficePages  BY <1>1 DEF PageOK
<1>4. \A q \in P : /\ q \in OfficePages
                   /\ \E p \in O : /\ q.kind = p.kind /\ q.known = p.known /\ q.orders = p.orders
                                   /\ q.of = p.of /\ q.mixed = p.mixed /\ q.failed = p.failed
  <2> TAKE q \in P
  <2>1. CASE r.own
    <3>1. PICK p \in O : q = [p EXCEPT !.busy = FALSE]  BY <2>1
    <3>2. q \in OfficePages  BY <1>3, <3>1, OfficeRecords
    <3>3. /\ q.kind = p.kind /\ q.known = p.known /\ q.orders = p.orders
          /\ q.of = p.of /\ q.mixed = p.mixed /\ q.failed = p.failed
      BY <1>3, <3>1 DEF OfficePages
    <3> QED  BY <3>2, <3>3
  <2>2. CASE ~r.own  BY <1>3, <2>2
  <2> QED  BY <2>1, <2>2
<1>5. \A p, q \in P : p = q  BY <1>1 DEF PageOK
<1>6. r.own \/ P = O  OBVIOUS
<1> HIDE DEF P
<1>7. PageOK(P, L, G, packs)
  <2>1. \A q \in G : q.known \subseteq IdsOf(packs) /\ q.wrote \subseteq IdsOf(packs)  BY <1>1 DEF PageOK
  <2>2. \A q \in P : q.known \subseteq IdsOf(packs) /\ \A s \in q.orders : s.order # NoOrder
    BY <1>1, <1>4 DEF PageOK
  <2> QED  BY <1>1, <1>4, <1>5, <2>1, <2>2 DEF PageOK
<1>8. OneAtATime(P, L, G)
  <2>1. CASE r.own
    <3>1. (\A q \in G : ~q.own) /\ \A l \in L : ~l.after  BY <2>1, <1>1 DEF OneAtATime
    <3> QED  BY <3>1 DEF OneAtATime
  <2>2. CASE ~r.own  BY <2>2, <1>1, <1>6 DEF OneAtATime
  <2> QED  BY <2>1, <2>2
<1>9. PageTells(a, P, L, G, packs)
  <2>1. \A x \in P : ~x.mixed =>
          /\ \A l, m \in L : l = m
          /\ \A l \in L : Tells(a, x.kind, l.of, l.known, l.orders, packs)
          /\ ~x.failed /\ L = {} => Tells(a, x.kind, x.of, x.known, x.orders, packs)
    <3> TAKE x \in P
    <3>1. PICK p \in O : /\ x.kind = p.kind /\ x.known = p.known /\ x.orders = p.orders
                         /\ x.of = p.of /\ x.mixed = p.mixed /\ x.failed = p.failed
      BY <1>4
    <3> QED  BY <3>1, <1>1 DEF PageTells
  <2>2. \A x \in G :
          /\ x.own /\ x.sure /\ x.wrote = {} =>
               \A k \in packs : k.shop = x.shop /\ k.by = a /\ k.told => k.id \in x.known
          /\ \A k \in packs : k.id \in x.wrote => k.by = a
    BY <1>1 DEF PageTells
  <2> QED  BY <2>1, <2>2 DEF PageTells
<1>10. Short(G, packs, money)
  <2> SUFFICES ASSUME NEW q \in G, q.wrote = {}
               PROVE Cardinality(PacksLike(packs, q.shop, q.size, q.known))
                       < Cardinality(MoneyLike(money, q.shop, q.size))
    BY DEF Short
  <2>1. PICK x \in R : q.shop = x.shop /\ q.size = x.size /\ q.known = x.known /\ q.wrote = x.wrote
    OBVIOUS
  <2>2. Cardinality(PacksLike(packs, x.shop, x.size, x.known))
          < Cardinality(MoneyLike(money, x.shop, x.size))
    BY <1>1, <2>1 DEF Short
  <2> QED  BY <2>1, <2>2
<1> QED  BY <1>2, <1>7, <1>8, <1>9, <1>10, GivingLocal

LEMMA GivingFailsStep ==
  ASSUME GivingInv, NEW a \in Offices,
         GiveFails(a) \/ GiveGivenUp(a)
  PROVE  GivingInv'
<1>1. \A r \in giving[a] : r \in Givings  BY DEF GivingInv, PageOK
<1>2. CASE GiveFails(a)
  <2>1. PICK r \in giving[a] : giving' = [giving EXCEPT ![a] = @ \ {r}] /\ Freed(a, r)
    BY <1>2 DEF GiveFails
  <2> DEFINE G == giving[a] \ {r}
  <2>2. giving' = [giving EXCEPT ![a] = G]  BY <2>1 DEF GivingInv
  <2>3. G \subseteq Givings /\ \A q \in G : q \in giving[a] /\ q # r  BY <1>1
  <2>4. UNCHANGED <<packs, money, fetches, blind>>  BY <1>2 DEF GiveFails
  <2> HIDE DEF G
  <2> QED  BY <2>1, <2>2, <2>3, <2>4, GivingLeft
<1>3. CASE GiveGivenUp(a)
  <2>1. PICK r \in giving[a] :
          giving' = [giving EXCEPT ![a] = (@ \ {r}) \cup {[r EXCEPT !.own = FALSE]}] /\ Freed(a, r)
    BY <1>3 DEF GiveGivenUp
  <2> DEFINE q == [r EXCEPT !.own = FALSE]
             G == (giving[a] \ {r}) \cup {q}
  <2>2. giving' = [giving EXCEPT ![a] = G]  BY <2>1 DEF GivingInv
  <2>3. q \in Givings
    BY <1>1 DEF Givings
  <2>4. ~q.own /\ q.shop = r.shop /\ q.size = r.size /\ q.known = r.known /\ q.wrote = r.wrote
    BY <1>1 DEF Givings
  <2> HIDE DEF q
  <2>5. /\ G \subseteq Givings
        /\ \A x \in G : \/ x \in giving[a] /\ x # r
                        \/ /\ ~x.own /\ x.shop = r.shop /\ x.size = r.size /\ x.known = r.known
                           /\ x.wrote = r.wrote
    BY <1>1, <2>3, <2>4
  <2>6. UNCHANGED <<packs, money, fetches, blind>>  BY <1>3 DEF GiveGivenUp
  <2> HIDE DEF G
  <2> QED  BY <2>1, <2>2, <2>5, <2>6, GivingLeft
<1> QED  BY <1>2, <1>3

-----------------------------------------------------------------------------
\* What the packs are once a page was told of some: themselves.
Told(wrote, k) == IF k.id \in wrote THEN [k EXCEPT !.told = TRUE] ELSE k

AllTold(T, K, wrote) ==
  (\A t \in T : \E k \in K : t = Told(wrote, k)) /\ \A k \in K : Told(wrote, k) \in T

\* What is the same of them.
Retold(T, K, wrote) ==
  /\ T \subseteq PackRows /\ IsFiniteSet(T) /\ IdsOf(T) = IdsOf(K)
  /\ \A t, u \in T : t.id = u.id => t = u
  /\ \A t \in T : \E k \in K : /\ t.id = k.id /\ t.shop = k.shop /\ t.size = k.size /\ t.by = k.by
                               /\ t.told => k.told \/ k.id \in wrote
  /\ \A k \in K : \E t \in T : t.shop = k.shop

LEMMA PacksTold ==
  ASSUME NEW K, K \subseteq PackRows, IsFiniteSet(K), NEW wrote, NEW T,
         AllTold(T, K, wrote), \A k, l \in K : k.id = l.id => k = l
  PROVE  Retold(T, K, wrote)
<1> USE DEF AllTold
<1>1. \A k \in K : LET t == Told(wrote, k)
                   IN  /\ t \in PackRows /\ t.id = k.id /\ t.shop = k.shop /\ t.size = k.size /\ t.by = k.by
                       /\ t.told => k.told \/ k.id \in wrote
  <2> TAKE k \in K
  <2>1. [k EXCEPT !.told = TRUE] \in PackRows  BY DEF PackRows
  <2>2. CASE k.id \in wrote  BY <2>1, <2>2 DEF PackRows, Told
  <2>3. CASE k.id \notin wrote  BY <2>3 DEF Told
  <2> QED  BY <2>2, <2>3
<1> DEFINE f == [k \in K |-> Told(wrote, k)]
<1>2. f \in [K -> T] /\ \A t \in T : \E k \in K : f[k] = t  OBVIOUS
<1>3. f \in Surjection(K, T)  BY <1>2, Fun_IsSurj
<1>4. IsFiniteSet(T)  BY <1>3, FS_Surjection
<1>5. IdsOf(T) = IdsOf(K)
  <2>1. \A x \in IdsOf(T) : x \in IdsOf(K)
    <3> SUFFICES ASSUME NEW t \in T PROVE t.id \in IdsOf(K)  BY DEF IdsOf
    <3>1. PICK k \in K : t = Told(wrote, k)  OBVIOUS
    <3> QED  BY <3>1, <1>1 DEF IdsOf
  <2>2. \A x \in IdsOf(K) : x \in IdsOf(T)
    <3> SUFFICES ASSUME NEW k \in K PROVE k.id \in IdsOf(T)  BY DEF IdsOf
    <3>1. Told(wrote, k) \in T /\ Told(wrote, k).id = k.id  BY <1>1
    <3> QED  BY <3>1 DEF IdsOf
  <2> QED  BY <2>1, <2>2
<1> HIDE DEF f
<1>8. \A t, u \in T : t.id = u.id => t = u  BY <1>1
<1>9. \A t \in T : \E k \in K : /\ t.id = k.id /\ t.shop = k.shop /\ t.size = k.size /\ t.by = k.by
                                /\ t.told => k.told \/ k.id \in wrote
  BY <1>1
<1> QED  BY <1>1, <1>4, <1>5, <1>8, <1>9 DEF Retold

\* And there are no more of them of any kind.
LEMMA PacksToldCount ==
  ASSUME NEW K, K \subseteq PackRows, IsFiniteSet(K), NEW wrote, NEW e, NEW n, NEW X,
         NEW T, AllTold(T, K, wrote)
  PROVE  Cardinality(PacksLike(T, e, n, X))
           <= Cardinality(PacksLike(K, e, n, X))
<1> DEFINE S == PacksLike(K, e, n, X)
           U == PacksLike(T, e, n, X)
           f == [k \in S |-> Told(wrote, k)]
<1>1. \A k \in K : LET t == Told(wrote, k) IN t.id = k.id /\ t.shop = k.shop /\ t.size = k.size
  BY DEF Told, PackRows
<1>2. \A t \in U : \E k \in S : t = Told(wrote, k)  BY <1>1 DEF PacksLike, AllTold
<1>3. \A k \in S : Told(wrote, k) \in U  BY <1>1 DEF PacksLike, AllTold
<1> HIDE DEF S, U
<1>4. f \in [S -> U] /\ \A t \in U : \E k \in S : f[k] = t  BY <1>2, <1>3
<1>5. f \in Surjection(S, U)  BY <1>4, Fun_IsSurj
<1>6. IsFiniteSet(S)  BY FS_Subset DEF S, PacksLike
<1>7. Cardinality(U) <= Cardinality(S)  BY <1>5, <1>6, FS_Surjection
<1> QED  BY <1>7 DEF S, U

LEMMA GivingAnswerStep ==
  ASSUME GivingInv, SignupInv, NEW a \in Offices, GiveAnswered(a)
  PROVE  GivingInv' /\ SignupInv'
<1>1. PICK r \in giving[a] :
        /\ r.wrote # {}
        /\ giving' = [giving EXCEPT ![a] = @ \ {r}]
        /\ IF r.own
             THEN /\ \E p \in office[a] : LoadAgain(a, p, IF p.kind = "orders" THEN EveryShop ELSE r.shop)
                  /\ packs' = {IF k.id \in r.wrote THEN [k EXCEPT !.told = TRUE] ELSE k : k \in packs}
             ELSE UNCHANGED <<office, fetches, packs>>
  BY DEF GiveAnswered
<1> DEFINE O == office[a]
           L == fetches[a]
           R == giving[a]
           G == R \ {r}
<1>2. giving' = [giving EXCEPT ![a] = G] /\ UNCHANGED <<SignupVars, money, blind>>
  BY <1>1 DEF GivingInv, GiveAnswered
<1>3. /\ PageOK(O, L, R, packs) /\ OneAtATime(O, L, R)
      /\ PageTells(a, O, L, R, packs) /\ Short(R, packs, money)
  BY DEF GivingInv
<1>4. r \in Givings /\ G \subseteq Givings  BY <1>3 DEF PageOK
<1>5. CASE ~r.own
  <2>1. UNCHANGED <<office, fetches, packs>>  BY <1>1, <1>5
  <2>2. office' = [office EXCEPT ![a] = O] /\ fetches' = [fetches EXCEPT ![a] = L]  BY <2>1, GivingSame
  <2>3. PageOK(O, L, G, packs)  BY <1>3, <1>4 DEF PageOK
  <2>4. OneAtATime(O, L, G)  BY <1>3, <1>4 DEF OneAtATime
  <2>5. PageTells(a, O, L, G, packs)  BY <1>3, <1>4 DEF PageTells
  <2>6. Short(G, packs, money)  BY <1>3, <1>4 DEF Short
  <2>7. GivingInv'  BY <1>2, <2>1, <2>2, <2>3, <2>4, <2>5, <2>6, GivingLocal
  <2>8. SignupInv'
    BY <1>2, <2>1 DEF SignupVars, SignupInv, OneShopEach, OrdersWait
  <2> QED  BY <2>7, <2>8
<1>6. CASE r.own
  <2>0. PICK p \in O : LoadAgain(a, p, IF p.kind = "orders" THEN EveryShop ELSE r.shop)  BY <1>1, <1>6
  <2>1. PICK e \in Emails \cup {EveryShop} : LoadAgain(a, p, e)
    <3>1. r.shop \in Emails  BY <1>4 DEF Givings
    <3> QED  BY <2>0, <3>1
  <2> DEFINE l == FetchNow(p.kind, e, TRUE)
             q == [p EXCEPT !.mixed = p.mixed \/ L # {}]
             K == packs'
  <2>2. p \in OfficePages /\ \A x \in O : x = p  BY <1>3 DEF PageOK
  <2>3. p.kind \in {"orders", "locks"}  BY <2>2 DEF OfficePages
  <2>4. /\ l \in Fetches /\ l.known \subseteq IdsOf(packs) /\ l.of = e
        /\ \A s \in l.orders : s.order # NoOrder
        /\ \A k \in packs : /\ p.kind = "locks" /\ e \in {k.shop, EveryShop} => k.id \in l.known
                            /\ p.kind = "orders" => \A s \in l.orders : s.email # k.shop
    <3>1. shops \subseteq ShopRows  BY DEF SignupInv
    <3> QED  BY <2>3, <3>1, FetchTells, ZenonT(60)
  <2>40. l.after  BY DEF FetchNow
  <2>5. /\ q \in OfficePages /\ q.kind = p.kind /\ q.busy = p.busy /\ q.known = p.known
        /\ q.orders = p.orders /\ (q.mixed <=> (p.mixed \/ L # {}))
    <3>1. (p.mixed \/ L # {}) \in BOOLEAN  BY <2>2 DEF OfficePages
    <3>2. q \in OfficePages  BY <2>2, <3>1, OfficeRecords
    <3> QED  BY <2>2, <3>2 DEF OfficePages
  <2>6. office' = [office EXCEPT ![a] = {q}] /\ fetches' = [fetches EXCEPT ![a] = L \cup {l}]
    BY <2>1 DEF LoadAgain, Asks, GivingInv
  <2>7. AllTold(K, packs, r.wrote)  BY <1>1, <1>6 DEF AllTold, Told
  <2>8. packs \subseteq PackRows /\ IsFiniteSet(packs) /\ \A k, m \in packs : k.id = m.id => k = m
    BY DEF GivingInv
  <2> HIDE DEF l, q, K
  <2>9. /\ K \subseteq PackRows /\ IsFiniteSet(K) /\ IdsOf(K) = IdsOf(packs)
        /\ \A t, u \in K : t.id = u.id => t = u
        /\ \A t \in K : \E k \in packs : /\ t.id = k.id /\ t.shop = k.shop /\ t.size = k.size /\ t.by = k.by
                                         /\ t.told => k.told \/ k.id \in r.wrote
        /\ \A k \in packs : \E t \in K : t.shop = k.shop
    <3>1. Retold(K, packs, r.wrote)  BY <2>7, <2>8, PacksTold
    <3> QED  BY <3>1 DEF Retold
  <2>10. ASSUME NEW x, NEW n, NEW X
         PROVE  Cardinality(PacksLike(K, x, n, X))
                  <= Cardinality(PacksLike(packs, x, n, X))
    BY <2>7, <2>8, PacksToldCount
  <2>11. \A k \in packs : k.id \in r.wrote => k.by = a  BY <1>3 DEF PageTells
  <2>12. \A x \in G : ~x.own  BY <1>3, <1>6 DEF OneAtATime
  <2>13. (\A m \in L : ~m.after) /\ p.busy  BY <1>3, <1>6, <2>2 DEF OneAtATime
  <2>14. \A b \in Offices :
          /\ office'[b] = IF b = a THEN {q} ELSE office[b]
          /\ fetches'[b] = IF b = a THEN L \cup {l} ELSE fetches[b]
          /\ giving'[b] = IF b = a THEN G ELSE giving[b]
    BY <1>2, <2>6 DEF GivingInv
  <2>15. \A b \in Offices : Short(giving'[b], K, money)
    <3> SUFFICES ASSUME NEW b \in Offices, NEW x \in giving[b], x.wrote = {}
                 PROVE Cardinality(PacksLike(K, x.shop, x.size, x.known))
                         < Cardinality(MoneyLike(money, x.shop, x.size))
      BY <2>14 DEF Short
    <3> DEFINE A == PacksLike(K, x.shop, x.size, x.known)
               B == PacksLike(packs, x.shop, x.size, x.known)
               C == MoneyLike(money, x.shop, x.size)
    <3>1. Cardinality(A) <= Cardinality(B)  BY <2>10
    <3>2. Cardinality(B) < Cardinality(C)  BY DEF GivingInv, Short
    <3>3. IsFiniteSet(A) /\ IsFiniteSet(B) /\ IsFiniteSet(C)  BY <2>8, <2>9, FS_Subset DEF GivingInv, PacksLike, MoneyLike
    <3>4. Cardinality(A) \in Nat /\ Cardinality(B) \in Nat /\ Cardinality(C) \in Nat
      BY <3>3, FS_CardinalityType
    <3> HIDE DEF A, B, C
    <3>5. Cardinality(A) < Cardinality(C)  BY <3>1, <3>2, <3>4
    <3> QED  BY <3>5 DEF A, C
  <2>16. PageOK({q}, L \cup {l}, G, K) /\ OneAtATime({q}, L \cup {l}, G)
    <3>1. PageOK({q}, L \cup {l}, G, K)  BY <1>3, <1>4, <2>4, <2>5, <2>9 DEF PageOK
    <3>2. OneAtATime({q}, L \cup {l}, G)  BY <2>40, <2>5, <2>12, <2>13 DEF OneAtATime
    <3> QED  BY <3>1, <3>2
  <2>17. PageTells(a, {q}, L \cup {l}, G, K)
    <3>1. Tells(a, q.kind, l.of, l.known, l.orders, K)
      <4> SUFFICES ASSUME NEW t \in K
                   PROVE  /\ q.kind = "locks" /\ l.of \in {t.shop, EveryShop} => t.id \in l.known
                          /\ q.kind = "orders" => \A s \in l.orders : s.email # t.shop
        BY DEF Tells
      <4>1. PICK k \in packs : t.id = k.id /\ t.shop = k.shop  BY <2>9
      <4> QED  BY <4>1, <2>4, <2>5
    <3>2. q.mixed \/ L \cup {l} = {l}  BY <2>5
    <3>3. \A x \in G : \A t \in K : t.id \in x.wrote => t.by = a
      <4> TAKE x \in G
      <4> TAKE t \in K
      <4>1. PICK k \in packs : t.id = k.id /\ t.by = k.by  BY <2>9
      <4> QED  BY <4>1, <1>3 DEF PageTells
    <3> QED  BY <3>1, <3>2, <3>3, <2>12 DEF PageTells
  <2>18. ASSUME NEW b \in Offices, b # a
         PROVE  PageOK(office[b], fetches[b], giving[b], K) /\ PageTells(b, office[b], fetches[b], giving[b], K)
    <3>1. PageOK(office[b], fetches[b], giving[b], packs) /\ PageTells(b, office[b], fetches[b], giving[b], packs)
      BY DEF GivingInv
    <3>2. PageOK(office[b], fetches[b], giving[b], K)  BY <3>1, <2>9 DEF PageOK
    <3>3. \A t \in K : \E k \in packs : /\ t.id = k.id /\ t.shop = k.shop /\ t.by = k.by
                                        /\ t.by = b /\ t.told => k.told
      BY <2>9, <2>11, <2>18
    <3>4. \A list, of, known, orders :
            Tells(b, list, of, known, orders, packs) => Tells(b, list, of, known, orders, K)
      <4> SUFFICES ASSUME NEW list, NEW of, NEW known, NEW orders, Tells(b, list, of, known, orders, packs),
                          NEW t \in K, t.by = b, t.told
                   PROVE  /\ list = "locks" /\ of \in {t.shop, EveryShop} => t.id \in known
                          /\ list = "orders" => \A s \in orders : s.email # t.shop
        BY DEF Tells
      <4>1. PICK k \in packs : t.id = k.id /\ t.shop = k.shop /\ t.by = k.by /\ k.told  BY <3>3
      <4> QED  BY <4>1 DEF Tells
    <3>5. \A x \in giving[b] :
            /\ x.own /\ x.sure /\ x.wrote = {} =>
                 \A t \in K : t.shop = x.shop /\ t.by = b /\ t.told => t.id \in x.known
            /\ \A t \in K : t.id \in x.wrote => t.by = b
      <4> TAKE x \in giving[b]
      <4>1. /\ x.own /\ x.sure /\ x.wrote = {} =>
                 \A k \in packs : k.shop = x.shop /\ k.by = b /\ k.told => k.id \in x.known
            /\ \A k \in packs : k.id \in x.wrote => k.by = b
        BY <3>1 DEF PageTells
      <4> QED  BY <4>1, <3>3
    <3>6. PageTells(b, office[b], fetches[b], giving[b], K)  BY <3>1, <3>4, <3>5 DEF PageTells
    <3> QED  BY <3>2, <3>6
  <2>19. \A b \in Offices :
          /\ PageOK(office'[b], fetches'[b], giving'[b], K)
          /\ OneAtATime(office'[b], fetches'[b], giving'[b])
          /\ PageTells(b, office'[b], fetches'[b], giving'[b], K)
          /\ Short(giving'[b], K, money')
    <3> TAKE b \in Offices
    <3>1. Short(giving'[b], K, money')  BY <1>2, <2>15
    <3>2. CASE b = a  BY <3>1, <3>2, <2>14, <2>16, <2>17
    <3>3. CASE b # a
      <4>1. OneAtATime(office[b], fetches[b], giving[b])  BY DEF GivingInv
      <4>2. UNCHANGED <<office[b], fetches[b], giving[b]>>  BY <3>3, <2>14
      <4> QED  BY <3>1, <3>3, <4>1, <4>2, <2>18
    <3> QED  BY <3>2, <3>3
  <2>20. GivenOnce'
    <3> SUFFICES ASSUME NEW x \in Emails \ blind, NEW n \in PackSizes
                 PROVE  Cardinality({k \in K : k.shop = x /\ k.size = n})
                          <= Cardinality(MoneyLike(money, x, n))
      BY <1>2 DEF GivenOnce, PacksGiven, PaidFor, K, MoneyLike
    <3> DEFINE A == {k \in K : k.shop = x /\ k.size = n}
               B == {k \in packs : k.shop = x /\ k.size = n}
               C == MoneyLike(money, x, n)
    <3>1. A = PacksLike(K, x, n, PackIds)  BY <2>9 DEF PackRows, PacksLike
    <3>2. B = PacksLike(packs, x, n, PackIds)  BY <2>8 DEF PackRows, PacksLike
    <3>3. Cardinality(A) <= Cardinality(B)  BY <3>1, <3>2, <2>10
    <3>4. Cardinality(B) <= Cardinality(C)  BY DEF GivingInv, GivenOnce, PacksGiven, PaidFor, MoneyLike
    <3>5. IsFiniteSet(A) /\ IsFiniteSet(B) /\ IsFiniteSet(C)  BY <2>8, <2>9, FS_Subset DEF GivingInv, MoneyLike
    <3>6. Cardinality(A) \in Nat /\ Cardinality(B) \in Nat /\ Cardinality(C) \in Nat
      BY <3>5, FS_CardinalityType
    <3> HIDE DEF A, B, C
    <3>7. Cardinality(A) <= Cardinality(C)  BY <3>3, <3>4, <3>6
    <3> QED  BY <3>7 DEF A, C
  <2>21. /\ office' = [b \in Offices |-> office'[b]] /\ fetches' = [b \in Offices |-> fetches'[b]]
         /\ giving' = [b \in Offices |-> giving'[b]]
    BY <1>2, <2>6 DEF GivingInv
  <2>22. GivingInv'
    <3>1. packs' \subseteq PackRows /\ IsFiniteSet(packs') /\ \A k, m \in packs' : k.id = m.id => k = m
      BY <2>9 DEF K
    <3>2. \A b \in Offices :
            /\ PageOK(office'[b], fetches'[b], giving'[b], packs')
            /\ OneAtATime(office'[b], fetches'[b], giving'[b])
            /\ PageTells(b, office'[b], fetches'[b], giving'[b], packs')
            /\ Short(giving'[b], packs', money')
      BY <2>19 DEF K
    <3> QED  BY <1>2, <2>20, <2>21, <3>1, <3>2 DEF GivingInv
  <2>23. OrdersWait'
    <3> SUFFICES ASSUME NEW s \in shops, s.order = NoOrder PROVE \E t \in packs' : t.shop = s.email
      BY <1>2 DEF OrdersWait, SignupVars
    <3>1. PICK k \in packs : k.shop = s.email  BY DEF SignupInv, OrdersWait
    <3> QED  BY <3>1, <2>9 DEF K
  <2>24. SignupInv'
    BY <1>2, <2>23 DEF SignupVars, SignupInv, OneShopEach
  <2> QED  BY <2>22, <2>24
<1> QED  BY <1>5, <1>6

-----------------------------------------------------------------------------
\* One pack more, of which nobody was told, changes nothing at a page.
LEMMA PackAdded ==
  ASSUME NEW b, NEW O, NEW L, NEW G, NEW K, NEW M, NEW k0 \in PackRows, ~k0.told, k0.id \notin IdsOf(K),
         PageOK(O, L, G, K), PageTells(b, O, L, G, K), Short(G, K, M)
  PROVE  LET T == K \cup {k0} IN PageOK(O, L, G, T) /\ PageTells(b, O, L, G, T) /\ Short(G, T, M)
<1> DEFINE T == K \cup {k0}
<1>1. IdsOf(K) \subseteq IdsOf(T)  BY DEF IdsOf
<1>2. PageOK(O, L, G, T)  BY <1>1 DEF PageOK
<1>3. \A list, of, known, orders :
        Tells(b, list, of, known, orders, K) => Tells(b, list, of, known, orders, T)
  BY DEF Tells
<1>4. \A r \in G : k0.id \notin r.wrote /\ k0.id \notin r.known  BY DEF PageOK
<1>5. PageTells(b, O, L, G, T)
  <2>1. \A p \in O : ~p.mixed =>
          /\ \A l, m \in L : l = m
          /\ \A l \in L : Tells(b, p.kind, l.of, l.known, l.orders, T)
          /\ ~p.failed /\ L = {} => Tells(b, p.kind, p.of, p.known, p.orders, T)
    BY <1>3 DEF PageTells
  <2>2. \A r \in G :
          /\ r.own /\ r.sure /\ r.wrote = {} =>
               \A k \in T : k.shop = r.shop /\ k.by = b /\ k.told => k.id \in r.known
          /\ \A k \in T : k.id \in r.wrote => k.by = b
    BY <1>4 DEF PageTells
  <2> QED  BY <2>1, <2>2 DEF PageTells
<1>6. \A r \in G : PacksLike(T, r.shop, r.size, r.known) = PacksLike(K, r.shop, r.size, r.known)
  BY <1>4 DEF PacksLike
<1>7. Short(G, T, M)  BY <1>6 DEF Short
<1> QED  BY <1>2, <1>5, <1>7

LEMMA GivingGivenStep ==
  ASSUME GivingInv, NEW a \in Offices, PackGiven(a)
  PROVE  GivingInv'
<1>1. PICK r \in giving[a], i \in PackIds :
        LET unknown == {k \in packs : k.shop = r.shop /\ k.id \notin r.known} IN
        /\ r.wrote = {} /\ \A k \in packs : k.id # i
        /\ packs' = packs \cup {[id |-> i, shop |-> r.shop, size |-> r.size, by |-> a, told |-> FALSE]}
        /\ giving' = [giving EXCEPT ![a] = (@ \ {r}) \cup {[r EXCEPT !.wrote = {i}]}]
        /\ blind' = IF unknown # {} /\ (~r.sure \/ ~r.own \/ \E k \in unknown : k.by # a \/ ~k.told)
                      THEN blind \cup {r.shop} ELSE blind
  BY DEF PackGiven
<1>2. UNCHANGED <<money, office, fetches>>  BY DEF PackGiven
<1> DEFINE O == office[a]
           L == fetches[a]
           R == giving[a]
           k0 == [id |-> i, shop |-> r.shop, size |-> r.size, by |-> a, told |-> FALSE]
           q == [r EXCEPT !.wrote = {i}]
           G == (R \ {r}) \cup {q}
           unknown == {k \in packs : k.shop = r.shop /\ k.id \notin r.known}
<1>3. /\ PageOK(O, L, R, packs) /\ OneAtATime(O, L, R)
      /\ PageTells(a, O, L, R, packs) /\ Short(R, packs, money)
  BY DEF GivingInv
<1>4. r \in Givings /\ r.shop \in Emails /\ r.size \in PackSizes  BY <1>3 DEF PageOK, Givings
<1>5. /\ k0 \in PackRows /\ ~k0.told /\ k0.id = i /\ k0.shop = r.shop /\ k0.size = r.size /\ k0.by = a
  BY <1>4 DEF PackRows
<1>6. /\ q \in Givings /\ q.wrote = {i} /\ q.own = r.own /\ q.known = r.known
  BY <1>4 DEF Givings
<1>7. packs' = packs \cup {k0}  BY <1>1
<1>8. giving' = [giving EXCEPT ![a] = G]  BY <1>1 DEF GivingInv
<1>9. i \notin IdsOf(packs) /\ k0 \notin packs  BY <1>1, <1>5 DEF IdsOf
<1>10. unknown # {} /\ (~r.sure \/ ~r.own \/ \E k \in unknown : k.by # a \/ ~k.told) => r.shop \in blind'
  BY <1>1
<1>11. blind \subseteq blind' /\ blind' \subseteq Emails  BY <1>1, <1>4 DEF GivingInv
<1> HIDE DEF k0, q
<1>12. \A b \in Offices :
         /\ PageOK(office[b], fetches[b], giving[b], packs')
         /\ PageTells(b, office[b], fetches[b], giving[b], packs')
         /\ Short(giving[b], packs', money)
  <2> TAKE b \in Offices
  <2>1. /\ PageOK(office[b], fetches[b], giving[b], packs)
        /\ PageTells(b, office[b], fetches[b], giving[b], packs)
        /\ Short(giving[b], packs, money)
    BY DEF GivingInv
  <2> QED  BY <2>1, <1>5, <1>7, <1>9, PackAdded
<1>13. PageOK(O, L, G, packs')
  <2>1. i \in IdsOf(packs')  BY <1>5, <1>7 DEF IdsOf
  <2>2. PageOK(O, L, R, packs')  BY <1>12
  <2> QED  BY <2>1, <2>2, <1>6 DEF PageOK
<1>14. OneAtATime(O, L, G)
  <2>1. \A x \in G : x = q \/ (x \in R /\ x # r)  OBVIOUS
  <2>2. q.own = r.own  BY <1>6
  <2>3. OneAtATime(O, L, R)  BY <1>3
  <2> QED  BY <2>1, <2>2, <2>3, <1>4 DEF OneAtATime
<1>15. PageTells(a, O, L, G, packs')
  <2>1. \A k \in packs' : k.id \in q.wrote => k.by = a  BY <1>1, <1>5, <1>6, <1>7
  <2>2. PageTells(a, O, L, R, packs')  BY <1>12
  <2> QED  BY <2>1, <2>2, <1>6 DEF PageTells
<1>16. Short(G, packs', money)
  <2>1. Short(R, packs', money)  BY <1>12
  <2> QED  BY <2>1, <1>6 DEF Short
<1>17. \A b \in Offices :
         /\ PageOK(office'[b], fetches'[b], giving'[b], packs')
         /\ OneAtATime(office'[b], fetches'[b], giving'[b])
         /\ PageTells(b, office'[b], fetches'[b], giving'[b], packs')
         /\ Short(giving'[b], packs', money')
  <2> TAKE b \in Offices
  <2>1. giving'[b] = IF b = a THEN G ELSE giving[b]  BY <1>8 DEF GivingInv
  <2>2. OneAtATime(office[b], fetches[b], giving[b])  BY DEF GivingInv
  <2>3. CASE b = a  BY <2>1, <2>3, <1>2, <1>13, <1>14, <1>15, <1>16
  <2>4. CASE b # a  BY <2>1, <2>2, <2>4, <1>2, <1>12
  <2> QED  BY <2>3, <2>4
<1>18. GivenOnce'
  <2> SUFFICES ASSUME NEW x \in Emails \ blind', NEW n \in PackSizes
               PROVE  Cardinality(PacksGiven(x, n)') <= Cardinality(PaidFor(x, n))
    BY <1>2 DEF GivenOnce, PaidFor
  <2> DEFINE A == PacksGiven(x, n)
             C == PaidFor(x, n)
  <2>1. IsFiniteSet(A) /\ IsFiniteSet(C)  BY FS_Subset DEF GivingInv, PacksGiven, PaidFor
  <2>2. Cardinality(A) \in Nat /\ Cardinality(C) \in Nat  BY <2>1, FS_CardinalityType
  <2>3. CASE ~(x = r.shop /\ n = r.size)
    <3>1. PacksGiven(x, n)' = A  BY <2>3, <1>5, <1>7 DEF PacksGiven
    <3>2. Cardinality(A) <= Cardinality(C)  BY <1>11 DEF GivingInv, GivenOnce
    <3> QED  BY <3>1, <3>2
  <2>4. CASE x = r.shop /\ n = r.size
    <3>1. unknown = {} \/ (r.sure /\ r.own /\ \A k \in unknown : k.by = a /\ k.told)  BY <2>4, <1>10
    <3>2. unknown = {}
      <4>1. r.sure /\ r.own => \A k \in packs : k.shop = r.shop /\ k.by = a /\ k.told => k.id \in r.known
        BY <1>1, <1>3 DEF PageTells
      <4> QED  BY <3>1, <4>1
    <3>3. A = PacksLike(packs, r.shop, r.size, r.known)
      BY <2>4, <3>2 DEF PacksGiven, PacksLike
    <3>4. C = MoneyLike(money, r.shop, r.size)  BY <2>4 DEF PaidFor, MoneyLike
    <3>5. Cardinality(A) < Cardinality(C)  BY <1>1, <1>3, <3>3, <3>4 DEF Short
    <3>6. PacksGiven(x, n)' = A \cup {k0}  BY <2>4, <1>5, <1>7 DEF PacksGiven
    <3>7. k0 \notin A  BY <1>9 DEF PacksGiven
    <3> HIDE DEF A, C
    <3>8. Cardinality(A \cup {k0}) = Cardinality(A) + 1  BY <2>1, <3>7, FS_AddElement
    <3>9. Cardinality(A) + 1 <= Cardinality(C)  BY <2>2, <3>5
    <3> QED  BY <3>6, <3>8, <3>9 DEF C
  <2> QED  BY <2>3, <2>4
<1>19. packs' \subseteq PackRows /\ IsFiniteSet(packs') /\ \A k, l \in packs' : k.id = l.id => k = l
  <2>1. packs \subseteq PackRows /\ IsFiniteSet(packs) /\ \A k, l \in packs : k.id = l.id => k = l
    BY DEF GivingInv
  <2>2. IsFiniteSet(packs')  BY <2>1, <1>7, FS_AddElement
  <2>3. \A k \in packs : k.id # i  BY <1>1
  <2> QED  BY <2>1, <2>2, <2>3, <1>5, <1>7
<1>20. /\ office' = [b \in Offices |-> office'[b]] /\ fetches' = [b \in Offices |-> fetches'[b]]
       /\ giving' = [b \in Offices |-> giving'[b]]
  BY <1>2, <1>8 DEF GivingInv
<1> QED  BY <1>2, <1>11, <1>17, <1>18, <1>19, <1>20 DEF GivingInv

LEMMA GivingPaysStep ==
  ASSUME GivingInv, SignupInv, Pays
  PROVE  GivingInv'
<1>1. PICK s \in shops, n \in PackSizes, i \in Slips :
        money' = money \cup {[shop |-> s.email, size |-> n, slip |-> i]}
  BY DEF Pays
<1>2. UNCHANGED <<packs, office, fetches, giving, blind>>  BY DEF Pays, GivingVars
<1>3. s.email \in Emails  BY DEF SignupInv, ShopRows
<1>4. money' \subseteq [shop: Emails, size: PackSizes, slip: Slips] /\ IsFiniteSet(money')
  <2>1. IsFiniteSet(money')  BY <1>1, FS_AddElement DEF GivingInv
  <2> QED  BY <1>1, <1>3, <2>1 DEF GivingInv
<1>5. ASSUME NEW e, NEW m
      PROVE  /\ Cardinality(MoneyLike(money, e, m)) <= Cardinality(MoneyLike(money', e, m))
             /\ Cardinality(MoneyLike(money, e, m)) \in Nat /\ Cardinality(MoneyLike(money', e, m)) \in Nat
  <2> DEFINE A == MoneyLike(money, e, m)
             B == MoneyLike(money', e, m)
  <2>1. A \in SUBSET B  BY <1>1 DEF MoneyLike
  <2>2. IsFiniteSet(B)  BY <1>4, FS_Subset DEF MoneyLike
  <2> HIDE DEF A, B
  <2>3. IsFiniteSet(A) /\ Cardinality(A) <= Cardinality(B)  BY <2>1, <2>2, FS_Subset
  <2>4. Cardinality(A) \in Nat /\ Cardinality(B) \in Nat  BY <2>2, <2>3, FS_CardinalityType
  <2> QED  BY <2>3, <2>4 DEF A, B
<1>6. ASSUME NEW a \in Offices PROVE Short(giving[a], packs, money')
  <2> SUFFICES ASSUME NEW r \in giving[a], r.wrote = {}
               PROVE  Cardinality(PacksLike(packs, r.shop, r.size, r.known))
                        < Cardinality(MoneyLike(money', r.shop, r.size))
    BY DEF Short
  <2> DEFINE A == Cardinality(PacksLike(packs, r.shop, r.size, r.known))
             B == Cardinality(MoneyLike(money, r.shop, r.size))
             C == Cardinality(MoneyLike(money', r.shop, r.size))
  <2>1. A < B  BY DEF GivingInv, Short
  <2>2. IsFiniteSet(PacksLike(packs, r.shop, r.size, r.known))  BY FS_Subset DEF GivingInv, PacksLike
  <2>3. A \in Nat  BY <2>2, FS_CardinalityType
  <2>4. B <= C /\ B \in Nat /\ C \in Nat  BY <1>5
  <2> HIDE DEF A, B, C
  <2>5. A < C  BY <2>1, <2>3, <2>4
  <2> QED  BY <2>5 DEF A, C
<1>7. GivenOnce'
  <2> SUFFICES ASSUME NEW e \in Emails \ blind, NEW m \in PackSizes
               PROVE  Cardinality(PacksGiven(e, m)) <= Cardinality(MoneyLike(money', e, m))
    BY <1>2 DEF GivenOnce, PacksGiven, PaidFor, MoneyLike
  <2> DEFINE A == Cardinality(PacksGiven(e, m))
             B == Cardinality(MoneyLike(money, e, m))
             C == Cardinality(MoneyLike(money', e, m))
  <2>1. A <= B  BY DEF GivingInv, GivenOnce, PaidFor, MoneyLike
  <2>2. IsFiniteSet(PacksGiven(e, m))  BY FS_Subset DEF GivingInv, PacksGiven
  <2>3. A \in Nat  BY <2>2, FS_CardinalityType
  <2>4. B <= C /\ B \in Nat /\ C \in Nat  BY <1>5
  <2> HIDE DEF A, B, C
  <2>5. A <= C  BY <2>1, <2>3, <2>4
  <2> QED  BY <2>5 DEF A, C
<1> QED  BY <1>2, <1>4, <1>6, <1>7 DEF GivingInv

-----------------------------------------------------------------------------
LEMMA OrdersInitOK ==
  ASSUME OrdersInit PROVE OrdersInv
<1>1. SignupInv
  <2>1. /\ shops = {} /\ raced = {}
        /\ signup = [w \in Applicants |-> {}] /\ signing = [w \in Applicants |-> {}]
    BY DEF OrdersInit
  <2>2. \A w \in Applicants : SignupFormOK(signup[w], signing[w]) /\ SignupNoted(signup[w], signing[w], shops)
    BY <2>1 DEF SignupFormOK, SignupNoted
  <2> QED  BY <2>1, <2>2 DEF SignupInv, OneShopEach, OrdersWait
<1>2. GivingInv
  <2>1. /\ packs = {} /\ money = {} /\ blind = {}
        /\ office = [a \in Offices |-> {}] /\ fetches = [a \in Offices |-> {}]
        /\ giving = [a \in Offices |-> {}]
    BY DEF OrdersInit
  <2>2. \A a \in Offices : office[a] = {} /\ fetches[a] = {} /\ giving[a] = {}  BY <2>1
  <2>3. \A a \in Offices :
          /\ PageOK(office[a], fetches[a], giving[a], packs)
          /\ OneAtATime(office[a], fetches[a], giving[a])
          /\ PageTells(a, office[a], fetches[a], giving[a], packs)
          /\ Short(giving[a], packs, money)
    BY <2>2 DEF PageOK, OneAtATime, PageTells, Short
  <2>4. \A e, n : PacksGiven(e, n) = {} /\ PaidFor(e, n) = {}  BY <2>1 DEF PacksGiven, PaidFor
  <2>5. GivenOnce  BY <2>4, FS_EmptySet DEF GivenOnce
  <2>6. IsFiniteSet(packs) /\ IsFiniteSet(money)  BY <2>1, FS_EmptySet
  <2> QED  BY <2>1, <2>3, <2>5, <2>6 DEF GivingInv
<1> QED  BY <1>1, <1>2 DEF OrdersInv

LEMMA OrdersStep ==
  ASSUME OrdersInv, [OrdersNext]_orderVars
  PROVE  OrdersInv'
<1>1. ASSUME UNCHANGED <<GivingVars, money>> PROVE GivingInv'
  BY <1>1 DEF OrdersInv, GivingVars, GivingInv, GivenOnce, PacksGiven, PaidFor
<1>2. ASSUME UNCHANGED <<SignupVars, packs>> PROVE SignupInv'
  BY <1>2 DEF OrdersInv, SignupVars, SignupInv, OneShopEach, OrdersWait
<1>3. ASSUME NEW w \in Applicants,
             \/ OpenSignup(w) \/ FillSignup(w) \/ PickPack(w) \/ LeaveSignup(w) \/ SendSignup(w)
      PROVE  OrdersInv'
  BY <1>1, <1>3, SignupFormsStep
  DEF OrdersInv, OpenSignup, FillSignup, PickPack, LeaveSignup, SendSignup
<1>4. ASSUME NEW w \in Applicants,
             \/ SignupChecked(w) \/ SignupAnswered(w) \/ SignupFails(w) \/ SignupGivenUp(w)
      PROVE  OrdersInv'
  BY <1>1, <1>4, SignupServerStep
  DEF OrdersInv, SignupChecked, SignupAnswered, SignupFails, SignupGivenUp
<1>5. ASSUME NEW w \in Applicants, SignupWritten(w) PROVE OrdersInv'
  BY <1>1, <1>5, SignupWrittenStep, OrdersAssumption DEF OrdersInv, SignupWritten
<1>6. CASE Pays
  BY <1>2, <1>6, GivingPaysStep DEF OrdersInv, Pays, GivingVars
<1>7. ASSUME NEW a \in Offices,
             \/ OpenPage(a) \/ ClosePage(a) \/ ChooseShop(a) \/ TryAgain(a)
             \/ FetchLands(a) \/ FetchFails(a)
      PROVE  OrdersInv'
  BY <1>2, <1>7, GivingPagesStep
  DEF OrdersInv, OpenPage, ClosePage, ChooseShop, TryAgain, FetchLands, FetchFails
<1>8. ASSUME NEW a \in Offices, GiveOrder(a) \/ GivePack(a) PROVE OrdersInv'
  BY <1>2, <1>8, GivingPressStep DEF OrdersInv, GiveOrder, GivePack, Gives
<1>9. ASSUME NEW a \in Offices, GiveFails(a) \/ GiveGivenUp(a) PROVE OrdersInv'
  BY <1>2, <1>9, GivingFailsStep DEF OrdersInv, GiveFails, GiveGivenUp
<1>10. ASSUME NEW a \in Offices, GiveAnswered(a) PROVE OrdersInv'
  BY <1>10, GivingAnswerStep DEF OrdersInv
<1>11. ASSUME NEW a \in Offices, PackGiven(a) PROVE OrdersInv'
  BY <1>11, GivingGivenStep, SignupPackGiven DEF OrdersInv
<1>12. CASE UNCHANGED orderVars
  <2>1. UNCHANGED <<GivingVars, money>> /\ UNCHANGED <<SignupVars, packs>>
    BY <1>12 DEF orderVars, GivingVars, SignupVars
  <2> QED  BY <2>1, <1>1, <1>2 DEF OrdersInv
<1> QED
  BY <1>3, <1>4, <1>5, <1>6, <1>7, <1>8, <1>9, <1>10, <1>11, <1>12 DEF OrdersNext

\* Addresses, forms, packs and pages of every kind: each variable keeps its type.
THEOREM OrdersTypeCorrect == OrdersSpec => []OrdersTypeOK
<1>1. OrdersInv /\ [OrdersNext]_orderVars => OrdersInv'  BY OrdersStep
<1>2. OrdersInit => OrdersInv  BY OrdersInitOK
<1>3. OrdersInv => OrdersTypeOK
  BY DEF OrdersInv, SignupInv, GivingInv, SignupFormOK, PageOK, OrdersTypeOK
<1> QED  BY <1>1, <1>2, <1>3, PTL DEF OrdersSpec

\* A mailbox has one shop, a shop is asked to pay for what it ordered, an order
\* is not lost before locks are given, and a payment gives one pack, for any
\* number of applicants, shops and open pages and whatever is lost or late,
\* with the exceptions the properties name.
THEOREM OrdersStayInOrder == OrdersSpec => []OrdersInOrder
<1>1. OrdersInv /\ [OrdersNext]_orderVars => OrdersInv'  BY OrdersStep
<1>2. OrdersInit => OrdersInv  BY OrdersInitOK
<1>3. OrdersInv => OrdersInOrder
  <2>1. OrdersInv => AsksForTheOrder  BY DEF OrdersInv, SignupInv, SignupNoted, AsksForTheOrder, Noted
  <2> QED  BY <2>1 DEF OrdersInv, SignupInv, GivingInv, OrdersInOrder
<1> QED  BY <1>1, <1>2, <1>3, PTL DEF OrdersSpec

-----------------------------------------------------------------------------
(* Till *)

Underway == UNION {handling[c] : c \in Jobs}
Sheets == UNION {slip[t] : t \in Registers}

TillShape ==
  /\ slip = [t \in Registers |-> slip[t]]
  /\ handling = [c \in Jobs |-> handling[c]]
  /\ \A c \in Jobs : \A r, q \in handling[c] : r = q
  /\ \A t \in Registers : \A f, g \in slip[t] : f = g

\* Payments and requests come from forms that were opened before them.
Sound ==
  /\ \A p \in paid : p.of <= opened
  /\ \A r \in Underway : r.of <= opened
  /\ \A t, u \in Registers : \A f \in slip[t], g \in slip[u] : f.nth = g.nth => t = u

\* The references under which an opening of the form has been sent: one, and
\* the form still has it or makes up others.
SentAs(n) == {p.ref : p \in {q \in paid : q.of = n}} \cup {r.ref : r \in {q \in Underway : q.of = n}}

SameReference ==
  \A n \in (1..MaxOpenings) \ retyped :
    /\ \A x, y \in SentAs(n) : x = y
    /\ \A f \in Sheets, x \in SentAs(n) : f.nth = n => f.pressed /\ f.ref \in {x, NoReference}

ReferencesDiffer == \A p, q \in paid : p # q => p.ref # q.ref

OnPlanAsShown ==
  \A p \in paid : p.ref \notin contested => p.applied = IF p.status = "VERIFIED" THEN 1 ELSE 0

\* A printed number is the payment's own or an earlier one of its, and of no
\* other payment.
NumbersRise ==
  /\ \A x \in papers : x.ref \notin outnumbered => \E p \in paid : p.ref = x.ref /\ x.no <= p.no
  /\ \A x \in papers, p \in paid :
       x.ref # p.ref /\ x.ref \notin outnumbered /\ p.ref \notin outnumbered => x.no # p.no
  /\ \A p, q \in paid :
       p.ref # q.ref /\ p.no > 0 /\ p.ref \notin outnumbered /\ q.ref \notin outnumbered => p.no # q.no

\* What a handler has read still holds, unless it is late.
Informed(r) ==
  /\ r.what = "verify" => r.seen # "VERIFIED"
  /\ r.at = "numbered" => r.what \in {"record", "verify"} /\ r.no > 0
  /\ r.at = "numbered" /\ ~r.late => \A p \in paid : p.no < r.no
  /\ r.what = "submit" /\ r.at # "done" /\ ~r.late => Cardinality(Claims) < MaxClaims

TillInv ==
  /\ TillTypeOK /\ TillShape
  /\ Sound /\ SameReference /\ ReferencesDiffer
  /\ OnPlanAsShown /\ NumbersRise /\ ReceiptsTellApart
  /\ \A r \in Underway : Informed(r)
  /\ IsFiniteSet(paid) /\ QueueWithin

-----------------------------------------------------------------------------
LEMMA TillServes ==
  ASSUME TillTypeOK, TillShape, NEW c \in Jobs, NEW t \in Registers,
         NEW what \in {"record", "submit", "verify", "reverse"}, NEW ref \in References,
         NEW of \in 0..MaxOpenings, NEW at \in {"way", "read"}, NEW seen \in PaymentStates,
         Serves(c, what, t, ref, of, at, seen)
  PROVE  /\ handling' = [d \in Jobs |-> handling'[d]]
         /\ \A d \in Jobs : handling'[d] \subseteq Requested /\ \A r, q \in handling'[d] : r = q
         /\ \E new \in Requested :
              /\ new.what = what /\ new.ref = ref /\ new.of = of /\ new.at = at /\ new.seen = seen
              /\ \A x \in Underway' : x \in Underway \/ x = new
<1> DEFINE new == [what |-> what, ref |-> ref, of |-> of, register |-> t, own |-> TRUE,
                   at |-> at, seen |-> seen, no |-> 0, late |-> FALSE]
<1>1. new \in Requested  BY DEF Requested
<1>2. handling' = [handling EXCEPT ![c] = {new}]  BY DEF Serves
<1> HIDE DEF new
<1>3. \A d \in Jobs : handling'[d] = IF d = c THEN {new} ELSE handling[d]  BY <1>2 DEF TillShape
<1>4. handling' = [d \in Jobs |-> handling'[d]]  BY <1>2 DEF TillShape
<1>5. \A d \in Jobs : handling'[d] \subseteq Requested /\ \A r, q \in handling'[d] : r = q
  BY <1>1, <1>3 DEF TillShape, TillTypeOK
<1>6. \A x \in Underway' : x \in Underway \/ x = new  BY <1>3 DEF Underway
<1>7. new.what = what /\ new.ref = ref /\ new.of = of /\ new.at = at /\ new.seen = seen
  BY DEF new
<1> QED  BY <1>1, <1>4, <1>5, <1>6, <1>7

LEMMA TillMoves ==
  ASSUME TillTypeOK, TillShape, NEW c \in Jobs, NEW r \in Requested, Moves(c, r)
  PROVE  /\ handling' = [d \in Jobs |-> handling'[d]]
         /\ \A d \in Jobs : handling'[d] \subseteq Requested /\ \A x, q \in handling'[d] : x = q
         /\ \A x \in Underway' : x \in Underway \/ x = r
<1>1. handling' = [handling EXCEPT ![c] = {r}]  BY DEF Moves
<1>2. \A d \in Jobs : handling'[d] = IF d = c THEN {r} ELSE handling[d]  BY <1>1 DEF TillShape
<1>3. handling' = [d \in Jobs |-> handling'[d]]  BY <1>1 DEF TillShape
<1>4. \A d \in Jobs : handling'[d] \subseteq Requested /\ \A x, q \in handling'[d] : x = q
  BY <1>2 DEF TillShape, TillTypeOK
<1>5. \A x \in Underway' : x \in Underway \/ x = r  BY <1>2 DEF Underway
<1> QED  BY <1>3, <1>4, <1>5

LEMMA TillEmpties ==
  ASSUME TillTypeOK, TillShape, NEW c \in Jobs, handling' = [handling EXCEPT ![c] = {}]
  PROVE  /\ handling' = [d \in Jobs |-> handling'[d]]
         /\ \A d \in Jobs : handling'[d] \subseteq Requested /\ \A x, q \in handling'[d] : x = q
         /\ \A x \in Underway' : x \in Underway
<1>2. \A d \in Jobs : handling'[d] = IF d = c THEN {} ELSE handling[d]  BY DEF TillShape
<1>3. handling' = [d \in Jobs |-> handling'[d]]  BY DEF TillShape
<1>4. \A d \in Jobs : handling'[d] \subseteq Requested /\ \A x, q \in handling'[d] : x = q
  BY <1>2 DEF TillShape, TillTypeOK
<1>5. \A x \in Underway' : x \in Underway  BY <1>2 DEF Underway
<1> QED  BY <1>3, <1>4, <1>5

\* What a commit leaves of a request: what it is stays, and it is over, or as
\* it was but late if it is of one of these kinds.
Left(x, q, kinds) ==
  /\ x.what = q.what /\ x.ref = q.ref /\ x.of = q.of /\ x.seen = q.seen
  /\ \/ x.at = "done"
     \/ x.at = q.at /\ x.no = q.no /\ (~x.late => ~q.late /\ q.what \notin kinds)

LEMMA TillCommits ==
  ASSUME TillTypeOK, TillShape, NEW c \in Jobs, NEW r \in handling[c], NEW kinds, Commits(c, r, kinds)
  PROVE  /\ handling' = [d \in Jobs |-> handling'[d]]
         /\ \A d \in Jobs : handling'[d] \subseteq Requested /\ \A x, q \in handling'[d] : x = q
         /\ \A x \in Underway' : \E q \in Underway : Left(x, q, kinds)
<1>1. \A d \in Jobs : handling[d] \subseteq Requested /\ \A x, q \in handling[d] : x = q
  BY DEF TillShape, TillTypeOK
<1> DEFINE over(q) == [q EXCEPT !.at = "done", !.no = 0, !.late = FALSE]
           later(q) == [q EXCEPT !.late = q.late \/ q.what \in kinds]
<1>2. \A q \in Requested : over(q) \in Requested /\ Left(over(q), q, kinds)
  BY DEF Requested, Left
<1>3. \A q \in Requested : later(q) \in Requested
  BY DEF Requested
<1>4. \A q \in Requested : Left(later(q), q, kinds)
  <2> TAKE q \in Requested
  <2>1. later(q).what = q.what /\ later(q).ref = q.ref /\ later(q).of = q.of /\ later(q).seen = q.seen
        /\ later(q).at = q.at /\ later(q).no = q.no
    BY DEF Requested
  <2>2. later(q).late <=> (q.late \/ q.what \in kinds)  BY DEF Requested
  <2> QED  BY <2>1, <2>2 DEF Left
<1>5. handling' = [d \in Jobs |->
        IF d = c THEN {over(q) : q \in {r} \cap Waited} ELSE {later(q) : q \in handling[d]}]
  BY DEF Commits
<1> HIDE DEF over, later
<1>6. \A d \in Jobs : handling'[d] \subseteq Requested /\ \A x, q \in handling'[d] : x = q
  BY <1>1, <1>2, <1>3, <1>5
<1>7. \A x \in Underway' : \E q \in Underway : Left(x, q, kinds)
  <2> SUFFICES ASSUME NEW d \in Jobs, NEW x \in handling'[d] PROVE \E q \in Underway : Left(x, q, kinds)
    BY DEF Underway
  <2>1. CASE d = c
    BY <2>1, <1>1, <1>2, <1>5 DEF Underway
  <2>2. CASE d # c
    <3>1. PICK q \in handling[d] : x = later(q)  BY <2>2, <1>5
    <3> QED  BY <3>1, <1>1, <1>4 DEF Underway
  <2> QED  BY <2>1, <2>2
<1>8. handling' = [d \in Jobs |-> handling'[d]]  BY <1>5
<1> QED  BY <1>6, <1>7, <1>8

-----------------------------------------------------------------------------
\* What a commit leaves of the rows: one more, or one rewritten.
LEMMA TillRewrites ==
  ASSUME NEW r, NEW p \in paid, NEW q, Overwrites(r, p, q)
  PROVE  /\ \A x \in paid' : (x \in paid /\ x # p) \/ x = q
         /\ \A x \in paid : x \in paid' \/ x = p
         /\ q \in paid'
BY DEF Overwrites

LEMMA TillInitOK ==
  ASSUME TillInit PROVE TillInv
<1>1. TillTypeOK /\ TillShape
  <2>2. \A t \in Registers : slip[t] = {}  BY DEF TillInit
  <2>3. \A c \in Jobs : handling[c] = {}  BY DEF TillInit
  <2>1. slip = [t \in Registers |-> {}] /\ handling = [c \in Jobs |-> {}]  BY DEF TillInit
  <2>4. handling = [c \in Jobs |-> handling[c]]  BY <2>1
  <2>8. slip = [t \in Registers |-> slip[t]]  BY <2>1
  <2>9. crowded \in BOOLEAN  BY DEF TillInit
  <2>10. opened \in 0..MaxOpenings  BY TillAssumption DEF TillInit
  <2>5. opened \in 0..MaxOpenings /\ crowded \in BOOLEAN  BY <2>9, <2>10
  <2>6. paid = {} /\ papers = {} /\ retyped = {} /\ contested = {} /\ outnumbered = {}  BY DEF TillInit
  <2>7. TillTypeOK  BY <2>2, <2>3, <2>5, <2>6 DEF TillTypeOK
  <2> QED  BY <2>7, <2>2, <2>3, <2>4, <2>8 DEF TillShape
<1>2. Underway = {} /\ Sheets = {}  BY DEF TillInit, Underway, Sheets
<1>3. Claims = {} /\ paid = {} /\ papers = {}  BY DEF TillInit, Claims
<1>4. Cardinality(Claims) = 0 /\ IsFiniteSet(paid)  BY <1>3, FS_EmptySet
<1>5. Sound  BY <1>2, <1>3 DEF TillInit, Sound
<1>6. SentAs(1) = SentAs(1) /\ \A n : SentAs(n) = {}  BY <1>2, <1>3 DEF SentAs
<1>7. SameReference  BY <1>6 DEF SameReference
<1>8. ReferencesDiffer /\ OnPlanAsShown /\ NumbersRise /\ ReceiptsTellApart
  BY <1>2, <1>3 DEF ReferencesDiffer, OnPlanAsShown, NumbersRise, ReceiptsTellApart
<1>9. QueueWithin /\ \A r \in Underway : Informed(r)  BY <1>2, <1>4, TillAssumption DEF QueueWithin
<1> QED  BY <1>1, <1>4, <1>5, <1>7, <1>8, <1>9 DEF TillInv

\* The new row a request writes is a payment.
LEMMA TillRow ==
  ASSUME NEW r \in Requested
  PROVE  /\ [ref |-> r.ref, of |-> r.of, claim |-> FALSE, status |-> "VERIFIED",
             reversed |-> FALSE, no |-> r.no, applied |-> 1] \in PaymentRows
         /\ [ref |-> r.ref, of |-> 0, claim |-> TRUE, status |-> "PENDING",
             reversed |-> FALSE, no |-> 0, applied |-> 0] \in PaymentRows
BY TillAssumption DEF Requested, PaymentRows, PaymentStates

LEMMA TillRowKept ==
  ASSUME NEW p \in PaymentRows, NEW n \in Nat
  PROVE  /\ [p EXCEPT !.status = "VERIFIED", !.no = n, !.applied = @ + 1] \in PaymentRows
         /\ [p EXCEPT !.status = "REFUNDED", !.reversed = TRUE, !.applied = @ - 1] \in PaymentRows
         /\ [p EXCEPT !.status = "FAILED", !.reversed = TRUE] \in PaymentRows
<1>1. p.applied \in Int /\ p.applied + 1 \in Int /\ p.applied - 1 \in Int  BY DEF PaymentRows
<1>2. [p EXCEPT !.status = "VERIFIED", !.no = n, !.applied = p.applied + 1] \in PaymentRows
  BY <1>1 DEF PaymentRows, PaymentStates
<1>3. [p EXCEPT !.status = "REFUNDED", !.reversed = TRUE, !.applied = p.applied - 1] \in PaymentRows
  BY <1>1 DEF PaymentRows, PaymentStates
<1>4. [p EXCEPT !.status = "FAILED", !.reversed = TRUE] \in PaymentRows
  BY DEF PaymentRows, PaymentStates
<1> QED  BY <1>2, <1>3, <1>4

LEMMA TillRequestKept ==
  ASSUME NEW r \in Requested, NEW n \in Nat
  PROVE  /\ [r EXCEPT !.at = "read"] \in Requested
         /\ [r EXCEPT !.at = "numbered", !.no = n, !.late = FALSE] \in Requested
         /\ [r EXCEPT !.own = FALSE] \in Requested
BY DEF Requested

LEMMA SuccessorIsNat == \A k \in Nat : k + 1 \in Nat
OBVIOUS

LEMMA TillTypeStep ==
  ASSUME TillTypeOK, TillShape, [TillNext]_tillVars
  PROVE  TillTypeOK' /\ TillShape'
<1> USE TillAssumption
<1> DEFINE HandlingOK ==
      /\ handling = [d \in Jobs |-> handling[d]]
      /\ \A d \in Jobs : handling[d] \subseteq Requested /\ \A x, q \in handling[d] : x = q
    OneSlipOK(top) == [nth: 1..top, ref: References \cup {NoReference}, pressed: BOOLEAN]
    SlipOK ==
      /\ slip = [t \in Registers |-> slip[t]]
      /\ \A t \in Registers : slip[t] \subseteq OneSlipOK(opened) /\ \A f, g \in slip[t] : f = g
    RestOK ==
      /\ paid \subseteq PaymentRows
      /\ opened \in 0..MaxOpenings
      /\ papers \subseteq [ref: References, no: Nat \ {0}]
      /\ retyped \subseteq 1..opened
      /\ contested \subseteq References /\ outnumbered \subseteq References
      /\ crowded \in BOOLEAN
<1>0. HandlingOK /\ SlipOK /\ RestOK  BY DEF TillTypeOK, TillShape
<1>1. SUFFICES HandlingOK' /\ SlipOK' /\ RestOK'
  BY DEF TillTypeOK, TillShape
<1>2. UNCHANGED <<paid, opened, papers, retyped, contested, outnumbered, crowded>> => RestOK'
  BY <1>0
<1>3. UNCHANGED <<slip, opened>> => SlipOK'  BY <1>0
<1>4. UNCHANGED handling => HandlingOK'  BY <1>0
<1>5. \A t \in Registers, f \in OneSlipOK(opened) :
        opened' = opened /\ slip' = [slip EXCEPT ![t] = {f}] => SlipOK'
  <2> SUFFICES ASSUME NEW t \in Registers, NEW f \in OneSlipOK(opened), opened' = opened,
                      slip' = [slip EXCEPT ![t] = {f}]
               PROVE SlipOK'
    OBVIOUS
  <2>1. \A u \in Registers : slip'[u] = IF u = t THEN {f} ELSE slip[u]  BY <1>0
  <2>2. slip' = [u \in Registers |-> slip'[u]]  BY <1>0
  <2> QED  BY <2>1, <2>2, <1>0
<1>6. \A t \in Registers : opened' = opened /\ slip' = [slip EXCEPT ![t] = {}] => SlipOK'
  <2> SUFFICES ASSUME NEW t \in Registers, opened' = opened, slip' = [slip EXCEPT ![t] = {}]
               PROVE SlipOK'
    OBVIOUS
  <2>1. \A u \in Registers : slip'[u] = IF u = t THEN {} ELSE slip[u]  BY <1>0
  <2>2. slip' = [u \in Registers |-> slip'[u]]  BY <1>0
  <2> QED  BY <2>1, <2>2, <1>0
<1>7. CASE UNCHANGED tillVars
  BY <1>7, <1>2, <1>3, <1>4 DEF tillVars
<1>8. ASSUME NEW t \in Registers, OpenSlip(t) PROVE HandlingOK' /\ SlipOK' /\ RestOK'
  <2>1. PICK x \in References :
          slip' = [slip EXCEPT ![t] = {[nth |-> opened + 1, ref |-> x, pressed |-> FALSE]}]
    BY <1>8 DEF OpenSlip
  <2>2. opened' = opened + 1 /\ opened' \in 0..MaxOpenings  BY <1>0, <1>8 DEF OpenSlip
  <2> DEFINE f == [nth |-> opened + 1, ref |-> x, pressed |-> FALSE]
  <2>3. f \in OneSlipOK(opened')  BY <1>0, <2>2
  <2>4. \A g \in OneSlipOK(opened) : g \in OneSlipOK(opened')  BY <1>0, <2>2
  <2>5. \A u \in Registers : slip'[u] = IF u = t THEN {f} ELSE slip[u]  BY <1>0, <2>1
  <2>6. slip' = [u \in Registers |-> slip'[u]]  BY <1>0, <2>1
  <2> HIDE DEF f
  <2>7. SlipOK'  BY <1>0, <2>3, <2>4, <2>5, <2>6
  <2>8. UNCHANGED <<paid, handling, papers, retyped, contested, outnumbered, crowded>>
    BY <1>8 DEF OpenSlip, Histories
  <2>9. retyped' \subseteq 1..opened'  BY <1>0, <2>2, <2>8
  <2>10. RestOK'  BY <1>0, <2>2, <2>8, <2>9
  <2> QED  BY <2>7, <2>8, <2>10, <1>4
<1>9. ASSUME NEW t \in Registers, ChangeReference(t) PROVE HandlingOK' /\ SlipOK' /\ RestOK'
  <2>1. PICK f \in slip[t], x \in References \cup {NoReference} :
          /\ slip' = [slip EXCEPT ![t] = {[f EXCEPT !.ref = x]}]
          /\ retyped' = IF f.pressed THEN retyped \cup {f.nth} ELSE retyped
          /\ UNCHANGED <<paid, handling, opened, papers, contested, outnumbered, crowded>>
    BY <1>9 DEF ChangeReference
  <2>2. f \in OneSlipOK(opened)  BY <1>0
  <2>3. [f EXCEPT !.ref = x] \in OneSlipOK(opened) /\ f.nth \in 1..opened  BY <2>2
  <2>4. SlipOK'  BY <2>1, <2>3, <1>5
  <2>5. retyped' \subseteq 1..opened'  BY <1>0, <2>1, <2>3
  <2> QED  BY <2>1, <2>4, <2>5, <1>0, <1>4
<1>10. ASSUME NEW t \in Registers, CloseSlip(t) PROVE HandlingOK' /\ SlipOK' /\ RestOK'
  BY <1>10, <1>2, <1>4, <1>6 DEF CloseSlip, Histories
<1>11. ASSUME NEW c \in Jobs, NEW t \in Registers, PressRecord(c, t) PROVE HandlingOK' /\ SlipOK' /\ RestOK'
  <2>1. PICK f \in slip[t] :
       /\ \E x \in References : f.ref \in {x, NoReference} /\ Serves(c, "record", t, x, f.nth, "way", "PENDING")
       /\ slip' = [slip EXCEPT ![t] = {[f EXCEPT !.pressed = TRUE]}]
       /\ retyped' = IF f.pressed /\ f.ref = NoReference THEN retyped \cup {f.nth} ELSE retyped
    BY <1>11 DEF PressRecord
  <2>2. f \in OneSlipOK(opened)  BY <1>0
  <2>3. [f EXCEPT !.pressed = TRUE] \in OneSlipOK(opened) /\ f.nth \in 1..opened  BY <2>2
  <2>4. UNCHANGED <<paid, opened, papers, contested, outnumbered, crowded>>  BY <1>11 DEF PressRecord
  <2>5. SlipOK'  BY <2>1, <2>3, <2>4, <1>5
  <2>6. f.nth \in 0..MaxOpenings  BY <2>3, <1>0
  <2>7. HandlingOK'  BY <2>1, <2>6, TillServes DEF PaymentStates
  <2>8. retyped' \subseteq 1..opened'  BY <1>0, <2>1, <2>3, <2>4
  <2> QED  BY <2>4, <2>5, <2>7, <2>8, <1>0
<1>12. ASSUME NEW c \in Jobs, NEW t \in Registers,
              SubmitLook(c, t) \/ VerifyLook(c, t) \/ ReverseLook(c, t)
       PROVE HandlingOK' /\ SlipOK' /\ RestOK'
  <2>1. UNCHANGED <<paid, slip, opened, papers, retyped, contested, outnumbered, crowded>>
    BY <1>12 DEF SubmitLook, VerifyLook, ReverseLook, Histories
  <2>2. CASE SubmitLook(c, t)
    <3>1. PICK x \in References : Serves(c, "submit", t, x, 0, "read", "PENDING")  BY <2>2 DEF SubmitLook
    <3>2. 0 \in 0..MaxOpenings /\ "PENDING" \in PaymentStates  BY DEF PaymentStates
    <3>3. HandlingOK'  BY <3>1, <3>2, TillServes
    <3> QED  BY <3>3, <2>1, <1>2, <1>3
  <2>3. CASE VerifyLook(c, t)
    <3>1. PICK p \in paid : Serves(c, "verify", t, p.ref, 0, "read", p.status)  BY <2>3 DEF VerifyLook
    <3>2. 0 \in 0..MaxOpenings /\ p.ref \in References /\ p.status \in PaymentStates  BY <1>0 DEF PaymentRows
    <3>3. HandlingOK'  BY <3>1, <3>2, TillServes
    <3> QED  BY <3>3, <2>1, <1>2, <1>3
  <2>4. CASE ReverseLook(c, t)
    <3>1. PICK p \in paid : Serves(c, "reverse", t, p.ref, 0, "read", p.status)  BY <2>4 DEF ReverseLook
    <3>2. 0 \in 0..MaxOpenings /\ p.ref \in References /\ p.status \in PaymentStates  BY <1>0 DEF PaymentRows
    <3>3. HandlingOK'  BY <3>1, <3>2, TillServes
    <3> QED  BY <3>3, <2>1, <1>2, <1>3
  <2> QED  BY <1>12, <2>2, <2>3, <2>4
<1>13. ASSUME NEW c \in Jobs, RecordLook(c) \/ TakeNumber(c) \/ GivenUp(c) PROVE HandlingOK' /\ SlipOK' /\ RestOK'
  <2>1. UNCHANGED <<paid, slip, opened, papers, retyped, contested, outnumbered, crowded>>
    BY <1>13 DEF RecordLook, TakeNumber, GivenUp, Histories
  <2>2. CASE RecordLook(c)
    <3>1. PICK r \in handling[c] : Moves(c, [r EXCEPT !.at = "read"])  BY <2>2 DEF RecordLook
    <3>2. [r EXCEPT !.at = "read"] \in Requested  BY <1>0, TillRequestKept
    <3> QED  BY <3>1, <3>2, TillMoves, <2>1, <1>2, <1>3
  <2>3. CASE TakeNumber(c)
    <3>1. PICK r \in handling[c], n \in {m + 1 : m \in Given \cup {0}} :
            Moves(c, [r EXCEPT !.at = "numbered", !.no = n, !.late = FALSE])  BY <2>3 DEF TakeNumber
    <3>2. Given \subseteq Nat  BY <1>0 DEF Given, PaymentRows
    <3>3. n \in Nat
      <4>1. PICK k \in Given \cup {0} : n = k + 1  BY <3>1, Zenon
      <4>2. {0} \subseteq Nat  OBVIOUS
      <4>3. k \in Nat  BY <3>2, <4>1, <4>2, Zenon
      <4> QED  BY <4>1, <4>3, SuccessorIsNat, Zenon
    <3>4. [r EXCEPT !.at = "numbered", !.no = n, !.late = FALSE] \in Requested  BY <3>3, <1>0, TillRequestKept
    <3> QED  BY <3>1, <3>4, TillMoves, <2>1, <1>2, <1>3
  <2>4. CASE GivenUp(c)
    <3>1. PICK r \in handling[c] : Moves(c, [r EXCEPT !.own = FALSE])  BY <2>4 DEF GivenUp
    <3>2. [r EXCEPT !.own = FALSE] \in Requested  BY <1>0, TillRequestKept
    <3> QED  BY <3>1, <3>2, TillMoves, <2>1, <1>2, <1>3
  <2> QED  BY <1>13, <2>2, <2>3, <2>4
<1>14. ASSUME NEW c \in Jobs, RecordWrite(c) \/ SubmitWrite(c) PROVE HandlingOK' /\ SlipOK' /\ RestOK'
  <2>1. UNCHANGED <<slip, opened, papers, retyped, contested>>
    BY <1>14 DEF RecordWrite, SubmitWrite
  <2>2. PICK r \in handling[c] :
          /\ \E kinds : Commits(c, r, kinds)
          /\ paid' \subseteq paid \cup
             {[ref |-> r.ref, of |-> r.of, claim |-> FALSE, status |-> "VERIFIED",
               reversed |-> FALSE, no |-> r.no, applied |-> 1],
              [ref |-> r.ref, of |-> 0, claim |-> TRUE, status |-> "PENDING",
               reversed |-> FALSE, no |-> 0, applied |-> 0]}
          /\ outnumbered' \subseteq outnumbered \cup {r.ref}
          /\ crowded' \in {crowded, (crowded \/ r.late)}
    BY <1>14 DEF RecordWrite, SubmitWrite, Numbering
  <2>3. r \in Requested /\ r.ref \in References /\ r.late \in BOOLEAN  BY <1>0 DEF Requested
  <2> DEFINE p1 == [ref |-> r.ref, of |-> r.of, claim |-> FALSE, status |-> "VERIFIED",
                    reversed |-> FALSE, no |-> r.no, applied |-> 1]
             p2 == [ref |-> r.ref, of |-> 0, claim |-> TRUE, status |-> "PENDING",
                    reversed |-> FALSE, no |-> 0, applied |-> 0]
  <2>a. p1 \in PaymentRows /\ p2 \in PaymentRows  BY <2>3, TillRow
  <2>8. paid' \subseteq paid \cup {p1, p2}  BY <2>2
  <2> HIDE DEF p1, p2
  <2>4. paid' \subseteq PaymentRows  BY <2>a, <2>8, <1>0
  <2>5. outnumbered' \subseteq References  BY <2>2, <2>3, <1>0
  <2>6. crowded' \in BOOLEAN  BY <2>2, <2>3, <1>0
  <2>7. HandlingOK'  BY <2>2, TillCommits
  <2> QED  BY <2>1, <2>4, <2>5, <2>6, <2>7, <1>0
<1>15. ASSUME NEW c \in Jobs, VerifyWrite(c) \/ ReverseWrite(c) PROVE HandlingOK' /\ SlipOK' /\ RestOK'
  <2>1. UNCHANGED <<slip, opened, papers, retyped, crowded>>
    BY <1>15 DEF VerifyWrite, ReverseWrite
  <2>2. PICK r \in handling[c], p \in paid :
          /\ \E kinds : Commits(c, r, kinds)
          /\ \/ Overwrites(r, p, [p EXCEPT !.status = "VERIFIED", !.no = r.no, !.applied = @ + 1])
             \/ Overwrites(r, p, [p EXCEPT !.status = "REFUNDED", !.reversed = TRUE, !.applied = @ - 1])
             \/ Overwrites(r, p, [p EXCEPT !.status = "FAILED", !.reversed = TRUE])
          /\ outnumbered' \subseteq outnumbered \cup {r.ref}
    BY <1>15, ZenonT(60) DEF VerifyWrite, ReverseWrite, Numbering
  <2>3. r \in Requested /\ r.ref \in References /\ r.no \in Nat /\ p \in PaymentRows  BY <1>0 DEF Requested
  <2>a. \E q \in PaymentRows : Overwrites(r, p, q)  BY <2>2, <2>3, TillRowKept
  <2>4. paid' \subseteq PaymentRows  BY <2>a, <1>0 DEF Overwrites
  <2>5. outnumbered' \subseteq References /\ contested' \subseteq References  BY <2>2, <2>3, <1>0 DEF Overwrites
  <2>7. HandlingOK'  BY <2>2, TillCommits
  <2> QED  BY <2>1, <2>4, <2>5, <2>7, <1>0
<1>16. ASSUME NEW c \in Jobs, Answered(c) PROVE HandlingOK' /\ SlipOK' /\ RestOK'
  <2>1. PICK r \in handling[c] : slip' = IF r.own THEN [slip EXCEPT ![r.register] = {}] ELSE slip
    BY <1>16 DEF Answered
  <2>2. UNCHANGED <<paid, opened, papers, retyped, contested, outnumbered, crowded>>
        /\ handling' = [handling EXCEPT ![c] = {}]
    BY <1>16 DEF Answered, Histories
  <2>3. r.register \in Registers  BY <1>0 DEF Requested
  <2>4. SlipOK'  BY <2>1, <2>2, <2>3, <1>3, <1>6
  <2> QED  BY <2>2, <2>4, TillEmpties, <1>2
<1>17. ASSUME NEW c \in Jobs, TillFails(c) PROVE HandlingOK' /\ SlipOK' /\ RestOK'
  BY <1>17, TillEmpties, <1>2, <1>3 DEF TillFails, Histories
<1>18. CASE PrintReceipt
  <2>1. PICK p \in paid : p.no > 0 /\ papers' = papers \cup {[ref |-> p.ref, no |-> p.no]}
    BY <1>18 DEF PrintReceipt
  <2>2. p.ref \in References /\ p.no \in Nat \ {0}  BY <1>0, <2>1 DEF PaymentRows
  <2>3. UNCHANGED <<paid, slip, handling, opened, retyped, contested, outnumbered, crowded>>
    BY <1>18 DEF PrintReceipt, Histories
  <2> QED  BY <2>1, <2>2, <2>3, <1>0, <1>3, <1>4
<1> HIDE DEF HandlingOK, SlipOK, RestOK
<1> QED
  BY <1>7, <1>8, <1>9, <1>10, <1>11, <1>12, <1>13, <1>14, <1>15, <1>16, <1>17, <1>18 DEF TillNext

-----------------------------------------------------------------------------
Writes(c) == RecordWrite(c) \/ SubmitWrite(c) \/ VerifyWrite(c) \/ ReverseWrite(c)

LEMMA TillReads ==
  ASSUME TillTypeOK, TillShape, TillNext, ~ \E c \in Jobs : Writes(c), \A r \in Underway : Informed(r)
  PROVE  /\ UNCHANGED <<paid, contested, outnumbered, crowded>>
         /\ \A r \in Underway' : Informed(r)'
<1>1. UNCHANGED <<paid, contested, outnumbered, crowded>>
  BY DEF TillNext, Writes, OpenSlip, ChangeReference, CloseSlip, PressRecord, SubmitLook, VerifyLook,
     ReverseLook, RecordLook, TakeNumber, Answered, TillFails, GivenUp, PrintReceipt, Histories
<1>2. \A r : Informed(r)' <=> Informed(r)  BY <1>1 DEF Informed, Claims
<1>3. SUFFICES \A r \in Underway' : Informed(r)  BY <1>1, <1>2
<1>4. CASE UNCHANGED handling  BY <1>4 DEF Underway
<1>5. ASSUME NEW c \in Jobs, NEW t \in Registers, PressRecord(c, t) PROVE \A r \in Underway' : Informed(r)
  <2>1. PICK f \in slip[t], x \in References : Serves(c, "record", t, x, f.nth, "way", "PENDING")
    BY <1>5 DEF PressRecord
  <2>4. f \in [nth: 1..opened, ref: References \cup {NoReference}, pressed: BOOLEAN] /\ opened \in 0..MaxOpenings
    BY DEF TillTypeOK
  <2>5. f.nth \in 0..MaxOpenings  BY <2>4, TillAssumption
  <2>2. f.nth \in 0..MaxOpenings /\ "PENDING" \in PaymentStates  BY <2>5 DEF PaymentStates
  <2>3. PICK r \in Requested : r.what = "record" /\ r.at = "way" /\ \A y \in Underway' : y \in Underway \/ y = r
    BY <2>1, <2>2, TillServes
  <2> QED  BY <2>3 DEF Informed
<1>6. ASSUME NEW c \in Jobs, NEW t \in Registers, SubmitLook(c, t) PROVE \A r \in Underway' : Informed(r)
  <2>1. PICK x \in References : Serves(c, "submit", t, x, 0, "read", "PENDING")  BY <1>6 DEF SubmitLook
  <2>2. 0 \in 0..MaxOpenings /\ "PENDING" \in PaymentStates  BY TillAssumption DEF PaymentStates
  <2>3. PICK r \in Requested : r.what = "submit" /\ r.at = "read" /\ \A y \in Underway' : y \in Underway \/ y = r
    BY <2>1, <2>2, TillServes
  <2>4. Cardinality(Claims) < MaxClaims  BY <1>6 DEF SubmitLook
  <2> QED  BY <2>3, <2>4 DEF Informed
<1>7. ASSUME NEW c \in Jobs, NEW t \in Registers, VerifyLook(c, t) PROVE \A r \in Underway' : Informed(r)
  <2>1. PICK p \in paid : p.status # "VERIFIED" /\ Serves(c, "verify", t, p.ref, 0, "read", p.status)
    BY <1>7 DEF VerifyLook
  <2>2. 0 \in 0..MaxOpenings /\ p.status \in PaymentStates /\ p.ref \in References
    BY TillAssumption DEF TillTypeOK, PaymentRows
  <2>3. PICK r \in Requested : r.what = "verify" /\ r.at = "read" /\ r.seen = p.status /\ \A x \in Underway' : x \in Underway \/ x = r
    BY <2>1, <2>2, TillServes
  <2> QED  BY <2>1, <2>3 DEF Informed
<1>8. ASSUME NEW c \in Jobs, NEW t \in Registers, ReverseLook(c, t) PROVE \A r \in Underway' : Informed(r)
  <2>1. PICK p \in paid : Serves(c, "reverse", t, p.ref, 0, "read", p.status)
    BY <1>8 DEF ReverseLook
  <2>2. 0 \in 0..MaxOpenings /\ p.status \in PaymentStates /\ p.ref \in References
    BY TillAssumption DEF TillTypeOK, PaymentRows
  <2>3. PICK r \in Requested : r.what = "reverse" /\ r.at = "read" /\ \A x \in Underway' : x \in Underway \/ x = r
    BY <2>1, <2>2, TillServes
  <2> QED  BY <2>1, <2>3 DEF Informed
<1>9. ASSUME NEW c \in Jobs, RecordLook(c) PROVE \A r \in Underway' : Informed(r)
  <2>1. PICK r \in handling[c] : r.what = "record" /\ Moves(c, [r EXCEPT !.at = "read"])  BY <1>9 DEF RecordLook
  <2>2. r \in Requested  BY DEF TillTypeOK
  <2>3. [r EXCEPT !.at = "read"].what = "record" /\ [r EXCEPT !.at = "read"].at = "read"
    BY <2>1, <2>2 DEF Requested
  <2> QED  BY <2>1, <2>2, <2>3, TillRequestKept, TillMoves DEF Informed
<1>10. ASSUME NEW c \in Jobs, TakeNumber(c) PROVE \A r \in Underway' : Informed(r)
  <2>1. PICK r \in handling[c], n \in {m + 1 : m \in Given \cup {0}} :
          /\ r.what \in {"record", "verify"} /\ IsNextNumber(n)
          /\ Moves(c, [r EXCEPT !.at = "numbered", !.no = n, !.late = FALSE])
    BY <1>10 DEF TakeNumber
  <2>2. r \in Requested /\ r \in Underway  BY DEF TillTypeOK, Underway
  <2>3. Given \subseteq Nat  BY DEF Given, TillTypeOK, PaymentRows
  <2>4. PICK m \in Given \cup {0} : n = m + 1 /\ \A k \in Given : k <= m  BY <2>1 DEF IsNextNumber
  <2>10. m \in Nat /\ n \in Nat  BY <2>3, <2>4
  <2>11. \A p \in paid : p.no \in Given  BY DEF Given
  <2>7. \A p \in paid : p.no < n
    <3> TAKE p \in paid
    <3>1. p.no \in Nat /\ p.no <= m  BY <2>3, <2>4, <2>11
    <3> QED  BY <3>1, <2>4, <2>10
  <2> DEFINE q == [r EXCEPT !.at = "numbered", !.no = n, !.late = FALSE]
  <2>5. q.what = r.what /\ q.at = "numbered" /\ q.seen = r.seen /\ q.no = n  BY <2>2 DEF Requested
  <2>6. q \in Requested  BY <2>2, <2>10, TillRequestKept
  <2> HIDE DEF q
  <2>12. n > 0  BY <2>4, <2>10
  <2>8. Informed(q)  BY <2>1, <2>2, <2>5, <2>7, <2>12 DEF Informed
  <2>9. Moves(c, q)  BY <2>1 DEF q
  <2> QED  BY <2>6, <2>8, <2>9, TillMoves
<1>11. ASSUME NEW c \in Jobs, GivenUp(c) PROVE \A r \in Underway' : Informed(r)
  <2>1. PICK r \in handling[c] : Moves(c, [r EXCEPT !.own = FALSE])  BY <1>11 DEF GivenUp
  <2>2. r \in Requested /\ r \in Underway  BY DEF TillTypeOK, Underway
  <2> DEFINE q == [r EXCEPT !.own = FALSE]
  <2>3. q.what = r.what /\ q.at = r.at /\ q.seen = r.seen /\ q.no = r.no /\ q.late = r.late  BY <2>2 DEF Requested
  <2>4. q \in Requested  BY <2>2, TillRequestKept
  <2> HIDE DEF q
  <2>5. Informed(q)  BY <2>2, <2>3 DEF Informed
  <2>6. Moves(c, q)  BY <2>1 DEF q
  <2> QED  BY <2>4, <2>5, <2>6, TillMoves
<1>12. ASSUME NEW c \in Jobs, Answered(c) \/ TillFails(c) PROVE \A r \in Underway' : Informed(r)
  BY <1>12, TillEmpties DEF Answered, TillFails
<1> QED
  BY <1>4, <1>5, <1>6, <1>7, <1>8, <1>9, <1>10, <1>11, <1>12, Zenon
  DEF TillNext, Writes, OpenSlip, ChangeReference, CloseSlip, PrintReceipt

-----------------------------------------------------------------------------
Kept ==
  /\ ReferencesDiffer /\ OnPlanAsShown /\ NumbersRise /\ ReceiptsTellApart
  /\ \A r \in Underway : Informed(r)
  /\ IsFiniteSet(paid) /\ QueueWithin

\* After a write of a numbered request nobody holds a number that is not late.
LEMMA TillNumbersLate ==
  ASSUME TillTypeOK, TillShape, \A r \in Underway : Informed(r), NEW c \in Jobs, NEW r \in handling[c],
         Commits(c, r, {"record", "verify"}), Cardinality(Claims') <= Cardinality(Claims),
         Cardinality(Claims) \in Nat, Cardinality(Claims') \in Nat
  PROVE  \A x \in Underway' : Informed(x)'
<1>1. \A x \in Underway' : \E q \in Underway : Left(x, q, {"record", "verify"})  BY TillCommits
<1> SUFFICES ASSUME NEW x \in Underway' PROVE Informed(x)'  OBVIOUS
<1>2. PICK q \in Underway : Left(x, q, {"record", "verify"})  BY <1>1
<1>3. x.what = q.what /\ x.seen = q.seen  BY <1>2 DEF Left
<1>4. Informed(q)  OBVIOUS
<1>5. x.what = "verify" => x.seen # "VERIFIED"  BY <1>3, <1>4 DEF Informed
<1>6. x.at = "numbered" => x.what \in {"record", "verify"} /\ x.no > 0 /\ x.late
  BY <1>2, <1>4 DEF Left, Informed
<1>7. x.what = "submit" /\ x.at # "done" /\ ~x.late => Cardinality(Claims) < MaxClaims
  BY <1>2, <1>4 DEF Left, Informed
<1>8. x.what = "submit" /\ x.at # "done" /\ ~x.late => Cardinality(Claims') < MaxClaims
  BY <1>7, TillAssumption
<1> QED  BY <1>5, <1>6, <1>8 DEF Informed

LEMMA TillRecordWrites ==
  ASSUME TillTypeOK, TillShape, Kept, NEW c \in Jobs, RecordWrite(c)
  PROVE  Kept'
<1>1. PICK r \in handling[c] :
       /\ r.what = "record" /\ r.at = "numbered" /\ NotTaken(r.ref)
       /\ paid' = paid \cup {[ref |-> r.ref, of |-> r.of, claim |-> FALSE, status |-> "VERIFIED",
            reversed |-> FALSE, no |-> r.no, applied |-> 1]}
       /\ Numbering(r) /\ Commits(c, r, {"record", "verify"})
  BY DEF RecordWrite
<1>2. UNCHANGED <<papers, contested, crowded>>  BY DEF RecordWrite
<1>3. r \in Underway /\ r \in Requested  BY DEF Underway, TillTypeOK
<1> DEFINE new == [ref |-> r.ref, of |-> r.of, claim |-> FALSE, status |-> "VERIFIED",
                   reversed |-> FALSE, no |-> r.no, applied |-> 1]
<1>4. new.ref = r.ref /\ new.claim = FALSE /\ new.status = "VERIFIED" /\ new.no = r.no /\ new.applied = 1
  OBVIOUS
<1>5. new \in PaymentRows  BY <1>3, TillRow
<1>6. paid' = paid \cup {new}  BY <1>1
<1> HIDE DEF new
<1>7. \A p \in paid : p.ref # new.ref  BY <1>1, <1>4 DEF NotTaken
<1>8. \A p \in paid : p.no \in Nat  BY DEF TillTypeOK, PaymentRows
<1>9. \A x \in papers : x.no \in Nat  BY DEF TillTypeOK
<1>10. r.no \in Nat  BY <1>3 DEF Requested
<1>11. new.ref \notin outnumbered' => \A p \in paid : p.no < new.no
  BY <1>1, <1>3, <1>4 DEF Numbering, Kept, Informed
<1>12. \A x : x \notin outnumbered' => x \notin outnumbered  BY <1>1 DEF Numbering
<1>13. ReferencesDiffer'  BY <1>6, <1>7 DEF ReferencesDiffer, Kept
<1>14. OnPlanAsShown'  BY <1>2, <1>4, <1>6 DEF OnPlanAsShown, Kept
<1>15. NumbersRise'
  <2>1. \A x \in papers : x.ref \notin outnumbered' => \E p \in paid : p.ref = x.ref /\ x.no <= p.no
    BY <1>12 DEF Kept, NumbersRise
  <2>2. \A x \in papers' : x.ref \notin outnumbered' => \E p \in paid' : p.ref = x.ref /\ x.no <= p.no
    BY <2>1, <1>2, <1>6
  <2>3. \A x \in papers : x.ref \notin outnumbered' /\ new.ref \notin outnumbered' => x.no # new.no
    BY <2>1, <1>4, <1>8, <1>9, <1>10, <1>11
  <2>4. \A x \in papers, p \in paid :
          x.ref # p.ref /\ x.ref \notin outnumbered' /\ p.ref \notin outnumbered' => x.no # p.no
    BY <1>12 DEF Kept, NumbersRise
  <2>5. \A x \in papers', p \in paid' :
          x.ref # p.ref /\ x.ref \notin outnumbered' /\ p.ref \notin outnumbered' => x.no # p.no
    BY <2>3, <2>4, <1>2, <1>6
  <2>6. \A p, q \in paid :
          p.ref # q.ref /\ p.no > 0 /\ p.ref \notin outnumbered' /\ q.ref \notin outnumbered' => p.no # q.no
    BY <1>12 DEF Kept, NumbersRise
  <2>7. \A p \in paid : new.ref \notin outnumbered' => p.no # new.no
    BY <1>4, <1>8, <1>10, <1>11
  <2>8. \A p, q \in paid' :
          p.ref # q.ref /\ p.no > 0 /\ p.ref \notin outnumbered' /\ q.ref \notin outnumbered' => p.no # q.no
    BY <2>6, <2>7, <1>6
  <2> QED  BY <2>2, <2>5, <2>8 DEF NumbersRise
<1>16. ReceiptsTellApart'
  <2>1. outnumbered \subseteq outnumbered'  BY <1>12
  <2> QED  BY <2>1, <1>2 DEF Kept, ReceiptsTellApart
<1>17. IsFiniteSet(paid')  BY <1>6, FS_AddElement DEF Kept
<1>18. Claims' = Claims  BY <1>4, <1>6 DEF Claims
<1>19. IsFiniteSet(Claims)  BY FS_Subset DEF Kept, Claims
<1>20. Cardinality(Claims) \in Nat  BY <1>19, FS_CardinalityType
<1>21. \A x \in Underway' : Informed(x)'
  BY <1>1, <1>18, <1>20, TillNumbersLate DEF Kept
<1>22. QueueWithin'  BY <1>2, <1>18 DEF Kept, QueueWithin
<1> QED  BY <1>13, <1>14, <1>15, <1>16, <1>17, <1>21, <1>22 DEF Kept

LEMMA TillSubmitWrites ==
  ASSUME TillTypeOK, TillShape, Kept, NEW c \in Jobs, SubmitWrite(c)
  PROVE  Kept'
<1>1. PICK r \in handling[c] :
       /\ r.what = "submit" /\ r.at = "read" /\ NotTaken(r.ref)
       /\ paid' = paid \cup {[ref |-> r.ref, of |-> 0, claim |-> TRUE, status |-> "PENDING",
            reversed |-> FALSE, no |-> 0, applied |-> 0]}
       /\ crowded' = (crowded \/ r.late)
       /\ Commits(c, r, {"submit"})
  BY DEF SubmitWrite
<1>2. UNCHANGED <<papers, contested, outnumbered>>  BY DEF SubmitWrite
<1>3. r \in Underway /\ r \in Requested  BY DEF Underway, TillTypeOK
<1> DEFINE new == [ref |-> r.ref, of |-> 0, claim |-> TRUE, status |-> "PENDING",
                   reversed |-> FALSE, no |-> 0, applied |-> 0]
<1>4. new.ref = r.ref /\ new.status = "PENDING" /\ new.no = 0 /\ new.applied = 0
  OBVIOUS
<1>5. new \in PaymentRows  BY <1>3, TillRow
<1>6. paid' = paid \cup {new}  BY <1>1
<1> HIDE DEF new
<1>7. \A p \in paid : p.ref # new.ref  BY <1>1, <1>4 DEF NotTaken
<1>8. \A p \in paid : p.no \in Nat  BY DEF TillTypeOK, PaymentRows
<1>9. \A x \in papers : x.no \in Nat \ {0}  BY DEF TillTypeOK
<1>13. ReferencesDiffer'  BY <1>6, <1>7 DEF ReferencesDiffer, Kept
<1>14. OnPlanAsShown'  BY <1>2, <1>4, <1>6 DEF OnPlanAsShown, Kept
<1>15. NumbersRise'
  <2>1. \A x \in papers' : x.ref \notin outnumbered' => \E p \in paid' : p.ref = x.ref /\ x.no <= p.no
    BY <1>2, <1>6 DEF Kept, NumbersRise
  <2>2. \A x \in papers', p \in paid' :
          x.ref # p.ref /\ x.ref \notin outnumbered' /\ p.ref \notin outnumbered' => x.no # p.no
    BY <1>2, <1>4, <1>6, <1>9 DEF Kept, NumbersRise
  <2>3. \A p, q \in paid' :
          p.ref # q.ref /\ p.no > 0 /\ p.ref \notin outnumbered' /\ q.ref \notin outnumbered' => p.no # q.no
    BY <1>2, <1>4, <1>6, <1>8 DEF Kept, NumbersRise
  <2> QED  BY <2>1, <2>2, <2>3 DEF NumbersRise
<1>16. ReceiptsTellApart'  BY <1>2 DEF Kept, ReceiptsTellApart
<1>17. IsFiniteSet(paid')  BY <1>6, FS_AddElement DEF Kept
<1>18. Claims' \subseteq Claims \cup {new}  BY <1>6 DEF Claims
<1>19. IsFiniteSet(Claims)  BY FS_Subset DEF Kept, Claims
<1>20. Cardinality(Claims) \in Nat  BY <1>19, FS_CardinalityType
<1>21. IsFiniteSet(Claims \cup {new}) /\ Cardinality(Claims \cup {new}) <= Cardinality(Claims) + 1
  <2>1. /\ IsFiniteSet(Claims \cup {new})
        /\ Cardinality(Claims \cup {new}) = IF new \in Claims THEN Cardinality(Claims) ELSE Cardinality(Claims) + 1
    BY <1>19, FS_AddElement
  <2> QED  BY <2>1, <1>20
<1>22. IsFiniteSet(Claims') /\ Cardinality(Claims') \in Nat /\ Cardinality(Claims') <= Cardinality(Claims) + 1
  <2>1. IsFiniteSet(Claims') /\ Cardinality(Claims') <= Cardinality(Claims \cup {new})
    BY <1>18, <1>21, FS_Subset
  <2>2. Cardinality(Claims') \in Nat /\ Cardinality(Claims \cup {new}) \in Nat
    BY <2>1, <1>21, FS_CardinalityType
  <2> QED  BY <2>1, <2>2, <1>20, <1>21
<1>23. QueueWithin'
  <2>1. CASE r.late
    BY <2>1, <1>1 DEF QueueWithin
  <2>2. CASE ~r.late
    <3>1. Cardinality(Claims) < MaxClaims  BY <2>2, <1>1, <1>3 DEF Kept, Informed
    <3> QED  BY <3>1, <1>20, <1>22, TillAssumption DEF QueueWithin
  <2> QED  BY <2>1, <2>2
<1>24. \A x \in Underway' : Informed(x)'
  <2> SUFFICES ASSUME NEW x \in Underway' PROVE Informed(x)'  OBVIOUS
  <2>1. PICK q \in Underway : Left(x, q, {"submit"})  BY <1>1, TillCommits
  <2>2. Informed(q)  BY DEF Kept
  <2>3. (x.what = "verify" => x.seen # "VERIFIED")
        /\ (x.at = "numbered" => x.what \in {"record", "verify"} /\ x.no > 0)
    BY <2>1, <2>2 DEF Left, Informed
  <2>4. x.what = "submit" /\ x.at # "done" => x.late  BY <2>1 DEF Left
  <2>5. x.at = "numbered" /\ ~x.late => \A p \in paid' : p.no < x.no
    <3> SUFFICES ASSUME x.at = "numbered", ~x.late PROVE \A p \in paid' : p.no < x.no  OBVIOUS
    <3>1. q.at = "numbered" /\ ~q.late /\ x.no = q.no  BY <2>1 DEF Left
    <3>2. \A p \in paid : p.no < x.no  BY <3>1, <2>2 DEF Informed
    <3>3. q.no \in Nat  BY DEF Underway, TillTypeOK, Requested
    <3>4. 0 < x.no  BY <3>1, <3>3, <2>2 DEF Informed
    <3> QED  BY <3>2, <3>4, <1>4, <1>6
  <2> QED  BY <2>3, <2>4, <2>5 DEF Informed
<1> QED  BY <1>13, <1>14, <1>15, <1>16, <1>17, <1>23, <1>24 DEF Kept

\* Rewriting a payment takes none away, adds none and makes no claim.
LEMMA TillOverwrites ==
  ASSUME TillTypeOK, Kept, NEW r, NEW p \in paid, NEW q, q.ref = p.ref, q.status # "PENDING",
         Overwrites(r, p, q), crowded' = crowded
  PROVE  /\ ReferencesDiffer' /\ IsFiniteSet(paid') /\ QueueWithin'
         /\ Cardinality(Claims') <= Cardinality(Claims)
         /\ Cardinality(Claims) \in Nat /\ Cardinality(Claims') \in Nat
<1>1. paid' = (paid \ {p}) \cup {q}  BY DEF Overwrites
<1>2. ReferencesDiffer'  BY <1>1 DEF ReferencesDiffer, Kept
<1>3. IsFiniteSet(paid')
  <2>1. IsFiniteSet(paid \ {p})  BY FS_RemoveElement DEF Kept
  <2> QED  BY <2>1, <1>1, FS_AddElement
<1>4. Claims' \subseteq Claims  BY <1>1 DEF Claims
<1>5. IsFiniteSet(Claims)  BY FS_Subset DEF Kept, Claims
<1>6. IsFiniteSet(Claims') /\ Cardinality(Claims') <= Cardinality(Claims)  BY <1>4, <1>5, FS_Subset
<1>7. Cardinality(Claims) \in Nat /\ Cardinality(Claims') \in Nat  BY <1>5, <1>6, FS_CardinalityType
<1>8. QueueWithin'  BY <1>6, <1>7, TillAssumption DEF Kept, QueueWithin
<1> QED  BY <1>2, <1>3, <1>6, <1>7, <1>8

LEMMA TillVerifyWrites ==
  ASSUME TillTypeOK, TillShape, Kept, NEW c \in Jobs, VerifyWrite(c)
  PROVE  Kept'
<1>1. PICK r \in handling[c], p \in paid :
       /\ r.what = "verify" /\ r.at = "numbered"
       /\ Overwrites(r, p, [p EXCEPT !.status = "VERIFIED", !.no = r.no, !.applied = @ + 1])
       /\ Numbering(r) /\ Commits(c, r, {"record", "verify"})
  BY DEF VerifyWrite
<1>2. UNCHANGED <<papers, crowded>>  BY DEF VerifyWrite
<1>3. r \in Underway /\ r \in Requested /\ p \in PaymentRows  BY DEF Underway, TillTypeOK
<1> DEFINE q == [p EXCEPT !.status = "VERIFIED", !.no = r.no, !.applied = @ + 1]
<1>4. q.ref = p.ref /\ q.status = "VERIFIED" /\ q.no = r.no /\ q.applied = p.applied + 1
  BY <1>3 DEF PaymentRows
<1>5. Overwrites(r, p, q)  BY <1>1
<1> HIDE DEF q
<1>6. p.ref = r.ref /\ paid' = (paid \ {p}) \cup {q}
      /\ contested' = IF p.reversed \/ p.status # r.seen THEN contested \cup {r.ref} ELSE contested
  BY <1>5 DEF Overwrites
<1>7. \A x \in paid : x.no \in Nat  BY DEF TillTypeOK, PaymentRows
<1>8. \A x \in papers : x.no \in Nat  BY DEF TillTypeOK
<1>9. r.no \in Nat /\ r.seen # "VERIFIED"  BY <1>1, <1>3 DEF Requested, Kept, Informed
<1>10. q.ref \notin outnumbered' => \A x \in paid : x.no < q.no
  BY <1>1, <1>3, <1>4, <1>6 DEF Numbering, Kept, Informed
<1>11. \A x : x \notin outnumbered' => x \notin outnumbered  BY <1>1 DEF Numbering
<1>12. OnPlanAsShown'
  <2>1. q.ref \notin contested' => q.applied = 1
    BY <1>3, <1>4, <1>6, <1>9 DEF Kept, OnPlanAsShown, PaymentRows
  <2>2. \A x \in paid : x.ref \notin contested' => x.applied = IF x.status = "VERIFIED" THEN 1 ELSE 0
    BY <1>6 DEF Kept, OnPlanAsShown
  <2> QED  BY <2>1, <2>2, <1>4, <1>6 DEF OnPlanAsShown
<1>13. NumbersRise'
  <2>1. \A x \in papers : x.ref \notin outnumbered' => \E y \in paid : y.ref = x.ref /\ x.no <= y.no
    BY <1>11 DEF Kept, NumbersRise
  <2>2. ASSUME NEW x \in papers', x.ref \notin outnumbered'
        PROVE  \E y \in paid' : y.ref = x.ref /\ x.no <= y.no
    <3>1. PICK y \in paid : y.ref = x.ref /\ x.no <= y.no  BY <2>1, <2>2, <1>2
    <3>2. CASE y # p  BY <3>1, <3>2, <1>6
    <3>3. CASE y = p
      <4>1. q.ref = x.ref /\ y.no < q.no  BY <3>1, <3>3, <2>2, <1>4, <1>10
      <4>2. x.no \in Nat /\ y.no \in Nat /\ q.no \in Nat  BY <1>2, <1>4, <1>7, <1>8, <1>9
      <4>3. x.no <= q.no  BY <4>1, <4>2, <3>1
      <4> QED  BY <4>1, <4>3, <1>6
    <3> QED  BY <3>2, <3>3
  <2>3. \A x \in papers : x.ref \notin outnumbered' /\ q.ref \notin outnumbered' => x.no # q.no
    BY <2>1, <1>4, <1>7, <1>8, <1>9, <1>10
  <2>4. \A x \in papers, y \in paid :
          x.ref # y.ref /\ x.ref \notin outnumbered' /\ y.ref \notin outnumbered' => x.no # y.no
    BY <1>11 DEF Kept, NumbersRise
  <2>5. \A x \in papers', y \in paid' :
          x.ref # y.ref /\ x.ref \notin outnumbered' /\ y.ref \notin outnumbered' => x.no # y.no
    BY <2>3, <2>4, <1>2, <1>6
  <2>6. \A x, y \in paid :
          x.ref # y.ref /\ x.no > 0 /\ x.ref \notin outnumbered' /\ y.ref \notin outnumbered' => x.no # y.no
    BY <1>11 DEF Kept, NumbersRise
  <2>7. \A x \in paid : q.ref \notin outnumbered' => x.no # q.no
    BY <1>4, <1>7, <1>9, <1>10
  <2>8. \A x, y \in paid' :
          x.ref # y.ref /\ x.no > 0 /\ x.ref \notin outnumbered' /\ y.ref \notin outnumbered' => x.no # y.no
    BY <2>6, <2>7, <1>6
  <2> QED  BY <2>2, <2>5, <2>8 DEF NumbersRise
<1>14. ReceiptsTellApart'
  <2>1. outnumbered \subseteq outnumbered'  BY <1>11
  <2> QED  BY <2>1, <1>2 DEF Kept, ReceiptsTellApart
<1>15. ReferencesDiffer' /\ IsFiniteSet(paid') /\ QueueWithin'
       /\ Cardinality(Claims') <= Cardinality(Claims)
       /\ Cardinality(Claims) \in Nat /\ Cardinality(Claims') \in Nat
  BY <1>2, <1>4, <1>5, TillOverwrites
<1>16. \A x \in Underway' : Informed(x)'
  BY <1>1, <1>15, TillNumbersLate, ZenonT(60) DEF Kept
<1> QED  BY <1>12, <1>13, <1>14, <1>15, <1>16 DEF Kept

LEMMA TillReverseWrites ==
  ASSUME TillTypeOK, TillShape, Kept, NEW c \in Jobs, ReverseWrite(c)
  PROVE  Kept'
<1>1. PICK r \in handling[c], p \in paid :
       /\ Overwrites(r, p,
            IF r.seen = "VERIFIED"
              THEN [p EXCEPT !.status = "REFUNDED", !.reversed = TRUE, !.applied = @ - 1]
              ELSE [p EXCEPT !.status = "FAILED", !.reversed = TRUE])
       /\ Commits(c, r, {})
  BY DEF ReverseWrite
<1>2. UNCHANGED <<papers, outnumbered, crowded>>  BY DEF ReverseWrite
<1>3. p \in PaymentRows  BY DEF TillTypeOK
<1> DEFINE q == IF r.seen = "VERIFIED"
                  THEN [p EXCEPT !.status = "REFUNDED", !.reversed = TRUE, !.applied = @ - 1]
                  ELSE [p EXCEPT !.status = "FAILED", !.reversed = TRUE]
<1>4. /\ q.ref = p.ref /\ q.no = p.no /\ q.status \in {"REFUNDED", "FAILED"}
      /\ q.applied = IF r.seen = "VERIFIED" THEN p.applied - 1 ELSE p.applied
  BY <1>3 DEF PaymentRows
<1>5. Overwrites(r, p, q)  BY <1>1
<1> HIDE DEF q
<1>6. p.ref = r.ref /\ paid' = (paid \ {p}) \cup {q}
      /\ contested' = IF p.reversed \/ p.status # r.seen THEN contested \cup {r.ref} ELSE contested
  BY <1>5 DEF Overwrites
<1>7. OnPlanAsShown'
  <2>1. q.ref \notin contested' => q.applied = 0
    BY <1>3, <1>4, <1>6 DEF Kept, OnPlanAsShown, PaymentRows
  <2>2. \A x \in paid : x.ref \notin contested' => x.applied = IF x.status = "VERIFIED" THEN 1 ELSE 0
    BY <1>6 DEF Kept, OnPlanAsShown
  <2> QED  BY <2>1, <2>2, <1>4, <1>6 DEF OnPlanAsShown
<1>8. NumbersRise'
  <2>1. \A x \in papers' : x.ref \notin outnumbered' => \E y \in paid' : y.ref = x.ref /\ x.no <= y.no
    BY <1>2, <1>4, <1>6 DEF Kept, NumbersRise
  <2>2. \A x \in papers', y \in paid' :
          x.ref # y.ref /\ x.ref \notin outnumbered' /\ y.ref \notin outnumbered' => x.no # y.no
    BY <1>2, <1>4, <1>6 DEF Kept, NumbersRise
  <2>3. \A x, y \in paid' :
          x.ref # y.ref /\ x.no > 0 /\ x.ref \notin outnumbered' /\ y.ref \notin outnumbered' => x.no # y.no
    BY <1>2, <1>4, <1>6 DEF Kept, NumbersRise
  <2> QED  BY <2>1, <2>2, <2>3 DEF NumbersRise
<1>9. ReceiptsTellApart'  BY <1>2 DEF Kept, ReceiptsTellApart
<1>10. ReferencesDiffer' /\ IsFiniteSet(paid') /\ QueueWithin'
       /\ Cardinality(Claims') <= Cardinality(Claims)
       /\ Cardinality(Claims) \in Nat /\ Cardinality(Claims') \in Nat
  BY <1>2, <1>4, <1>5, TillOverwrites
<1>11. \A x \in Underway' : Informed(x)'
  <2> SUFFICES ASSUME NEW x \in Underway' PROVE Informed(x)'  OBVIOUS
  <2>1. PICK y \in Underway : Left(x, y, {})  BY <1>1, TillCommits
  <2>2. Informed(y)  BY DEF Kept
  <2>3. (x.what = "verify" => x.seen # "VERIFIED")
        /\ (x.at = "numbered" => x.what \in {"record", "verify"} /\ x.no > 0)
    BY <2>1, <2>2 DEF Left, Informed
  <2>4. x.what = "submit" /\ x.at # "done" /\ ~x.late => Cardinality(Claims) < MaxClaims
    BY <2>1, <2>2 DEF Left, Informed
  <2>5. x.what = "submit" /\ x.at # "done" /\ ~x.late => Cardinality(Claims') < MaxClaims
    BY <2>4, <1>10, TillAssumption
  <2>6. x.at = "numbered" /\ ~x.late => \A z \in paid : z.no < x.no
    BY <2>1, <2>2 DEF Left, Informed
  <2>7. x.at = "numbered" /\ ~x.late => \A z \in paid' : z.no < x.no
    BY <2>6, <1>4, <1>6
  <2> QED  BY <2>3, <2>5, <2>7 DEF Informed
<1> QED  BY <1>7, <1>8, <1>9, <1>10, <1>11 DEF Kept

\* Reading, answering and printing leave the payments as they are.
LEMMA TillKeptStep ==
  ASSUME TillTypeOK, TillShape, Kept, TillNext
  PROVE  Kept'
<1>1. CASE \E c \in Jobs : Writes(c)
  BY <1>1, TillRecordWrites, TillSubmitWrites, TillVerifyWrites, TillReverseWrites, SMTT(40) DEF Writes
<1>2. CASE ~ \E c \in Jobs : Writes(c)
  <2>1. UNCHANGED <<paid, contested, outnumbered, crowded>> /\ \A r \in Underway' : Informed(r)'
    BY <1>2, TillReads DEF Kept
  <2>2. ReferencesDiffer' /\ OnPlanAsShown' /\ QueueWithin' /\ IsFiniteSet(paid')
    BY <2>1 DEF Kept, ReferencesDiffer, OnPlanAsShown, QueueWithin, Claims
  <2>3. CASE UNCHANGED papers
    BY <2>1, <2>2, <2>3 DEF Kept, NumbersRise, ReceiptsTellApart
  <2>4. CASE PrintReceipt
    <3>1. PICK p \in paid : p.no > 0 /\ papers' = papers \cup {[ref |-> p.ref, no |-> p.no]}
      BY <2>4 DEF PrintReceipt
    <3> DEFINE x == [ref |-> p.ref, no |-> p.no]
    <3>2. x.ref = p.ref /\ x.no = p.no /\ p.no \in Nat  BY DEF TillTypeOK, PaymentRows
    <3>3. papers' = papers \cup {x}  BY <3>1
    <3> HIDE DEF x
    <3>4. \A q \in paid : x.ref # q.ref /\ x.ref \notin outnumbered /\ q.ref \notin outnumbered => x.no # q.no
      BY <3>1, <3>2 DEF Kept, NumbersRise
    <3>5. \A y \in papers : x.ref # y.ref /\ x.ref \notin outnumbered /\ y.ref \notin outnumbered => x.no # y.no
      BY <3>1, <3>2 DEF Kept, NumbersRise
    <3>6. NumbersRise'
      BY <2>1, <3>2, <3>3, <3>4 DEF Kept, NumbersRise
    <3>7. ReceiptsTellApart'
      BY <2>1, <3>3, <3>5 DEF Kept, ReceiptsTellApart
    <3> QED  BY <2>1, <2>2, <3>6, <3>7 DEF Kept
  <2> QED
    BY <2>3, <2>4, <1>2 DEF TillNext, Writes, OpenSlip, ChangeReference, CloseSlip, PressRecord, SubmitLook,
       VerifyLook, ReverseLook, RecordLook, TakeNumber, Answered, TillFails, GivenUp
<1> QED  BY <1>1, <1>2

-----------------------------------------------------------------------------
\* What is sent or recorded was sent under the same reference before, or comes
\* from no form.
Inherited ==
  /\ \A x \in Underway' : x.of = 0 \/ \E q \in Underway : x.ref = q.ref /\ x.of = q.of
  /\ \A x \in paid' : x.of = 0 \/ \E q \in paid \cup Underway : x.ref = q.ref /\ x.of = q.of

LEMMA TillInherits ==
  ASSUME TillTypeOK, TillShape, TillNext, ~ \E c \in Jobs, t \in Registers : PressRecord(c, t)
  PROVE  Inherited
<1>1. (UNCHANGED paid /\ \A x \in Underway' : x.of = 0 \/ \E q \in Underway : x.ref = q.ref /\ x.of = q.of)
      => Inherited
  BY DEF Inherited
<1>2. CASE UNCHANGED <<handling, paid>>  BY <1>2, <1>1 DEF Underway
<1>3. ASSUME NEW c \in Jobs, NEW t \in Registers, SubmitLook(c, t) \/ VerifyLook(c, t) \/ ReverseLook(c, t)
      PROVE  Inherited
  <2>1. UNCHANGED paid  BY <1>3 DEF SubmitLook, VerifyLook, ReverseLook
  <2>2. 0 \in 0..MaxOpenings  BY TillAssumption
  <2>3. CASE SubmitLook(c, t)
    <3>1. PICK x \in References : Serves(c, "submit", t, x, 0, "read", "PENDING")  BY <2>3 DEF SubmitLook
    <3>2. "PENDING" \in PaymentStates  BY DEF PaymentStates
    <3>3. PICK r \in Requested : r.of = 0 /\ \A y \in Underway' : y \in Underway \/ y = r
      BY <3>1, <3>2, <2>2, TillServes
    <3> QED  BY <3>3, <2>1, <1>1
  <2>4. CASE VerifyLook(c, t)
    <3>1. PICK p \in paid : Serves(c, "verify", t, p.ref, 0, "read", p.status)  BY <2>4 DEF VerifyLook
    <3>2. p.ref \in References /\ p.status \in PaymentStates  BY DEF TillTypeOK, PaymentRows
    <3>3. PICK r \in Requested : r.of = 0 /\ \A y \in Underway' : y \in Underway \/ y = r
      BY <3>1, <3>2, <2>2, TillServes
    <3> QED  BY <3>3, <2>1, <1>1
  <2>5. CASE ReverseLook(c, t)
    <3>1. PICK p \in paid : Serves(c, "reverse", t, p.ref, 0, "read", p.status)  BY <2>5 DEF ReverseLook
    <3>2. p.ref \in References /\ p.status \in PaymentStates  BY DEF TillTypeOK, PaymentRows
    <3>3. PICK r \in Requested : r.of = 0 /\ \A y \in Underway' : y \in Underway \/ y = r
      BY <3>1, <3>2, <2>2, TillServes
    <3> QED  BY <3>3, <2>1, <1>1
  <2> QED  BY <1>3, <2>3, <2>4, <2>5
<1>4. ASSUME NEW c \in Jobs, RecordLook(c) \/ TakeNumber(c) \/ GivenUp(c) PROVE Inherited
  <2>1. UNCHANGED paid  BY <1>4 DEF RecordLook, TakeNumber, GivenUp
  <2>2. ASSUME NEW r \in handling[c], NEW q \in Requested, q.ref = r.ref, q.of = r.of, Moves(c, q)
        PROVE  Inherited
    <3>1. r \in Underway  BY DEF Underway
    <3>2. \A x \in Underway' : x \in Underway \/ x = q  BY <2>2, TillMoves
    <3> QED  BY <3>1, <3>2, <2>1, <2>2, <1>1
  <2>3. \A r \in handling[c] : r \in Requested  BY DEF TillTypeOK
  <2>4. CASE RecordLook(c)
    <3>1. PICK r \in handling[c] : Moves(c, [r EXCEPT !.at = "read"])  BY <2>4 DEF RecordLook
    <3>2. [r EXCEPT !.at = "read"].ref = r.ref /\ [r EXCEPT !.at = "read"].of = r.of
      BY <2>3 DEF Requested
    <3> QED  BY <3>1, <3>2, <2>2, <2>3, TillRequestKept
  <2>5. CASE TakeNumber(c)
    <3>1. PICK r \in handling[c], n \in {m + 1 : m \in Given \cup {0}} :
            Moves(c, [r EXCEPT !.at = "numbered", !.no = n, !.late = FALSE])
      BY <2>5 DEF TakeNumber
    <3>2. Given \subseteq Nat  BY DEF Given, TillTypeOK, PaymentRows
    <3>3. n \in Nat
      <4>1. PICK k \in Given \cup {0} : n = k + 1  BY <3>1
      <4> QED  BY <3>2, <4>1
    <3> DEFINE q == [r EXCEPT !.at = "numbered", !.no = n, !.late = FALSE]
    <3>4. q.ref = r.ref /\ q.of = r.of  BY <2>3 DEF Requested
    <3>5. q \in Requested /\ Moves(c, q)  BY <3>1, <3>3, <2>3, TillRequestKept
    <3> HIDE DEF q
    <3> QED  BY <3>4, <3>5, <2>2
  <2>6. CASE GivenUp(c)
    <3>1. PICK r \in handling[c] : Moves(c, [r EXCEPT !.own = FALSE])  BY <2>6 DEF GivenUp
    <3>2. [r EXCEPT !.own = FALSE].ref = r.ref /\ [r EXCEPT !.own = FALSE].of = r.of
      BY <2>3 DEF Requested
    <3> QED  BY <3>1, <3>2, <2>2, <2>3, TillRequestKept
  <2> QED  BY <1>4, <2>4, <2>5, <2>6
<1>5. ASSUME NEW c \in Jobs, NEW r \in handling[c], NEW kinds, Commits(c, r, kinds),
             \A x \in paid' : x.of = 0 \/ \E q \in paid \cup {r} : x.ref = q.ref /\ x.of = q.of
      PROVE  Inherited
  <2>1. r \in Underway  BY DEF Underway
  <2>2. \A x \in Underway' : \E q \in Underway : x.ref = q.ref /\ x.of = q.of
    BY <1>5, TillCommits DEF Left
  <2> QED  BY <2>1, <2>2, <1>5 DEF Inherited
<1>6. ASSUME NEW c \in Jobs, Writes(c) PROVE Inherited
  <2>1. CASE RecordWrite(c)
    <3>1. PICK r \in handling[c] :
            /\ paid' = paid \cup {[ref |-> r.ref, of |-> r.of, claim |-> FALSE, status |-> "VERIFIED",
                 reversed |-> FALSE, no |-> r.no, applied |-> 1]}
            /\ Commits(c, r, {"record", "verify"})
      BY <2>1 DEF RecordWrite
    <3>2. \A x \in paid' : x.of = 0 \/ \E q \in paid \cup {r} : x.ref = q.ref /\ x.of = q.of  BY <3>1
    <3> QED  BY <3>1, <3>2, <1>5
  <2>2. CASE SubmitWrite(c)
    <3>1. PICK r \in handling[c] :
            /\ paid' = paid \cup {[ref |-> r.ref, of |-> 0, claim |-> TRUE, status |-> "PENDING",
                 reversed |-> FALSE, no |-> 0, applied |-> 0]}
            /\ Commits(c, r, {"submit"})
      BY <2>2 DEF SubmitWrite
    <3>2. \A x \in paid' : x.of = 0 \/ \E q \in paid \cup {r} : x.ref = q.ref /\ x.of = q.of  BY <3>1
    <3> QED  BY <3>1, <3>2, <1>5
  <2>3. CASE VerifyWrite(c) \/ ReverseWrite(c)
    <3>1. PICK r \in handling[c], p \in paid :
            /\ \E kinds : Commits(c, r, kinds)
            /\ \/ Overwrites(r, p, [p EXCEPT !.status = "VERIFIED", !.no = r.no, !.applied = @ + 1])
               \/ Overwrites(r, p, [p EXCEPT !.status = "REFUNDED", !.reversed = TRUE, !.applied = @ - 1])
               \/ Overwrites(r, p, [p EXCEPT !.status = "FAILED", !.reversed = TRUE])
      BY <2>3 DEF VerifyWrite, ReverseWrite
    <3>2. p \in PaymentRows  BY DEF TillTypeOK
    <3>3. \E q : q.ref = p.ref /\ q.of = p.of /\ Overwrites(r, p, q)  BY <3>1, <3>2 DEF PaymentRows
    <3>4. \A x \in paid' : x.of = 0 \/ \E q \in paid \cup {r} : x.ref = q.ref /\ x.of = q.of
      BY <3>3 DEF Overwrites
    <3> QED  BY <3>1, <3>4, <1>5
  <2> QED  BY <1>6, <2>1, <2>2, <2>3 DEF Writes
<1>7. ASSUME NEW c \in Jobs, Answered(c) \/ TillFails(c) PROVE Inherited
  BY <1>7, <1>1, TillEmpties DEF Answered, TillFails
<1> QED
  BY <1>2, <1>3, <1>4, <1>6, <1>7
  DEF TillNext, Writes, OpenSlip, ChangeReference, CloseSlip, PrintReceipt, Histories

LEMMA TillFormsStep ==
  ASSUME TillTypeOK, TillShape, Sound, SameReference, TillNext, TillTypeOK', TillShape'
  PROVE  Sound' /\ SameReference'
<1>1. opened \in Nat /\ MaxOpenings \in Nat  BY TillAssumption DEF TillTypeOK
<1>2. (\A p \in paid : p.of \in Nat) /\ \A r \in Underway : r.of \in Nat
  BY DEF TillTypeOK, PaymentRows, Requested, Underway
<1>3. \A t \in Registers : \A f \in slip[t] :
        f \in [nth: 1..opened, ref: References \cup {NoReference}, pressed: BOOLEAN]
  BY DEF TillTypeOK
<1>4. ASSUME Inherited, opened' >= opened, opened' \in Nat
      PROVE  /\ (\A p \in paid' : p.of <= opened') /\ \A r \in Underway' : r.of <= opened'
             /\ \A n \in 1..MaxOpenings : SentAs(n)' \subseteq SentAs(n)
  <2>1. \A q \in paid \cup Underway : q.of \in Nat /\ q.of <= opened'
    BY <1>1, <1>2, <1>4 DEF Sound
  <2>2. (\A p \in paid' : p.of <= opened') /\ \A r \in Underway' : r.of <= opened'
    BY <1>4, <2>1 DEF Inherited
  <2>3. \A n \in 1..MaxOpenings : SentAs(n)' \subseteq SentAs(n)
    BY <1>4 DEF Inherited, SentAs
  <2> QED  BY <2>2, <2>3
<1>5. ASSUME NEW c \in Jobs, NEW t \in Registers, PressRecord(c, t) PROVE Sound' /\ SameReference'
  <2>1. PICK f \in slip[t] :
          /\ \E x \in References : f.ref \in {x, NoReference} /\ Serves(c, "record", t, x, f.nth, "way", "PENDING")
          /\ slip' = [slip EXCEPT ![t] = {[f EXCEPT !.pressed = TRUE]}]
          /\ retyped' = IF f.pressed /\ f.ref = NoReference THEN retyped \cup {f.nth} ELSE retyped
    BY <1>5 DEF PressRecord
  <2>2. PICK x \in References :
          f.ref \in {x, NoReference} /\ Serves(c, "record", t, x, f.nth, "way", "PENDING")
    BY <2>1
  <2>3. UNCHANGED <<paid, opened>>  BY <1>5 DEF PressRecord
  <2>4. f.nth \in Nat /\ f.nth <= opened /\ f.nth \in 0..MaxOpenings /\ "PENDING" \in PaymentStates
    <3>1. f.nth \in 1..opened /\ opened \in 0..MaxOpenings  BY <1>3 DEF TillTypeOK
    <3> QED  BY <3>1, <1>1 DEF PaymentStates
  <2>5. PICK r \in Requested : r.ref = x /\ r.of = f.nth /\ \A y \in Underway' : y \in Underway \/ y = r
    BY <2>2, <2>4, TillServes
  <2> DEFINE g == [f EXCEPT !.pressed = TRUE]
  <2>6. g.nth = f.nth /\ g.ref = f.ref /\ g.pressed  BY <1>3
  <2>7. \A u \in Registers : slip'[u] = IF u = t THEN {g} ELSE slip[u]  BY <2>1 DEF TillShape
  <2> HIDE DEF g
  <2>8. Sound'
    <3>1. \A y \in Underway' : y.of <= opened'  BY <2>3, <2>4, <2>5 DEF Sound
    <3>2. \A u, w \in Registers : \A h \in slip'[u], k \in slip'[w] : h.nth = k.nth => u = w
      BY <2>6, <2>7 DEF Sound
    <3> QED  BY <3>1, <3>2, <2>3 DEF Sound
  <2>9. SameReference'
    <3> SUFFICES ASSUME NEW n \in (1..MaxOpenings) \ retyped'
                 PROVE  /\ \A y, z \in SentAs(n)' : y = z
                        /\ \A h \in Sheets', y \in SentAs(n)' : h.nth = n => h.pressed /\ h.ref \in {y, NoReference}
      BY DEF SameReference
    <3>1. n \notin retyped  BY <2>1
    <3>2. /\ \A y, z \in SentAs(n) : y = z
          /\ \A h \in Sheets, y \in SentAs(n) : h.nth = n => h.pressed /\ h.ref \in {y, NoReference}
      BY <3>1 DEF SameReference
    <3>3. \A y \in SentAs(n)' : y \in SentAs(n) \/ (n = f.nth /\ y = x)
      BY <2>3, <2>5 DEF SentAs
    <3>4. \A h \in Sheets' : h \in Sheets \/ h = g  BY <2>7 DEF Sheets
    <3>5. CASE n # f.nth
      BY <3>2, <3>3, <3>4, <3>5, <2>6
    <3>6. CASE n = f.nth
      <4>1. f \in Sheets  BY DEF Sheets
      <4>2. \A y \in SentAs(n) : y = x
        <5> TAKE y \in SentAs(n)
        <5>1. f.pressed /\ f.ref \in {y, NoReference}  BY <4>1, <3>2, <3>6
        <5>2. f.ref # NoReference  BY <5>1, <2>1, <3>6
        <5> QED  BY <5>1, <5>2, <2>2
      <4>3. \A y \in SentAs(n)' : y = x  BY <4>2, <3>3
      <4>4. \A h \in Sheets' : h.nth = n => h = g
        <5>1. \A u \in Registers : \A h \in slip[u] : h.nth = n => u = t  BY <3>6 DEF Sound
        <5> QED  BY <5>1, <2>7 DEF Sheets
      <4> QED  BY <4>3, <4>4, <2>2, <2>6
    <3> QED  BY <3>5, <3>6
  <2> QED  BY <2>8, <2>9
<1>6. ASSUME NEW t \in Registers, OpenSlip(t), Inherited PROVE Sound' /\ SameReference'
  <2>1. PICK x \in References :
          slip' = [slip EXCEPT ![t] = {[nth |-> opened + 1, ref |-> x, pressed |-> FALSE]}]
    BY <1>6 DEF OpenSlip
  <2>2. opened' = opened + 1 /\ retyped' = retyped  BY <1>6 DEF OpenSlip, Histories
  <2> DEFINE g == [nth |-> opened + 1, ref |-> x, pressed |-> FALSE]
  <2>3. g.nth = opened + 1  OBVIOUS
  <2>4. \A u \in Registers : slip'[u] = IF u = t THEN {g} ELSE slip[u]  BY <2>1 DEF TillShape
  <2> HIDE DEF g
  <2>5. /\ (\A p \in paid' : p.of <= opened') /\ \A r \in Underway' : r.of <= opened'
        /\ \A n \in 1..MaxOpenings : SentAs(n)' \subseteq SentAs(n)
    BY <1>1, <1>4, <1>6, <2>2
  <2>6. \A u \in Registers : \A f \in slip[u] : f.nth # opened + 1
    <3> TAKE u \in Registers
    <3> TAKE f \in slip[u]
    <3>1. f.nth \in 1..opened  BY <1>3
    <3> QED  BY <3>1, <1>1
  <2>7. \A u, w \in Registers : \A h \in slip'[u], k \in slip'[w] : h.nth = k.nth => u = w
    BY <2>3, <2>4, <2>6 DEF Sound
  <2>8. SentAs(opened + 1) = {}
    <3>1. \A q \in paid \cup Underway : q.of # opened + 1
      <4> TAKE q \in paid \cup Underway
      <4>1. q.of \in Nat /\ q.of <= opened  BY <1>2 DEF Sound
      <4> QED  BY <4>1, <1>1
    <3> QED  BY <3>1 DEF SentAs
  <2>9. SameReference'
    <3> SUFFICES ASSUME NEW n \in (1..MaxOpenings) \ retyped
                 PROVE  /\ \A y, z \in SentAs(n)' : y = z
                        /\ \A h \in Sheets', y \in SentAs(n)' : h.nth = n => h.pressed /\ h.ref \in {y, NoReference}
      BY <2>2 DEF SameReference
    <3>1. /\ \A y, z \in SentAs(n) : y = z
          /\ \A h \in Sheets, y \in SentAs(n) : h.nth = n => h.pressed /\ h.ref \in {y, NoReference}
      BY DEF SameReference
    <3>2. SentAs(n)' \subseteq SentAs(n)  BY <2>5
    <3>3. \A h \in Sheets' : h \in Sheets \/ h = g  BY <2>4 DEF Sheets
    <3> QED  BY <3>1, <3>2, <3>3, <2>3, <2>8
  <2> QED  BY <2>5, <2>7, <2>9 DEF Sound
<1>7. ASSUME NEW t \in Registers, ChangeReference(t), Inherited PROVE Sound' /\ SameReference'
  <2>1. PICK f \in slip[t], x \in References \cup {NoReference} :
          /\ slip' = [slip EXCEPT ![t] = {[f EXCEPT !.ref = x]}]
          /\ retyped' = IF f.pressed THEN retyped \cup {f.nth} ELSE retyped
          /\ opened' = opened
    BY <1>7 DEF ChangeReference
  <2> DEFINE g == [f EXCEPT !.ref = x]
  <2>2. g.nth = f.nth  BY <1>3
  <2>3. \A u \in Registers : slip'[u] = IF u = t THEN {g} ELSE slip[u]  BY <2>1 DEF TillShape
  <2> HIDE DEF g
  <2>4. /\ (\A p \in paid' : p.of <= opened') /\ \A r \in Underway' : r.of <= opened'
        /\ \A n \in 1..MaxOpenings : SentAs(n)' \subseteq SentAs(n)
    BY <1>1, <1>4, <1>7, <2>1
  <2>5. \A u, w \in Registers : \A h \in slip'[u], k \in slip'[w] : h.nth = k.nth => u = w
    BY <2>2, <2>3 DEF Sound
  <2>6. SameReference'
    <3> SUFFICES ASSUME NEW n \in (1..MaxOpenings) \ retyped'
                 PROVE  /\ \A y, z \in SentAs(n)' : y = z
                        /\ \A h \in Sheets', y \in SentAs(n)' : h.nth = n => h.pressed /\ h.ref \in {y, NoReference}
      BY DEF SameReference
    <3>1. n \notin retyped /\ (n = f.nth => ~f.pressed)  BY <2>1
    <3>2. /\ \A y, z \in SentAs(n) : y = z
          /\ \A h \in Sheets, y \in SentAs(n) : h.nth = n => h.pressed /\ h.ref \in {y, NoReference}
      BY <3>1 DEF SameReference
    <3>3. SentAs(n)' \subseteq SentAs(n)  BY <2>4
    <3>4. \A h \in Sheets' : h \in Sheets \/ h = g  BY <2>3 DEF Sheets
    <3>5. n = f.nth => SentAs(n) = {}  BY <3>1, <3>2 DEF Sheets
    <3> QED  BY <3>2, <3>3, <3>4, <3>5, <2>2
  <2> QED  BY <2>4, <2>5, <2>6 DEF Sound
<1>8. ASSUME Inherited, UNCHANGED <<opened, retyped>>, \A t \in Registers : slip'[t] \subseteq slip[t]
      PROVE  Sound' /\ SameReference'
  <2>1. /\ (\A p \in paid' : p.of <= opened') /\ \A r \in Underway' : r.of <= opened'
        /\ \A n \in 1..MaxOpenings : SentAs(n)' \subseteq SentAs(n)
    BY <1>1, <1>4, <1>8
  <2>2. \A u, w \in Registers : \A h \in slip'[u], k \in slip'[w] : h.nth = k.nth => u = w
    BY <1>8 DEF Sound
  <2>3. Sheets' \subseteq Sheets  BY <1>8 DEF Sheets
  <2>4. SameReference'  BY <1>8, <2>1, <2>3 DEF SameReference
  <2> QED  BY <2>1, <2>2, <2>4 DEF Sound
<1>9. CASE \E c \in Jobs, t \in Registers : PressRecord(c, t)  BY <1>5, <1>9
<1>10. CASE ~ \E c \in Jobs, t \in Registers : PressRecord(c, t)
  <2>1. Inherited  BY <1>10, TillInherits
  <2>2. CASE \E t \in Registers : OpenSlip(t) \/ ChangeReference(t)  BY <2>1, <2>2, <1>6, <1>7
  <2>3. ASSUME NEW t \in Registers, CloseSlip(t) PROVE Sound' /\ SameReference'
    <3>1. \A u \in Registers : slip'[u] \subseteq slip[u]  BY <2>3 DEF CloseSlip, TillShape
    <3> QED  BY <3>1, <2>1, <2>3, <1>8 DEF CloseSlip, Histories
  <2>4. ASSUME NEW c \in Jobs, Answered(c) PROVE Sound' /\ SameReference'
    <3>1. \A u \in Registers : slip'[u] \subseteq slip[u]  BY <2>4 DEF Answered, TillShape
    <3> QED  BY <3>1, <2>1, <2>4, <1>8 DEF Answered, Histories
  <2>5. CASE UNCHANGED <<slip, opened, retyped>>  BY <2>1, <2>5, <1>8
  <2> QED
    BY <1>10, <2>2, <2>3, <2>4, <2>5
    DEF TillNext, SubmitLook, VerifyLook, ReverseLook, RecordLook, TakeNumber, RecordWrite, SubmitWrite,
        VerifyWrite, ReverseWrite, TillFails, GivenUp, PrintReceipt, Histories
<1> QED  BY <1>9, <1>10

-----------------------------------------------------------------------------
LEMMA TillStep ==
  ASSUME TillInv, [TillNext]_tillVars PROVE TillInv'
<1>1. TillTypeOK' /\ TillShape'  BY TillTypeStep DEF TillInv
<1>2. CASE TillNext
  <2>1. Kept'  BY <1>2, TillKeptStep DEF TillInv, Kept
  <2>2. Sound' /\ SameReference'  BY <1>1, <1>2, TillFormsStep DEF TillInv
  <2> QED  BY <1>1, <2>1, <2>2 DEF TillInv, Kept
<1>3. CASE UNCHANGED tillVars
  <2>1. UNCHANGED <<Underway, Sheets, Claims>> /\ \A r : Informed(r)' <=> Informed(r)
    BY <1>3 DEF tillVars, Underway, Sheets, Claims, Informed
  <2>2. \A n : SentAs(n)' = SentAs(n)  BY <1>3, <2>1 DEF tillVars, SentAs
  <2> QED
    BY <1>1, <1>3, <2>1, <2>2 DEF tillVars, TillInv, Sound, SameReference, ReferencesDiffer, OnPlanAsShown,
       NumbersRise, ReceiptsTellApart, QueueWithin
<1> QED  BY <1>2, <1>3

\* A payment from a form that was opened, and of no other payment: PaidOnce.
LEMMA TillImplies ==
  ASSUME TillInv PROVE TillInOrder
<1>1. \A p, q \in paid : p # q /\ p.of = q.of => p.of \in {0} \cup retyped
  <2> SUFFICES ASSUME NEW p \in paid, NEW q \in paid, p # q, p.of = q.of, p.of \notin {0} \cup retyped
               PROVE  FALSE
    OBVIOUS
  <2>1. p.of \in 0..MaxOpenings  BY DEF TillInv, TillTypeOK, PaymentRows
  <2>2. p.of \in (1..MaxOpenings) \ retyped  BY <2>1, TillAssumption
  <2>3. p.ref \in SentAs(p.of) /\ q.ref \in SentAs(p.of)  BY DEF SentAs
  <2>4. p.ref = q.ref  BY <2>2, <2>3 DEF TillInv, SameReference
  <2> QED  BY <2>4 DEF TillInv, ReferencesDiffer
<1>2. PaidOnce  BY <1>1 DEF PaidOnce, TillInv, ReferencesDiffer, OnPlanAsShown
<1> QED  BY <1>2 DEF TillInOrder, TillInv

\* For any registers, jobs, references and limits: every variable of the till
\* keeps its type.
THEOREM TillTypeCorrect == TillSpec => []TillTypeOK
<1>1. TillInv /\ [TillNext]_tillVars => TillInv'  BY TillStep
<1>2. TillInit => TillInv  BY TillInitOK
<1>3. TillInv => TillTypeOK  BY DEF TillInv
<1> QED  BY <1>1, <1>2, <1>3, PTL DEF TillSpec

\* Money handed over once is on its plan once, receipts tell payments apart,
\* and a customer's claims stay within their number, whatever is lost, repeated
\* or overlaps, with the exceptions the properties name.
THEOREM TillStaysInOrder == TillSpec => []TillInOrder
<1>1. TillInv /\ [TillNext]_tillVars => TillInv'  BY TillStep
<1>2. TillInit => TillInv  BY TillInitOK
<1>3. TillInv => TillInOrder  BY TillImplies
<1> QED  BY <1>1, <1>2, <1>3, PTL DEF TillSpec

=============================================================================
