--------------------------- MODULE MCLockEnrolment --------------------------
(***************************************************************************)
(* The lock protocol as deployed, which follows one phone and one code,    *)
(* and with the simulator mounted; beside it the codes and locks that      *)
(* several phones compete for, and the way a shop comes to its locks: a    *)
(* behaviour chooses one of the four and leaves the others as they began.  *)
(***************************************************************************)
EXTENDS MCLockProtocol, Enrolment, Orders

VARIABLE part  \* the part at work

allVars == <<part, vars, enrolVars, orderVars>>

AllInit ==
  /\ part \in {"lock", "simulated", "enrolment", "orders"}
  /\ Init /\ (part # "lock" => phone.owner)
  /\ EnrolInit
  /\ OrdersInit

\* What the simulator adds.
SimStep ==
  \/ SimOffline
  \/ \E c \in Calls : SimOnline(c) \/ SimReboot(c) \/ Enroll(NoSync, c)

\* Bounds.  While two threads are at work the deal stands once it is signed and no
\* code runs out.  With the simulator mounted the app keeps to one thread, the
\* offline rule is off, and the phone is enrolled once, gets no code after that,
\* and is not reset.
Deployed == ~SimStep /\ ~VoidAgreement /\ ~PlanDrift /\ ~QrExpires

Simulated ==
  /\ ~Wipe
  /\ device.token # NoToken => device'.token = device.token /\ ~IssueQr
  /\ \A s \in Syncs : ~sync'[s].selfLock
  /\ Cardinality({s \in Syncs : sync'[s].pc # "idle"}) <= 1

One(S) == CHOOSE x \in S : TRUE

\* Bound: after a failed redemption has brought a code back, no further code is
\* issued.  The codes may run out, which is the model's end and not the
\* program's.
StillOpen == revived # {} => code[NCodes].status = "NONE"

\* Bounds.  Signing up ends before money arrives, and giving begins after; a form may
\* be sent again while an earlier sign-up goes on.  Of a second shop, pack size,
\* payment and page there is one at a time, and the second page lists orders.
OrdersWithin ==
  LET small == One(PackSizes) box == One(Boxes)
      later == Offices \ {One(Offices)}
      shut == \A a \in Offices : office[a] = {}
      seconds ==
        {x \in {"shop", "size", "payment", "page"} :
           CASE x = "shop" -> \E s \in shops : s.email.box # box
             [] x = "size" -> \E m \in money : m.size # small
             [] x = "payment" -> Cardinality(money) > 1
             [] x = "page" -> \E a \in later : office[a] # {}}
  IN
  /\ \A w \in Applicants :
       /\ Cardinality(signing[w]) <= 2
       /\ signing[w] # {} => money = {}
       /\ signing[w] # {} \/ signup[w] # {} => shut /\ \A s \in shops : s.email.box = box
       /\ \A f \in signup[w] :
            /\ money # {} => f.at = "done"
            /\ f.email.box # box => f.email.spelling = One(Spellings) /\ f.size = small
  /\ Cardinality(seconds) <= 1
  /\ ~shut => \A s \in shops : s.email.spelling = One(Spellings) /\ s.order \in {small, NoOrder}
  /\ \A a \in Offices : Cardinality(giving[a]) <= 1
  /\ \A a \in later : \A p \in office[a] : p.kind = "orders" /\ ~p.failed /\ \A r \in giving[a] : r.own
  /\ \A k \in packs : k.id <= Cardinality(packs)
  /\ \A m \in money : m.slip <= Cardinality(money)

OrdersOpen ==
  /\ OrdersWithin
  /\ raced = {} /\ blind = {} /\ \A a \in Offices : \A p \in office[a] : ~p.mixed

AllNext ==
  \/ part = "lock" /\ Next /\ Deployed /\ UNCHANGED <<part, enrolVars, orderVars>>
  \/ part = "simulated" /\ Next /\ Simulated /\ UNCHANGED <<part, enrolVars, orderVars>>
  \/ part = "enrolment" /\ StillOpen /\ EnrolNext /\ UNCHANGED <<part, vars, orderVars>>
  \/ part = "orders" /\ OrdersOpen /\ OrdersNext /\ UNCHANGED <<part, vars, enrolVars>>
  \/ part \notin {"lock", "simulated"} /\ UNCHANGED allVars

AllSpec == AllInit /\ [][AllNext]_allVars

\* Devices and redemptions are interchangeable too.
Interchangeable ==
  Symmetry \cup {f @@ g : f \in Permutations(Handsets),
                      g \in Permutations(Redeemers)}

=============================================================================
