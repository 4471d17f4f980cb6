---------------------------- MODULE Merchant_proofs ----------------------------
(***************************************************************************)
(* Proofs about a restaurant on the platform: the one trial plan, the paid *)
(* time and what it promises, approvals, and its payouts.                  *)
(***************************************************************************)
EXTENDS Payouts, Onboarding, SumTheorems

-------------------------------------------------------------------------------
(* Plans.                                                                  *)
HeldForSub(held) == DOMAIN held = DOMAIN SubNothing

SubControlOK ==
    /\ DOMAIN subPc = SubscriptionActors
    /\ DOMAIN subLoc = SubscriptionActors
    /\ \A x \in SubscriptionActors : HeldForSub(subLoc[x])

PlanShape == /\ DOMAIN plan = Slugs
             /\ \A s \in Slugs : DOMAIN plan[s] = DOMAIN NoPlan

(* While two plans are flagged, somebody is about to clear.                *)
TrialInv ==
    /\ SubControlOK /\ PlanShape
    /\ \A s, t \in TrialPlans : s # t => \E a \in PlanAdmins : subPc[a] = "clearTrial"

LEMMA SubFields ==
    /\ DOMAIN NoPlan = {"exists", "prices", "archived", "isTrial"}
    /\ DOMAIN SubNothing = {"slug", "prices", "trial", "of", "months", "id", "start", "end"}
    /\ DOMAIN NoBill = {"of", "slug", "months", "status", "age", "charged", "start", "end"}
    /\ DOMAIN NoSubscription = {"tier", "months", "end", "trial", "cap", "trialCap", "seat"}
    /\ HeldForSub(SubNothing)
BY DEF NoPlan, SubNothing, NoBill, NoSubscription, HeldForSub

LEMMA SubWalk ==
    ASSUME SubControlOK, NEW x \in SubscriptionActors, NEW label, NEW held, HeldForSub(held),
           SubGo(x, label, held)
    PROVE  /\ SubControlOK'
           /\ subPc'[x] = label /\ subLoc'[x] = held
           /\ \A y \in SubscriptionActors : y # x => subPc'[y] = subPc[y] /\ subLoc'[y] = subLoc[y]
BY DEF SubControlOK, SubGo, HeldForSub

LEMMA SubDoneGoes ==
    ASSUME NEW x, SubDone(x) PROVE SubGo(x, "idle", SubNothing)
BY DEF SubDone

PlanLabels == {"idle", "createPlan", "writePlan", "clearTrial", "archive", "unarchive", "removePlan"}

(* A plan admin walks through labels of his own and touches only plans.    *)
LEMMA PlanAdminWalks ==
    ASSUME SubControlOK, NEW a \in SubscriptionActors, PlanAdminStep(a)
    PROVE  /\ UNCHANGED <<sub, opened, products, bill, platform, clock>>
           /\ subPc[a] \in PlanLabels
           /\ \E label \in PlanLabels : \E held : HeldForSub(held) /\ SubGo(a, label, held)
<1> DEFINE l == subLoc[a]
           Walk == \E label \in PlanLabels : \E held : HeldForSub(held) /\ SubGo(a, label, held)
<1>l. HeldForSub(l) /\ HeldForSub(SubNothing) BY SubFields DEF SubControlOK
<1>d. SubDone(a) => Walk BY <1>l, SubDoneGoes DEF PlanLabels
<1>w. AfterPlanWrite(a) => Walk BY <1>l, <1>d DEF AfterPlanWrite, PlanLabels
<1>0. UNCHANGED <<sub, opened, products, bill, platform, clock>>
  BY DEF PlanAdminStep, ReadNewPlan, CreatePlan, ReadPlan, WritePlan, ClearTrialFlags,
         ReadArchive, ArchivePlan, ReadRemoval, RemovePlan
<1>1. subPc[a] \in PlanLabels
  BY DEF PlanLabels, PlanAdminStep, ReadNewPlan, CreatePlan, ReadPlan, WritePlan, ClearTrialFlags,
         ReadArchive, ArchivePlan, ReadRemoval, RemovePlan
<1>2. Walk
  <2>1. CASE ReadNewPlan(a)
    <3>1. PICK s, prices, trial : SubGo(a, "createPlan", [SubNothing EXCEPT
                                            !.slug = s, !.prices = prices, !.trial = trial])
      BY <2>1 DEF ReadNewPlan
    <3>2. HeldForSub([SubNothing EXCEPT !.slug = s, !.prices = prices, !.trial = trial])
      BY SubFields DEF HeldForSub
    <3> QED BY <3>1, <3>2 DEF PlanLabels
  <2>2. CASE CreatePlan(a) BY <2>2, <1>d, <1>w DEF CreatePlan
  <2>3. CASE ReadPlan(a)
    <3>1. PICK s, prices, trial : SubGo(a, "writePlan", [SubNothing EXCEPT
                                            !.slug = s, !.prices = prices, !.trial = trial])
      BY <2>3 DEF ReadPlan
    <3>2. HeldForSub([SubNothing EXCEPT !.slug = s, !.prices = prices, !.trial = trial])
      BY SubFields DEF HeldForSub
    <3> QED BY <3>1, <3>2 DEF PlanLabels
  <2>4. CASE WritePlan(a) BY <2>4, <1>w DEF WritePlan
  <2>5. CASE ClearTrialFlags(a) BY <2>5, <1>d DEF ClearTrialFlags
  <2>6. CASE ReadArchive(a)
    <3>1. PICK s, how : /\ how \in {"archive", "unarchive"}
                        /\ SubGo(a, how, [SubNothing EXCEPT !.slug = s])
      BY <2>6 DEF ReadArchive
    <3>2. HeldForSub([SubNothing EXCEPT !.slug = s]) BY SubFields DEF HeldForSub
    <3> QED BY <3>1, <3>2 DEF PlanLabels
  <2>7. CASE ArchivePlan(a) BY <2>7, <1>d DEF ArchivePlan
  <2>8. CASE ReadRemoval(a)
    <3>1. PICK s : SubGo(a, "removePlan", [SubNothing EXCEPT !.slug = s]) BY <2>8 DEF ReadRemoval
    <3>2. HeldForSub([SubNothing EXCEPT !.slug = s]) BY SubFields DEF HeldForSub
    <3> QED BY <3>1, <3>2 DEF PlanLabels
  <2>9. CASE RemovePlan(a) BY <2>9, <1>d DEF RemovePlan
  <2> QED BY <2>1, <2>2, <2>3, <2>4, <2>5, <2>6, <2>7, <2>8, <2>9 DEF PlanAdminStep
<1> QED BY <1>0, <1>1, <1>2

(* No step raises a flag without being about to clear the others.          *)
LEMMA PlanTrial ==
    ASSUME TrialInv, NEW a \in PlanAdmins, PlanAdminStep(a)
    PROVE  TrialInv'
<1>0. SubControlOK /\ PlanShape /\ a \in SubscriptionActors BY DEF TrialInv, SubscriptionActors
<1>1. PICK label, held : label \in PlanLabels /\ HeldForSub(held) /\ SubGo(a, label, held)
  BY <1>0, PlanAdminWalks
<1>2. SubControlOK' BY <1>0, <1>1, SubWalk
<1>3. /\ subPc'[a] = label
      /\ \A y \in SubscriptionActors : y # a => subPc'[y] = subPc[y]
  BY <1>0, <1>1, SubWalk
<1>4. PlanAdmins \subseteq SubscriptionActors BY DEF SubscriptionActors
<1>5. CASE /\ PlanShape' /\ TrialPlans' \subseteq TrialPlans /\ subPc[a] # "clearTrial"
  BY <1>2, <1>3, <1>4, <1>5 DEF TrialInv
<1>6. CASE PlanShape' /\ subPc'[a] = "clearTrial"
  BY <1>2, <1>6 DEF TrialInv
<1>7. CASE ReadNewPlan(a) \/ ReadPlan(a) \/ ReadArchive(a) \/ ReadRemoval(a)
  <2>1. UNCHANGED plan /\ subPc[a] = "idle"
    BY <1>7 DEF ReadNewPlan, ReadPlan, ReadArchive, ReadRemoval
  <2>2. PlanShape' /\ TrialPlans' \subseteq TrialPlans BY <1>0, <2>1 DEF PlanShape, TrialPlans
  <2> QED BY <1>5, <2>1, <2>2
<1>8. CASE CreatePlan(a)
  <2> DEFINE s == subLoc[a].slug
             new == [exists |-> TRUE, prices |-> subLoc[a].prices, archived |-> FALSE,
                     isTrial |-> subLoc[a].trial = "yes"]
  <2>1. subPc[a] = "createPlan" BY <1>8 DEF CreatePlan
  <2>2. CASE plan[s].exists
    <3>1. UNCHANGED plan BY <1>8, <2>2 DEF CreatePlan
    <3>2. PlanShape' /\ TrialPlans' \subseteq TrialPlans BY <1>0, <3>1 DEF PlanShape, TrialPlans
    <3> QED BY <1>5, <2>1, <3>2
  <2>3. CASE ~plan[s].exists
    <3>1. plan' = [plan EXCEPT ![s] = new] /\ AfterPlanWrite(a) BY <1>8, <2>3 DEF CreatePlan
    <3>2. DOMAIN new = DOMAIN NoPlan /\ (new.isTrial => subLoc[a].trial = "yes") BY SubFields
    <3> HIDE DEF new
    <3>3. PlanShape' BY <1>0, <3>1, <3>2 DEF PlanShape
    <3>4. CASE subLoc[a].trial = "yes"
      <4>1. SubGo(a, "clearTrial", subLoc[a]) BY <3>1, <3>4 DEF AfterPlanWrite
      <4>2. subPc'[a] = "clearTrial" BY <1>0, <4>1, SubWalk DEF SubControlOK
      <4> QED BY <1>6, <3>3, <4>2
    <3>5. CASE subLoc[a].trial # "yes"
      <4>1. \A t \in Slugs : t # s => plan'[t] = plan[t] BY <1>0, <3>1 DEF PlanShape
      <4>2. s \in Slugs => plan'[s] = new BY <1>0, <3>1 DEF PlanShape
      <4>3. TrialPlans' \subseteq TrialPlans BY <3>2, <3>5, <4>1, <4>2 DEF TrialPlans
      <4> QED BY <1>5, <2>1, <3>3, <4>3
    <3> QED BY <3>4, <3>5
  <2> QED BY <2>2, <2>3
<1>9. CASE WritePlan(a)
  <2> DEFINE s == subLoc[a].slug
             flag == CASE subLoc[a].trial = "yes" -> TRUE
                       [] subLoc[a].trial = "no" -> FALSE
                       [] OTHER -> plan[s].isTrial
             new == [plan[s] EXCEPT !.prices = subLoc[a].prices, !.isTrial = flag]
  <2>1. subPc[a] = "writePlan" /\ AfterPlanWrite(a) BY <1>9 DEF WritePlan
  <2>2. plan' = plan \/ plan' = [plan EXCEPT ![s] = new]
    BY <1>0, <1>9 DEF WritePlan, PlanShape
  <2>3. subLoc[a].trial # "yes" => flag = FALSE \/ flag = plan[s].isTrial OBVIOUS
  <2> HIDE DEF flag
  <2>4. s \in Slugs => /\ DOMAIN new = DOMAIN NoPlan
                       /\ new.exists = plan[s].exists /\ new.isTrial = flag
    BY <1>0, SubFields DEF PlanShape
  <2> HIDE DEF new
  <2>5. PlanShape' BY <1>0, <2>2, <2>4 DEF PlanShape
  <2>6. CASE subLoc[a].trial = "yes"
    <3>1. SubGo(a, "clearTrial", subLoc[a]) BY <2>1, <2>6 DEF AfterPlanWrite
    <3>2. subPc'[a] = "clearTrial" BY <1>0, <3>1, SubWalk DEF SubControlOK
    <3> QED BY <1>6, <2>5, <3>2
  <2>7. CASE subLoc[a].trial # "yes"
    <3>1. TrialPlans' \subseteq TrialPlans
      BY <1>0, <2>2, <2>3, <2>4, <2>7 DEF TrialPlans, PlanShape
    <3> QED BY <1>5, <2>1, <2>5, <3>1
  <2> QED BY <2>6, <2>7
<1>10. CASE ClearTrialFlags(a)
  <2>1. plan' = [s \in Slugs |-> IF s = subLoc[a].slug THEN plan[s]
                                 ELSE [plan[s] EXCEPT !.isTrial = FALSE]]
    BY <1>10 DEF ClearTrialFlags
  <2>2. PlanShape' BY <1>0, <2>1 DEF PlanShape
  <2>3. \A s \in Slugs : s # subLoc[a].slug => plan'[s].isTrial = FALSE
    BY <1>0, <2>1, SubFields DEF PlanShape
  <2>4. \A s, t \in TrialPlans' : s = t BY <2>3 DEF TrialPlans
  <2> QED BY <1>2, <2>2, <2>4 DEF TrialInv
<1>11. CASE ArchivePlan(a)
  <2>1. PICK s, x : plan' = plan \/ plan' = [plan EXCEPT ![s].archived = x]
    BY <1>11 DEF ArchivePlan
  <2>2. subPc[a] # "clearTrial" BY <1>11 DEF ArchivePlan
  <2>3. PlanShape' /\ \A t \in Slugs : /\ plan'[t].exists = plan[t].exists
                                       /\ plan'[t].isTrial = plan[t].isTrial
    BY <1>0, <2>1, SubFields DEF PlanShape
  <2>4. TrialPlans' \subseteq TrialPlans BY <2>3 DEF TrialPlans
  <2> QED BY <1>5, <2>2, <2>3, <2>4
<1>12. CASE RemovePlan(a)
  <2>1. plan' = [plan EXCEPT ![subLoc[a].slug] = NoPlan] /\ subPc[a] # "clearTrial"
    BY <1>12 DEF RemovePlan
  <2>2. PlanShape' BY <1>0, <2>1 DEF PlanShape
  <2>3. \A t \in Slugs : plan'[t] = plan[t] \/ ~plan'[t].exists
    BY <1>0, <2>1 DEF PlanShape, NoPlan
  <2>4. TrialPlans' \subseteq TrialPlans BY <2>3 DEF TrialPlans
  <2> QED BY <1>5, <2>1, <2>2, <2>4
<1> QED BY <1>7, <1>8, <1>9, <1>10, <1>11, <1>12 DEF PlanAdminStep

-------------------------------------------------------------------------------
(* Applications.                                                           *)
HeldForJoin(held) == DOMAIN held = DOMAIN JoinNothing /\ DOMAIN held.doc = DOMAIN NoForm

JoinControlOK ==
    /\ DOMAIN joinPc = Joiners
    /\ DOMAIN joinLoc = Joiners
    /\ \A x \in Joiners : HeldForJoin(joinLoc[x])

JoinDocsOK ==
    /\ DOMAIN form = Forms /\ \A f \in Forms : DOMAIN form[f] = DOMAIN NoForm
    /\ DOMAIN account = Restaurants
    /\ \A m \in Restaurants : /\ DOMAIN account[m] = DOMAIN NoAccount
                              /\ account[m] # NoAccount => account[m].email \in Emails
    /\ DOMAIN branch = Restaurants
    /\ opened \subseteq Restaurants

(* An application with a restaurant is the one that restaurant was opened  *)
(* for.                                                                    *)
FormOK(f) ==
    LET m == form[f].merchant
    IN  /\ form[f].status # "none" => form[f].email \in Emails
        /\ form[f].status \in {"APPROVED", "ONBOARDED"} => m # "none"
        /\ m # "none" => /\ form[f].status # "none"
                         /\ m \in opened
                         /\ account[m].email = form[f].email
                         /\ branch[m] = form[f].name

Approving == {"createUser", "open", "approve"}
Holding   == {"open", "approve"}

(* An approval knows its application as it still is; the account it has    *)
(* created is for that applicant.                                          *)
JoinerOK(x) ==
    LET l == joinLoc[x]
    IN  /\ joinPc[x] = "submit" =>
              l.doc.status = "PENDING" /\ l.doc.merchant = "none" /\ l.doc.email \in Emails
        /\ joinPc[x] = "decide" => /\ form[l.form].status # "none"
                                   /\ l.doc.status \in {"UNDER_REVIEW", "REJECTED"}
        /\ joinPc[x] \in Approving \cup {"decide"} => l.form \in Forms
        /\ joinPc[x] \in Approving => /\ form[l.form].status # "none"
                                      /\ l.doc.email = form[l.form].email
                                      /\ l.doc.name = form[l.form].name
        /\ joinPc[x] \in Holding => account[l.merchant].email = l.doc.email
        /\ joinPc[x] \in Holding \cup {"onboard"} =>
              l.merchant \in Restaurants /\ account[l.merchant] # NoAccount
        /\ joinPc[x] = "approve" => l.merchant \in opened /\ branch[l.merchant] = l.doc.name

(* Nobody else has the restaurant an approval is working on.               *)
Unclaimed(x) ==
    joinPc[x] \in Holding =>
        /\ \A f \in Forms : form[f].merchant # joinLoc[x].merchant
        /\ \A y \in Joiners : joinPc[y] \in Holding /\ joinLoc[y].merchant = joinLoc[x].merchant
                                 => y = x

OneFormEach ==
    \A f, g \in Forms : form[f].merchant = form[g].merchant /\ form[f].merchant # "none" => f = g

JoinInv ==
    /\ JoinControlOK /\ JoinDocsOK /\ OneFormEach
    /\ \A f \in Forms : FormOK(f)
    /\ \A x \in Joiners : JoinerOK(x) /\ Unclaimed(x)

LEMMA JoinFields ==
    /\ DOMAIN JoinNothing = {"form", "doc", "merchant", "trials", "seat"}
    /\ DOMAIN NoForm = {"email", "phone", "name", "status", "merchant"}
    /\ DOMAIN NoAccount = {"email", "phone", "ready"}
    /\ NoForm.status = "none" /\ NoForm.merchant = "none" /\ NoAccount.email = "none"
    /\ JoinNothing.doc = NoForm
    /\ HeldForJoin(JoinNothing)
BY DEF JoinNothing, NoForm, NoAccount, HeldForJoin

LEMMA JoinWalk ==
    ASSUME JoinControlOK, NEW x \in Joiners, NEW label, NEW held, HeldForJoin(held),
           JoinGo(x, label, held)
    PROVE  /\ JoinControlOK'
           /\ joinPc'[x] = label /\ joinLoc'[x] = held
           /\ \A y \in Joiners : y # x => joinPc'[y] = joinPc[y] /\ joinLoc'[y] = joinLoc[y]
BY DEF JoinControlOK, JoinGo, HeldForJoin

LEMMA JoinDoneGoes ==
    ASSUME NEW x, JoinDone(x) PROVE JoinGo(x, "idle", JoinNothing)
BY DEF JoinDone

(* A handler reads, or gives up: it holds no restaurant afterwards that it *)
(* did not hold before.                                                    *)
LEMMA JoinMoves ==
    ASSUME JoinInv, NEW x \in Joiners, NEW label, NEW held, HeldForJoin(held),
           JoinGo(x, label, held), JoinerOK(x)', label \notin Holding,
           UNCHANGED <<form, account, branch, opened>>
    PROVE  JoinInv'
<1>0. JoinControlOK BY DEF JoinInv
<1>1. /\ JoinControlOK' /\ joinPc'[x] = label
      /\ \A y \in Joiners : y # x => joinPc'[y] = joinPc[y] /\ joinLoc'[y] = joinLoc[y]
  BY <1>0, JoinWalk
<1>2. JoinDocsOK' /\ OneFormEach' /\ \A f \in Forms : FormOK(f)'
  BY DEF JoinInv, JoinDocsOK, OneFormEach, FormOK
<1>3. ASSUME NEW y \in Joiners PROVE JoinerOK(y)'
  <2>1. CASE y = x BY <2>1
  <2>2. CASE y # x
    <3>1. JoinerOK(y) BY DEF JoinInv
    <3> QED BY <1>1, <2>2, <3>1 DEF JoinerOK
  <2> QED BY <2>1, <2>2
<1>4. ASSUME NEW y \in Joiners PROVE Unclaimed(y)'
  <2>1. Unclaimed(y) BY DEF JoinInv
  <2> QED BY <1>1, <2>1 DEF Unclaimed
<1> QED BY <1>1, <1>2, <1>3, <1>4 DEF JoinInv

(* The same for a handler that only goes idle.                             *)
LEMMA JoinGivesUp ==
    ASSUME JoinInv, NEW x \in Joiners, JoinDone(x), UNCHANGED <<form, account, branch, opened>>
    PROVE  JoinInv'
<1>0. JoinControlOK /\ HeldForJoin(JoinNothing) BY JoinFields DEF JoinInv
<1>1. JoinGo(x, "idle", JoinNothing) BY JoinDoneGoes
<1>2. joinPc'[x] = "idle" BY <1>0, <1>1, JoinWalk
<1>3. JoinerOK(x)' BY <1>2 DEF JoinerOK, Approving, Holding
<1> QED BY <1>0, <1>1, <1>3, JoinMoves DEF Holding

(* What others know of an application stays true, and the only restaurant  *)
(* that may get one is the writer's own.                                   *)
FormsKept ==
    \A f \in Forms : form[f].status # "none" =>
        /\ form'[f].status # "none"
        /\ form'[f].email = form[f].email /\ form'[f].name = form[f].name

MerchantsKept(x) ==
    \A f \in Forms : \/ form'[f].merchant \in {form[f].merchant, "none"}
                     \/ joinPc[x] \in Holding /\ form'[f].merchant = joinLoc[x].merchant

FormsOK == \A f \in Forms : FormOK(f)

(* An application is written: what others know of applications stays true. *)
LEMMA JoinWrites ==
    ASSUME JoinInv, NEW x \in Joiners, NEW label, NEW held, HeldForJoin(held),
           JoinGo(x, label, held), JoinerOK(x)', label \notin Holding,
           UNCHANGED <<account, branch, opened>>, JoinDocsOK', OneFormEach', FormsOK',
           FormsKept, MerchantsKept(x)
    PROVE  JoinInv'
<1>0. JoinControlOK BY DEF JoinInv
<1>1. /\ JoinControlOK' /\ joinPc'[x] = label
      /\ \A y \in Joiners : y # x => joinPc'[y] = joinPc[y] /\ joinLoc'[y] = joinLoc[y]
  BY <1>0, JoinWalk
<1>3. ASSUME NEW y \in Joiners PROVE JoinerOK(y)'
  <2>1. CASE y = x BY <2>1
  <2>2. CASE y # x
    <3>1. JoinerOK(y) BY DEF JoinInv
    <3> QED BY <1>1, <2>2, <3>1 DEF JoinerOK, Approving, Holding, FormsKept
  <2> QED BY <2>1, <2>2
<1>4. ASSUME NEW y \in Joiners PROVE Unclaimed(y)'
  <2> SUFFICES ASSUME joinPc'[y] \in Holding PROVE Unclaimed(y)' BY DEF Unclaimed
  <2>1. y # x /\ joinPc'[y] = joinPc[y] /\ joinLoc'[y] = joinLoc[y] BY <1>1
  <2>2. Unclaimed(y) /\ JoinerOK(y) BY DEF JoinInv
  <2>3. joinLoc[y].merchant # "none" BY <2>1, <2>2, OnboardingAssumption DEF JoinerOK
  <2>4. joinPc[x] \in Holding => joinLoc[x].merchant # joinLoc[y].merchant
    BY <2>1, <2>2 DEF Unclaimed
  <2>5. \A f \in Forms : form'[f].merchant # joinLoc[y].merchant
    BY <2>1, <2>2, <2>3, <2>4 DEF Unclaimed, MerchantsKept
  <2> QED BY <1>1, <2>1, <2>2, <2>5 DEF Unclaimed
<1> QED BY <1>1, <1>3, <1>4 DEF JoinInv, FormsOK

LEMMA ApplicantJoins ==
    ASSUME JoinInv, NEW x \in Joiners, ReadSubmission(x) \/ SubmitApplication(x)
    PROVE  JoinInv'
<1>0. JoinControlOK /\ JoinDocsOK /\ JoinerOK(x) BY DEF JoinInv
<1>n. HeldForJoin(JoinNothing) BY JoinFields
<1>1. CASE ReadSubmission(x)
  <2>1. PICK e, p, n : e \in Emails /\ JoinGo(x, "submit", [JoinNothing EXCEPT
           !.doc = [email |-> e, phone |-> p, name |-> n, status |-> "PENDING",
                    merchant |-> "none"]])
    BY <1>1 DEF ReadSubmission
  <2> DEFINE held == [JoinNothing EXCEPT
           !.doc = [email |-> e, phone |-> p, name |-> n, status |-> "PENDING",
                    merchant |-> "none"]]
  <2>2. /\ HeldForJoin(held) /\ held.doc.status = "PENDING" /\ held.doc.merchant = "none"
        /\ held.doc.email \in Emails
    BY <2>1, JoinFields DEF HeldForJoin
  <2> HIDE DEF held
  <2>3. joinPc'[x] = "submit" /\ joinLoc'[x] = held BY <1>0, <2>1, <2>2, JoinWalk DEF held
  <2>4. UNCHANGED <<form, account, branch, opened>> BY <1>1 DEF ReadSubmission, subscriptionVars
  <2>5. JoinerOK(x)' BY <2>2, <2>3 DEF JoinerOK, Approving, Holding
  <2> QED BY <2>1, <2>2, <2>4, <2>5, JoinMoves DEF held, Holding
<1>2. CASE SubmitApplication(x)
  <2>1. PICK f \in Forms : form[f] = NoForm /\ form' = [form EXCEPT ![f] = joinLoc[x].doc]
    BY <1>2 DEF SubmitApplication
  <2>2. /\ joinPc[x] = "submit" /\ JoinDone(x)
        /\ UNCHANGED <<account, branch, opened>>
    BY <1>2 DEF SubmitApplication, subscriptionVars
  <2>3. JoinGo(x, "idle", JoinNothing) BY <2>2, JoinDoneGoes
  <2>4. joinPc'[x] = "idle" BY <1>0, <1>n, <2>3, JoinWalk
  <2>5. JoinerOK(x)' BY <2>4 DEF JoinerOK, Approving, Holding
  <2> DEFINE doc == joinLoc[x].doc
  <2>6. /\ DOMAIN doc = DOMAIN NoForm
        /\ doc.status = "PENDING" /\ doc.merchant = "none" /\ doc.email \in Emails
    BY <1>0, <2>2 DEF JoinControlOK, HeldForJoin, JoinerOK
  <2>7. form'[f] = doc /\ \A g \in Forms : g # f => form'[g] = form[g]
    BY <1>0, <2>1 DEF JoinDocsOK
  <2> HIDE DEF doc
  <2>8. JoinDocsOK' BY <1>0, <2>1, <2>2, <2>6, <2>7 DEF JoinDocsOK
  <2>9. FormsOK'
    <3> SUFFICES ASSUME NEW g \in Forms PROVE FormOK(g)' BY DEF FormsOK
    <3>1. CASE g = f BY <2>6, <2>7, <3>1 DEF FormOK
    <3>2. CASE g # f
      <4>1. FormOK(g) BY DEF JoinInv
      <4> QED BY <2>2, <2>7, <3>2, <4>1 DEF FormOK
    <3> QED BY <3>1, <3>2
  <2>10. OneFormEach' BY <2>6, <2>7 DEF JoinInv, OneFormEach
  <2>11. FormsKept BY <2>1, <2>7, JoinFields DEF FormsKept
  <2>12. MerchantsKept(x) BY <2>6, <2>7 DEF MerchantsKept
  <2> QED BY <1>n, <2>2, <2>3, <2>5, <2>8, <2>9, <2>10, <2>11, <2>12, JoinWrites DEF Holding
<1> QED BY <1>1, <1>2

(* Only status and merchant of one application change.                     *)
Remarked(f, new) ==
    /\ DOMAIN new = DOMAIN NoForm /\ new.email = form[f].email /\ new.name = form[f].name
    /\ new.status # "none"
    /\ new.status \in {"APPROVED", "ONBOARDED"} => new.merchant # "none"
    /\ \/ new.merchant = form[f].merchant
       \/ /\ new.merchant \in opened /\ new.merchant # "none"
          /\ account[new.merchant].email = form[f].email /\ branch[new.merchant] = form[f].name
          /\ \A g \in Forms : form[g].merchant # new.merchant

LEMMA FormMarked ==
    ASSUME JoinInv, NEW f \in Forms, form[f].status # "none", NEW new, Remarked(f, new),
           form' = [form EXCEPT ![f] = new], UNCHANGED <<account, branch, opened>>
    PROVE  /\ JoinDocsOK' /\ OneFormEach' /\ FormsOK' /\ FormsKept
           /\ form'[f] = new /\ \A g \in Forms : g # f => form'[g] = form[g]
<1>0. JoinDocsOK /\ FormOK(f) BY DEF JoinInv
<1>1. form'[f] = new /\ \A g \in Forms : g # f => form'[g] = form[g] BY <1>0 DEF JoinDocsOK
<1>2. JoinDocsOK' BY <1>0, <1>1 DEF JoinDocsOK, Remarked
<1>3. ASSUME NEW g \in Forms PROVE FormOK(g)'
  <2>1. CASE g = f BY <1>0, <1>1, <2>1 DEF FormOK, Remarked
  <2>2. CASE g # f
    <3>1. FormOK(g) BY DEF JoinInv
    <3> QED BY <1>1, <2>2, <3>1 DEF FormOK
  <2> QED BY <2>1, <2>2
<1>4. OneFormEach' BY <1>1 DEF JoinInv, OneFormEach, Remarked
<1>5. FormsKept BY <1>1 DEF FormsKept, Remarked
<1> QED BY <1>1, <1>2, <1>3, <1>4, <1>5 DEF FormsOK

LEMMA ReviewerReads ==
    ASSUME JoinInv, NEW a \in Joiners, ReadApplication(a) \/ ReadApproval(a) \/ ApprovalDies(a)
    PROVE  JoinInv'
<1>0. JoinControlOK /\ JoinDocsOK BY DEF JoinInv
<1>1. CASE ReadApplication(a)
  <2>1. PICK f \in Forms, status \in {"UNDER_REVIEW", "REJECTED"} :
           /\ form[f].status \in Undecided
           /\ JoinGo(a, "decide", [JoinNothing EXCEPT !.form = f, !.doc.status = status])
    BY <1>1 DEF ReadApplication
  <2> DEFINE held == [JoinNothing EXCEPT !.form = f, !.doc.status = status]
  <2>2. HeldForJoin(held) /\ held.form = f /\ held.doc.status = status
    BY JoinFields DEF HeldForJoin
  <2> HIDE DEF held
  <2>3. joinPc'[a] = "decide" /\ joinLoc'[a] = held BY <1>0, <2>1, <2>2, JoinWalk DEF held
  <2>4. UNCHANGED <<form, account, branch, opened>> BY <1>1 DEF ReadApplication, subscriptionVars
  <2>5. form[f].status # "none" BY <2>1 DEF Undecided
  <2>6. JoinerOK(a)' BY <2>1, <2>2, <2>3, <2>4, <2>5 DEF JoinerOK, Approving, Holding
  <2> QED BY <2>1, <2>2, <2>4, <2>6, JoinMoves DEF held, Holding
<1>2. CASE ReadApproval(a)
  <2>1. PICK f \in Forms :
           /\ form[f].status \in Undecided
           /\ JoinGo(a, "createUser", [JoinNothing EXCEPT !.form = f, !.doc = form[f]])
    BY <1>2 DEF ReadApproval
  <2> DEFINE held == [JoinNothing EXCEPT !.form = f, !.doc = form[f]]
  <2>2. HeldForJoin(held) /\ held.form = f /\ held.doc = form[f]
    BY <1>0, JoinFields DEF HeldForJoin, JoinDocsOK
  <2> HIDE DEF held
  <2>3. joinPc'[a] = "createUser" /\ joinLoc'[a] = held BY <1>0, <2>1, <2>2, JoinWalk DEF held
  <2>4. UNCHANGED <<form, account, branch, opened>> BY <1>2 DEF ReadApproval, subscriptionVars
  <2>5. form[f].status # "none" BY <2>1 DEF Undecided
  <2>6. JoinerOK(a)' BY <2>1, <2>2, <2>3, <2>4, <2>5 DEF JoinerOK, Approving, Holding
  <2> QED BY <2>1, <2>2, <2>4, <2>6, JoinMoves DEF held, Holding
<1>3. CASE ApprovalDies(a) BY <1>3, JoinGivesUp DEF ApprovalDies, subscriptionVars
<1> QED BY <1>1, <1>2, <1>3

LEMMA ReviewerDecides ==
    ASSUME JoinInv, NEW a \in Joiners, Decide(a) \/ ApproveApplication(a)
    PROVE  JoinInv'
<1> DEFINE l == joinLoc[a]
           f == joinLoc[a].form
<1>0. JoinControlOK /\ JoinDocsOK /\ JoinerOK(a) /\ Unclaimed(a) BY DEF JoinInv
<1>n. HeldForJoin(JoinNothing) BY JoinFields
<1>1. JoinDone(a) /\ UNCHANGED <<account, branch, opened>>
  BY DEF Decide, ApproveApplication, subscriptionVars
<1>2. JoinGo(a, "idle", JoinNothing) BY <1>1, JoinDoneGoes
<1>3. joinPc'[a] = "idle" BY <1>0, <1>n, <1>2, JoinWalk
<1>4. JoinerOK(a)' BY <1>3 DEF JoinerOK, Approving, Holding
<1>5. CASE Decide(a)
  <2>1. joinPc[a] = "decide" BY <1>5 DEF Decide
  <2>2. f \in Forms /\ form[f].status # "none" /\ l.doc.status \in {"UNDER_REVIEW", "REJECTED"}
    BY <1>0, <2>1 DEF JoinerOK, Approving
  <2> DEFINE new == [form[f] EXCEPT !.status = l.doc.status]
  <2>3. form' = [form EXCEPT ![f] = new] BY <1>0, <1>5, <2>2 DEF Decide, JoinDocsOK
  <2>4. Remarked(f, new) BY <1>0, <2>2, JoinFields DEF JoinDocsOK, Remarked
  <2>5. new.merchant = form[f].merchant BY <1>0, <2>2, JoinFields DEF JoinDocsOK
  <2> HIDE DEF new
  <2>6. /\ JoinDocsOK' /\ OneFormEach' /\ FormsOK' /\ FormsKept
        /\ form'[f] = new /\ \A g \in Forms : g # f => form'[g] = form[g]
    BY <1>1, <2>2, <2>3, <2>4, FormMarked
  <2>7. MerchantsKept(a) BY <2>5, <2>6 DEF MerchantsKept
  <2> QED BY <1>n, <1>1, <1>2, <1>4, <2>6, <2>7, JoinWrites DEF Holding
<1>6. CASE ApproveApplication(a)
  <2> DEFINE m == l.merchant
             new == [form[f] EXCEPT !.status = "APPROVED", !.merchant = m]
  <2>1. joinPc[a] = "approve" BY <1>6 DEF ApproveApplication
  <2>2. /\ f \in Forms /\ form[f].status # "none"
        /\ m \in opened /\ m # "none"
        /\ account[m].email = form[f].email /\ branch[m] = form[f].name
        /\ \A g \in Forms : form[g].merchant # m
    BY <1>0, <2>1, OnboardingAssumption DEF JoinerOK, Approving, Holding, Unclaimed
  <2>3. form' = [form EXCEPT ![f] = new]
    BY <1>0, <1>6, <2>2 DEF ApproveApplication, JoinDocsOK
  <2>4. Remarked(f, new) BY <1>0, <2>2, JoinFields DEF JoinDocsOK, Remarked
  <2>5. new.merchant = m BY <1>0, <2>2, JoinFields DEF JoinDocsOK
  <2> HIDE DEF new
  <2>6. /\ JoinDocsOK' /\ OneFormEach' /\ FormsOK' /\ FormsKept
        /\ form'[f] = new /\ \A g \in Forms : g # f => form'[g] = form[g]
    BY <1>1, <2>2, <2>3, <2>4, FormMarked
  <2>7. MerchantsKept(a) BY <2>1, <2>5, <2>6 DEF MerchantsKept, Holding
  <2> QED BY <1>n, <1>1, <1>2, <1>4, <2>6, <2>7, JoinWrites DEF Holding
<1> QED BY <1>5, <1>6

(* The manager's account is nobody's yet.                                  *)
LEMMA ManagerCreated ==
    ASSUME JoinInv, NEW a \in Joiners, CreateManager(a)
    PROVE  JoinInv'
<1> DEFINE l == joinLoc[a]
           doc == joinLoc[a].doc
<1>0. JoinControlOK /\ JoinDocsOK /\ JoinerOK(a) /\ HeldForJoin(l) BY DEF JoinInv, JoinControlOK
<1>1. joinPc[a] = "createUser" /\ UNCHANGED <<form, branch, opened>>
  BY DEF CreateManager, subscriptionVars
<1>2. CASE Taken(doc.email, doc.phone)
  <2>1. JoinDone(a) /\ UNCHANGED account BY <1>2 DEF CreateManager
  <2> QED BY <1>1, <2>1, JoinGivesUp
<1>3. CASE ~Taken(doc.email, doc.phone)
  <2>1. PICK m \in Restaurants :
           /\ account[m] = NoAccount
           /\ account' = [account EXCEPT ![m] = [email |-> doc.email, phone |-> doc.phone,
                                                 ready |-> FALSE]]
           /\ JoinGo(a, "open", [l EXCEPT !.merchant = m])
    BY <1>3 DEF CreateManager
  <2> DEFINE held == [l EXCEPT !.merchant = m]
             new == [email |-> doc.email, phone |-> doc.phone, ready |-> FALSE]
  <2>2. HeldForJoin(held) /\ held.merchant = m /\ held.form = l.form /\ held.doc = doc
    BY <1>0, JoinFields DEF HeldForJoin
  <2>3. DOMAIN new = DOMAIN NoAccount /\ new.email = doc.email BY JoinFields
  <2> HIDE DEF held, new
  <2>4. /\ JoinControlOK' /\ joinPc'[a] = "open" /\ joinLoc'[a] = held
        /\ \A y \in Joiners : y # a => joinPc'[y] = joinPc[y] /\ joinLoc'[y] = joinLoc[y]
    BY <1>0, <2>1, <2>2, JoinWalk DEF held
  <2>5. account'[m] = new /\ \A k \in Restaurants : k # m => account'[k] = account[k]
    BY <1>0, <2>1 DEF JoinDocsOK, new
  <2>6. /\ l.form \in Forms /\ form[l.form].status # "none"
        /\ doc.email = form[l.form].email /\ doc.name = form[l.form].name
    BY <1>0, <1>1 DEF JoinerOK, Approving
  <2>7. doc.email \in Emails BY <2>6 DEF JoinInv, FormOK
  <2>8. new # NoAccount BY <2>3, <2>7, JoinFields, OnboardingAssumption
  <2>9. JoinDocsOK' BY <1>0, <1>1, <2>1, <2>3, <2>5, <2>7 DEF JoinDocsOK
  <2>10. OneFormEach' BY <1>1 DEF JoinInv, OneFormEach
  <2>11. ASSUME NEW f \in Forms PROVE FormOK(f)' /\ form[f].merchant # m
    <3>1. FormOK(f) BY DEF JoinInv
    <3>2. form[f].merchant # m
      <4> SUFFICES ASSUME form[f].merchant = m PROVE FALSE OBVIOUS
      <4>1. m # "none" BY OnboardingAssumption
      <4>2. account[m].email \in Emails BY <3>1, <4>1 DEF FormOK
      <4> QED BY <2>1, <4>2, JoinFields, OnboardingAssumption
    <3>3. form[f].merchant # "none" => form[f].merchant \in Restaurants
      BY <1>0, <3>1 DEF FormOK, JoinDocsOK
    <3> QED BY <1>1, <2>5, <3>1, <3>2, <3>3 DEF FormOK
  <2>12. ASSUME NEW y \in Joiners, y # a, joinPc[y] \in Holding PROVE joinLoc[y].merchant # m
    <3>1. account[joinLoc[y].merchant] # NoAccount BY <2>12 DEF JoinInv, JoinerOK
    <3> QED BY <2>1, <3>1
  <2>13. ASSUME NEW y \in Joiners PROVE JoinerOK(y)'
    <3>1. CASE y = a
      BY <1>1, <2>1, <2>2, <2>3, <2>4, <2>5, <2>6, <2>8, <3>1 DEF JoinerOK, Approving, Holding
    <3>2. CASE y # a
      <4>1. JoinerOK(y) BY DEF JoinInv
      <4>2. joinPc[y] \in Holding \cup {"onboard"} => account'[joinLoc[y].merchant]
                                                       = account[joinLoc[y].merchant]
        BY <2>1, <2>5, <4>1 DEF JoinerOK
      <4> QED BY <1>1, <2>4, <3>2, <4>1, <4>2 DEF JoinerOK
    <3> QED BY <3>1, <3>2
  <2>14. ASSUME NEW y \in Joiners PROVE Unclaimed(y)'
    <3>1. CASE y = a BY <1>1, <2>2, <2>4, <2>11, <2>12, <3>1 DEF Unclaimed
    <3>2. CASE y # a
      <4>1. Unclaimed(y) BY DEF JoinInv
      <4> QED BY <1>1, <2>2, <2>4, <2>12, <3>2, <4>1 DEF Unclaimed
    <3> QED BY <3>1, <3>2
  <2> QED BY <2>4, <2>9, <2>10, <2>11, <2>13, <2>14 DEF JoinInv
<1> QED BY <1>2, <1>3

(* The restaurant is opened under the applicant's name, for that account.  *)
LEMMA RestaurantOpened ==
    ASSUME JoinInv, NEW a \in Joiners, OpenRestaurant(a)
    PROVE  JoinInv'
<1> DEFINE l == joinLoc[a]
           m == joinLoc[a].merchant
<1>0. JoinControlOK /\ JoinDocsOK /\ JoinerOK(a) /\ Unclaimed(a) /\ HeldForJoin(l)
  BY DEF JoinInv, JoinControlOK
<1>1. joinPc[a] = "open" /\ UNCHANGED <<form, account>> BY DEF OpenRestaurant
<1>2. CASE \E n \in Restaurants : branch[n] = l.doc.name
  <2>1. JoinDone(a) /\ UNCHANGED <<branch, opened>> BY <1>2 DEF OpenRestaurant
  <2> QED BY <1>1, <2>1, JoinGivesUp
<1>3. CASE ~\E n \in Restaurants : branch[n] = l.doc.name
  <2>1. /\ branch' = [branch EXCEPT ![m] = l.doc.name]
        /\ opened' = opened \cup {m}
        /\ JoinGo(a, "approve", l)
    BY <1>3 DEF OpenRestaurant
  <2>2. m \in Restaurants BY <1>0, <1>1 DEF JoinerOK, Holding
  <2>3. /\ JoinControlOK' /\ joinPc'[a] = "approve" /\ joinLoc'[a] = l
        /\ \A y \in Joiners : y # a => joinPc'[y] = joinPc[y] /\ joinLoc'[y] = joinLoc[y]
    BY <1>0, <2>1, JoinWalk
  <2>4. branch'[m] = l.doc.name /\ \A k \in Restaurants : k # m => branch'[k] = branch[k]
    BY <1>0, <2>1, <2>2 DEF JoinDocsOK
  <2>5. JoinDocsOK' BY <1>0, <1>1, <2>1, <2>2 DEF JoinDocsOK
  <2>6. OneFormEach' BY <1>1 DEF JoinInv, OneFormEach
  <2>7. ASSUME NEW f \in Forms PROVE FormOK(f)'
    <3>1. FormOK(f) /\ form[f].merchant # m BY <1>0, <1>1 DEF JoinInv, Unclaimed, Holding
    <3>2. form[f].merchant # "none" => form[f].merchant \in Restaurants
      BY <1>0, <3>1 DEF FormOK, JoinDocsOK
    <3> QED BY <1>1, <2>1, <2>4, <3>1, <3>2 DEF FormOK
  <2>8. ASSUME NEW y \in Joiners PROVE JoinerOK(y)'
    <3>1. JoinerOK(y) BY DEF JoinInv
    <3>2. CASE y = a
      BY <1>0, <1>1, <2>1, <2>3, <2>4, <3>2 DEF JoinerOK, Approving, Holding
    <3>3. CASE y # a
      <4>1. joinPc[y] = "approve" => joinLoc[y].merchant # m /\ joinLoc[y].merchant \in Restaurants
        BY <1>0, <1>1, <3>1, <3>3 DEF Unclaimed, Holding, JoinerOK
      <4>2. joinPc[y] = "approve" => branch'[joinLoc[y].merchant] = branch[joinLoc[y].merchant]
        BY <2>4, <4>1
      <4> QED BY <1>1, <2>1, <2>3, <3>1, <3>3, <4>2 DEF JoinerOK
    <3> QED BY <3>2, <3>3
  <2>9. ASSUME NEW y \in Joiners PROVE Unclaimed(y)'
    <3>1. Unclaimed(y) BY DEF JoinInv
    <3>2. \A z \in Joiners : /\ joinPc'[z] \in Holding <=> joinPc[z] \in Holding
                             /\ joinLoc'[z] = joinLoc[z]
      BY <1>1, <2>3 DEF Holding
    <3> QED BY <1>1, <3>1, <3>2 DEF Unclaimed
  <2> QED BY <2>3, <2>5, <2>6, <2>7, <2>8, <2>9 DEF JoinInv
<1> QED BY <1>2, <1>3

(* The owner's account is made ready, which changes no email.              *)
LEMMA OwnerJoins ==
    ASSUME JoinInv, NEW o \in Joiners, OwnerStep(o)
    PROVE  JoinInv'
<1> DEFINE l == joinLoc[o]
<1>0. JoinControlOK /\ JoinDocsOK /\ JoinerOK(o) /\ HeldForJoin(l) BY DEF JoinInv, JoinControlOK
<1>1. CASE SetPassword(o)
  <2>1. PICK m \in Restaurants :
           /\ account[m] # NoAccount
           /\ account' = [account EXCEPT ![m].ready = TRUE]
           /\ JoinGo(o, "onboard", [JoinNothing EXCEPT !.merchant = m])
    BY <1>1 DEF SetPassword
  <2>2. joinPc[o] = "idle" /\ UNCHANGED <<form, branch, opened>>
    BY <1>1 DEF SetPassword, subscriptionVars
  <2> DEFINE held == [JoinNothing EXCEPT !.merchant = m]
  <2>3. HeldForJoin(held) /\ held.merchant = m BY JoinFields DEF HeldForJoin
  <2> HIDE DEF held
  <2>4. /\ JoinControlOK' /\ joinPc'[o] = "onboard" /\ joinLoc'[o] = held
        /\ \A y \in Joiners : y # o => joinPc'[y] = joinPc[y] /\ joinLoc'[y] = joinLoc[y]
    BY <1>0, <2>1, <2>3, JoinWalk DEF held
  <2>5. \A k \in Restaurants : /\ DOMAIN account'[k] = DOMAIN NoAccount
                               /\ account'[k].email = account[k].email
                               /\ k # m => account'[k] = account[k]
    BY <1>0, <2>1, JoinFields DEF JoinDocsOK
  <2>6. account[m].email \in Emails BY <1>0, <2>1 DEF JoinDocsOK
  <2>7. account'[m] # NoAccount BY <2>5, <2>6, JoinFields, OnboardingAssumption
  <2>8. DOMAIN account' = DOMAIN account BY <2>1
  <2>9. JoinDocsOK' BY <1>0, <2>2, <2>5, <2>6, <2>8 DEF JoinDocsOK
  <2>10. OneFormEach' BY <2>2 DEF JoinInv, OneFormEach
  <2>11. ASSUME NEW f \in Forms PROVE FormOK(f)'
    <3>1. FormOK(f) BY DEF JoinInv
    <3>2. form[f].merchant # "none" => form[f].merchant \in Restaurants
      BY <1>0, <3>1 DEF FormOK, JoinDocsOK
    <3> QED BY <2>2, <2>5, <3>1, <3>2 DEF FormOK
  <2>12. ASSUME NEW y \in Joiners PROVE JoinerOK(y)'
    <3>1. CASE y = o BY <2>1, <2>3, <2>4, <2>7, <3>1 DEF JoinerOK, Approving, Holding
    <3>2. CASE y # o
      <4>1. JoinerOK(y) BY DEF JoinInv
      <4>2. joinPc[y] \in Holding \cup {"onboard"} =>
               /\ account'[joinLoc[y].merchant].email = account[joinLoc[y].merchant].email
               /\ account'[joinLoc[y].merchant] # NoAccount
        BY <2>5, <2>7, <4>1 DEF JoinerOK
      <4> QED BY <2>2, <2>4, <3>2, <4>1, <4>2 DEF JoinerOK
    <3> QED BY <3>1, <3>2
  <2>13. ASSUME NEW y \in Joiners PROVE Unclaimed(y)'
    <3>1. Unclaimed(y) BY DEF JoinInv
    <3> QED BY <2>2, <2>4, <3>1 DEF Unclaimed, Holding
  <2> QED BY <2>4, <2>9, <2>10, <2>11, <2>12, <2>13 DEF JoinInv
<1>2. CASE MarkOnboarded(o)
  <2>1. PICK f \in Forms : /\ form[f].merchant = l.merchant
                           /\ form' = [form EXCEPT ![f].status = "ONBOARDED"]
    BY <1>2 DEF MarkOnboarded
  <2>2. /\ joinPc[o] = "onboard" /\ JoinGo(o, "readSettings", l)
        /\ UNCHANGED <<account, branch, opened>>
    BY <1>2 DEF MarkOnboarded, subscriptionVars
  <2>3. joinPc'[o] = "readSettings" BY <1>0, <2>2, JoinWalk
  <2>4. JoinerOK(o)' BY <2>3 DEF JoinerOK, Approving, Holding
  <2>5. l.merchant # "none" BY <1>0, <2>2, OnboardingAssumption DEF JoinerOK
  <2>6. form[f].status # "none" BY <2>1, <2>5 DEF JoinInv, FormOK
  <2> DEFINE new == [form[f] EXCEPT !.status = "ONBOARDED"]
  <2>7. form' = [form EXCEPT ![f] = new] BY <1>0, <2>1 DEF JoinDocsOK
  <2>8. Remarked(f, new) /\ new.merchant = form[f].merchant
    BY <1>0, <2>1, <2>5, JoinFields DEF JoinDocsOK, Remarked
  <2> HIDE DEF new
  <2>9. /\ JoinDocsOK' /\ OneFormEach' /\ FormsOK' /\ FormsKept
        /\ form'[f] = new /\ \A g \in Forms : g # f => form'[g] = form[g]
    BY <2>2, <2>6, <2>7, <2>8, FormMarked
  <2>10. MerchantsKept(o) BY <2>8, <2>9 DEF MerchantsKept
  <2> QED BY <1>0, <2>2, <2>4, <2>9, <2>10, JoinWrites DEF Holding
<1>3. CASE ReadSettings(o)
  <2>1. PICK t, s : JoinGo(o, "grant", [l EXCEPT !.trials = t, !.seat = s])
    BY <1>3 DEF ReadSettings
  <2>2. UNCHANGED <<form, account, branch, opened>> BY <1>3 DEF ReadSettings, subscriptionVars
  <2> DEFINE held == [l EXCEPT !.trials = t, !.seat = s]
  <2>3. HeldForJoin(held) BY <1>0, JoinFields DEF HeldForJoin
  <2> HIDE DEF held
  <2>4. joinPc'[o] = "grant" BY <1>0, <2>1, <2>3, JoinWalk DEF held
  <2>5. JoinerOK(o)' BY <2>4 DEF JoinerOK, Approving, Holding
  <2> QED BY <2>1, <2>2, <2>3, <2>5, JoinMoves DEF held, Holding
<1>4. CASE GrantTrial(o) BY <1>4, JoinGivesUp DEF GrantTrial
<1> QED BY <1>1, <1>2, <1>3, <1>4 DEF OwnerStep

LEMMA SubscriptionKeepsOpened ==
    ASSUME NextPlans \/ NextBilling \/ BackfillTrials \/ SetEarlyBird \/ UpdateSettings \/ ClockTicks
    PROVE  UNCHANGED opened
BY DEF NextPlans, NextBilling, BackfillTrials, SetEarlyBird, UpdateSettings, ClockTicks,
       PlanAdminStep, ReadNewPlan, CreatePlan, ReadPlan, WritePlan, ClearTrialFlags,
       ReadArchive, ArchivePlan, ReadRemoval, RemovePlan,
       CheckoutStep, ReadCheckout, CreateBill, SettlerStep, FindCharged, MarkPaid, ReadPeriod,
       WritePeriod, StampPeriod, BillAges, CustomerPays, BillFails, SetTrial, AddProduct, DropProduct

LEMMA JoinNext ==
    ASSUME JoinInv, [NextJoining]_joiningVars
    PROVE  JoinInv'
<1>1. CASE \E x \in Applicants : ReadSubmission(x) \/ SubmitApplication(x)
  BY <1>1, ApplicantJoins DEF Joiners
<1>2. CASE \E a \in Reviewers : ReviewerStep(a)
  BY <1>2, ReviewerReads, ReviewerDecides, ManagerCreated, RestaurantOpened
  DEF Joiners, ReviewerStep
<1>3. CASE \E o \in Owners : OwnerStep(o) BY <1>3, OwnerJoins DEF Joiners
<1>4. CASE UNCHANGED <<form, account, branch, opened, joinPc, joinLoc>>
  BY <1>4 DEF JoinInv, JoinControlOK, JoinDocsOK, OneFormEach, FormOK, JoinerOK, Unclaimed
<1>5. CASE ResendApprovalEmail \/ UNCHANGED joiningVars
  BY <1>4, <1>5 DEF ResendApprovalEmail, joiningVars, subscriptionVars, onboardingVars
<1>6. CASE /\ NextPlans \/ NextBilling \/ BackfillTrials \/ SetEarlyBird \/ UpdateSettings
              \/ ClockTicks
           /\ UNCHANGED onboardingVars
  BY <1>4, <1>6, SubscriptionKeepsOpened DEF onboardingVars
<1> QED BY <1>1, <1>2, <1>3, <1>5, <1>6 DEF NextJoining, NextOnboarding

(* However applications are submitted, reviewed, rejected, approved by     *)
(* several admins at once, refused for a taken email or name, cut short by *)
(* a crash or resent: an approved or onboarded application has a manager   *)
(* and an open restaurant of its own (approveApplication, setupAccount).   *)
THEOREM ApprovedCorrect == SpecJoining => []ApprovedHasMerchant
<1>1. InitJoining => JoinInv
  <2> SUFFICES ASSUME InitJoining PROVE JoinInv OBVIOUS
  <2>1. JoinControlOK BY JoinFields DEF InitJoining, InitOnboarding, JoinControlOK
  <2>2. JoinDocsOK BY JoinFields DEF InitJoining, InitOnboarding, JoinDocsOK
  <2>3. \A f \in Forms : form[f] = NoForm BY DEF InitJoining, InitOnboarding
  <2>4. OneFormEach /\ \A f \in Forms : FormOK(f) BY <2>3, JoinFields DEF OneFormEach, FormOK
  <2>5. \A x \in Joiners : JoinerOK(x) /\ Unclaimed(x)
    BY DEF InitJoining, InitOnboarding, JoinerOK, Unclaimed, Approving, Holding
  <2> QED BY <2>1, <2>2, <2>4, <2>5 DEF JoinInv
<1>2. JoinInv /\ [NextJoining]_joiningVars => JoinInv' BY JoinNext
<1>3. JoinInv => ApprovedHasMerchant
  BY DEF JoinInv, FormOK, OneFormEach, ApprovedHasMerchant
<1> QED BY <1>1, <1>2, <1>3, PTL DEF SpecJoining

-------------------------------------------------------------------------------
(* Billing.                                                                *)
SettlerLabels == {"markPaid", "readPeriod", "writePeriod", "stampPeriod"}
MoneyLabels   == SettlerLabels \cup {"createBill"}

(* A checkout or a settlement walks through labels of its own and touches  *)
(* no plan.                                                                *)
LEMMA BillerWalks ==
    ASSUME SubControlOK, NEW x \in SubscriptionActors, CheckoutStep(x) \/ SettlerStep(x)
    PROVE  /\ UNCHANGED plan
           /\ subPc[x] \in MoneyLabels \cup {"idle"}
           /\ \E label \in MoneyLabels \cup {"idle"} : \E held :
                 HeldForSub(held) /\ SubGo(x, label, held)
<1> DEFINE l == subLoc[x]
           Walk == \E label \in MoneyLabels \cup {"idle"} : \E held :
                      HeldForSub(held) /\ SubGo(x, label, held)
<1>l. HeldForSub(l) /\ HeldForSub(SubNothing) BY SubFields DEF SubControlOK
<1>d. SubDone(x) => Walk BY <1>l, SubDoneGoes
<1>0. UNCHANGED plan
  BY DEF CheckoutStep, ReadCheckout, CreateBill, SettlerStep, FindCharged, MarkPaid, ReadPeriod,
         WritePeriod, StampPeriod
<1>1. subPc[x] \in MoneyLabels \cup {"idle"}
  BY DEF CheckoutStep, ReadCheckout, CreateBill, SettlerStep, FindCharged, MarkPaid, ReadPeriod,
         WritePeriod, StampPeriod, MoneyLabels, SettlerLabels
<1>2. Walk
  <2>1. CASE ReadCheckout(x)
    <3>1. PICK m, s, i : SubGo(x, "createBill", [SubNothing EXCEPT !.of = m, !.slug = s,
                                                                   !.months = i])
      BY <2>1 DEF ReadCheckout
    <3>2. HeldForSub([SubNothing EXCEPT !.of = m, !.slug = s, !.months = i])
      BY SubFields DEF HeldForSub
    <3> QED BY <3>1, <3>2 DEF MoneyLabels
  <2>2. CASE CreateBill(x) BY <2>2, <1>d DEF CreateBill
  <2>3. CASE FindCharged(x)
    <3>1. PICK p : SubGo(x, "markPaid", [SubNothing EXCEPT !.id = p, !.of = bill[p].of])
      BY <2>3 DEF FindCharged
    <3>2. HeldForSub([SubNothing EXCEPT !.id = p, !.of = bill[p].of])
      BY SubFields DEF HeldForSub
    <3> QED BY <3>1, <3>2 DEF MoneyLabels, SettlerLabels
  <2>4. CASE MarkPaid(x) BY <2>4, <1>l DEF MarkPaid, MoneyLabels, SettlerLabels
  <2>5. CASE ReadPeriod(x)
    <3>1. PICK s, e : SubGo(x, "writePeriod", [l EXCEPT !.start = s, !.end = e])
      BY <2>5 DEF ReadPeriod
    <3>2. HeldForSub([l EXCEPT !.start = s, !.end = e]) BY <1>l, SubFields DEF HeldForSub
    <3> QED BY <3>1, <3>2 DEF MoneyLabels, SettlerLabels
  <2>6. CASE WritePeriod(x) BY <2>6, <1>l DEF WritePeriod, MoneyLabels, SettlerLabels
  <2>7. CASE StampPeriod(x) BY <2>7, <1>d DEF StampPeriod
  <2> QED BY <2>1, <2>2, <2>3, <2>4, <2>5, <2>6, <2>7 DEF CheckoutStep, SettlerStep
<1> QED BY <1>0, <1>1, <1>2

(* What is not a step of a plan admin, a checkout or a settlement.         *)
LEMMA OthersKeepSubControl ==
    ASSUME \/ \E p \in Bills : BillAges(p) \/ CustomerPays(p) \/ BillFails(p)
           \/ BackfillTrials \/ SetTrial \/ AddProduct \/ DropProduct \/ ClockTicks
           \/ SetEarlyBird \/ UpdateSettings
    PROVE  UNCHANGED <<plan, subPc, subLoc>>
BY DEF BillAges, CustomerPays, BillFails, BackfillTrials, SetTrial, AddProduct, DropProduct,
       ClockTicks, SetEarlyBird, UpdateSettings

(* Onboarding as billing sees it: no bill moves, and of a subscription     *)
(* only the trial and the seat.                                            *)
LEMMA JoiningSteps ==
    ASSUME \/ \E x \in Applicants : ReadSubmission(x) \/ SubmitApplication(x)
           \/ \E a \in Reviewers : ReviewerStep(a)
           \/ \E o \in Owners : OwnerStep(o)
           \/ ResendApprovalEmail
    PROVE  /\ UNCHANGED <<plan, bill, clock, subPc, subLoc>>
           /\ opened \subseteq opened'
           /\ UNCHANGED sub \/ \E o \in Owners : GrantTrial(o)
<1>1. CASE \E x \in Applicants : ReadSubmission(x) \/ SubmitApplication(x)
  BY <1>1 DEF ReadSubmission, SubmitApplication, subscriptionVars
<1>2. CASE \E a \in Reviewers : ReviewerStep(a)
  BY <1>2 DEF ReviewerStep, ReadApplication, Decide, ReadApproval, CreateManager, OpenRestaurant,
              ApproveApplication, ApprovalDies, subscriptionVars
<1>3. CASE \E o \in Owners : OwnerStep(o)
  BY <1>3 DEF OwnerStep, SetPassword, MarkOnboarded, ReadSettings, GrantTrial, subscriptionVars
<1>4. CASE ResendApprovalEmail BY <1>4 DEF ResendApprovalEmail, subscriptionVars
<1> QED BY <1>1, <1>2, <1>3, <1>4

(* Between requests at most one plan is the trial plan, however many       *)
(* admins create, edit, archive and remove plans at once                   *)
(* (clearTrialFlagExcept, 'Exactly one plan may be the trial plan'):       *)
(* whoever raises a flag has still to clear the others.                    *)
THEOREM TrialCorrect == SpecJoining => []AtMostOneTrialPlan
<1>1. InitJoining => TrialInv
  BY SubFields DEF InitJoining, InitSubscriptions, TrialInv, SubControlOK, PlanShape, TrialPlans,
                   NoPlan
<1>2. TrialInv /\ [NextJoining]_joiningVars => TrialInv'
  <2> SUFFICES ASSUME TrialInv, [NextJoining]_joiningVars PROVE TrialInv' OBVIOUS
  <2>1. CASE NextPlans BY <2>1, PlanTrial DEF NextPlans
  <2>2. CASE UNCHANGED <<plan, subPc, subLoc>>
    BY <2>2 DEF TrialInv, SubControlOK, PlanShape, TrialPlans
  <2>3. CASE \E x \in SubscriptionActors : CheckoutStep(x) \/ SettlerStep(x)
    <3>0. SubControlOK BY DEF TrialInv
    <3>1. PICK x \in SubscriptionActors : CheckoutStep(x) \/ SettlerStep(x) BY <2>3
    <3>2. UNCHANGED plan /\ subPc[x] # "clearTrial"
      BY <3>0, <3>1, BillerWalks DEF MoneyLabels, SettlerLabels
    <3>3. PICK label, held : HeldForSub(held) /\ SubGo(x, label, held) BY <3>0, <3>1, BillerWalks
    <3>4. /\ SubControlOK'
          /\ \A y \in SubscriptionActors : y # x => subPc'[y] = subPc[y]
      BY <3>0, <3>3, SubWalk
    <3>5. \A a \in PlanAdmins : subPc[a] = "clearTrial" => subPc'[a] = "clearTrial"
      BY <3>2, <3>4 DEF SubscriptionActors
    <3> QED BY <3>2, <3>4, <3>5 DEF TrialInv, PlanShape, TrialPlans
  <2>4. CASE NextBilling
    BY <2>2, <2>3, <2>4, OthersKeepSubControl DEF NextBilling, SubscriptionActors
  <2>5. CASE BackfillTrials \/ SetEarlyBird \/ UpdateSettings \/ ClockTicks
    BY <2>2, <2>5, OthersKeepSubControl
  <2>6. CASE \/ \E x \in Applicants : ReadSubmission(x) \/ SubmitApplication(x)
             \/ \E a \in Reviewers : ReviewerStep(a)
             \/ \E o \in Owners : OwnerStep(o)
             \/ ResendApprovalEmail
    BY <2>2, <2>6, JoiningSteps
  <2>7. CASE UNCHANGED joiningVars BY <2>2, <2>7 DEF joiningVars, subscriptionVars
  <2> QED BY <2>1, <2>4, <2>5, <2>6, <2>7 DEF NextJoining, NextOnboarding
<1>3. TrialInv => AtMostOneTrialPlan
  <2> SUFFICES ASSUME TrialInv, \A a \in PlanAdmins : subPc[a] = "idle"
               PROVE  Cardinality(TrialPlans) <= 1
    BY DEF AtMostOneTrialPlan
  <2>1. \A s, t \in TrialPlans : s = t BY DEF TrialInv
  <2>2. CASE TrialPlans = {} BY <2>2, FS_EmptySet
  <2>3. CASE TrialPlans # {}
    <3>1. PICK s : s \in TrialPlans BY <2>3
    <3>2. TrialPlans = {s} BY <2>1, <3>1
    <3>3. Cardinality({s}) = 1 BY FS_Singleton
    <3> QED BY <3>2, <3>3
  <2> QED BY <2>2, <2>3
<1> QED BY <1>1, <1>2, <1>3, PTL DEF SpecJoining

-------------------------------------------------------------------------------
(* Paid time.                                                              *)
MoneyDocsOK ==
    /\ DOMAIN sub = Restaurants
    /\ \A m \in Restaurants : /\ DOMAIN sub[m] = DOMAIN NoSubscription
                              /\ sub[m].end \in Int /\ sub[m].trial \in Int
    /\ DOMAIN bill = Bills /\ \A p \in Bills : DOMAIN bill[p] = DOMAIN NoBill
    /\ clock \in Nat
    /\ opened \subseteq Restaurants

BillOK(p) ==
    /\ bill[p].status \in {"PENDING", "PAID"} => bill[p].of \in opened /\ bill[p].months \in Intervals
    /\ bill[p].status = "PENDING" => ~Granted(p)

BillerOK(x) ==
    LET l == subLoc[x]
        b == bill[l.id]
    IN  /\ subPc[x] = "createBill" => l.of \in opened /\ l.months \in Intervals
        /\ subPc[x] \in SettlerLabels => x \in Settlers /\ l.id \in Bills
        /\ subPc[x] = "markPaid" => b.status = "PENDING" /\ b.charged
        /\ subPc[x] \in {"markPaid", "readPeriod"} => l.of = b.of
        /\ subPc[x] \in {"readPeriod", "writePeriod", "stampPeriod"} => b.status = "PAID"
        /\ subPc[x] \in {"readPeriod", "writePeriod"} => ~Granted(l.id)
        /\ subPc[x] = "writePeriod" => l.end >= sub[b.of].end + MonthDays * b.months
        /\ subPc[x] \in {"writePeriod", "stampPeriod"} => l.end \in Nat

MoneyInv ==
    /\ SubControlOK /\ MoneyDocsOK
    /\ \A p \in Bills : BillOK(p)
    /\ \A x \in SubscriptionActors : BillerOK(x)

(* No two settlements of one restaurant at a time.                         *)
SettlementsApart == \A x, y \in Settlers :
    x # y /\ subPc[x] \in SettlerLabels /\ subPc[y] \in SettlerLabels =>
        bill[subLoc[x].id].of # bill[subLoc[y].id].of

(* What the abstract specification sees.                                   *)
PaidUntil == [m \in Restaurants |-> sub[m].end]

NothingPaid == UNCHANGED <<PaidUntil, Used>>

(* A step that gives nobody time: bills age, fail, are charged, marked or  *)
(* created, trials and restaurants come, and nobody who holds a period     *)
(* moves.                                                                  *)
SameBill(p) == /\ bill'[p].of = bill[p].of /\ bill'[p].months = bill[p].months
               /\ bill'[p].end = bill[p].end
               /\ bill[p].charged => bill'[p].charged
               /\ \/ bill'[p].status = bill[p].status
                  \/ bill[p].status = "PENDING" /\ bill'[p].status # "PENDING"

NewBill(p) == /\ bill[p] = NoBill /\ ~Granted(p)'
              /\ bill'[p].of \in opened' /\ bill'[p].months \in Intervals

StillAt(x) == /\ subPc'[x] = subPc[x] /\ subLoc'[x] = subLoc[x]
              /\ subPc[x] = "markPaid" => bill'[subLoc[x].id].status = "PENDING"

LEMMA MoneyQuiet ==
    ASSUME MoneyInv, SubControlOK', MoneyDocsOK', opened \subseteq opened',
           \A p \in Bills : SameBill(p) \/ NewBill(p),
           \A m \in Restaurants : sub'[m].end = sub[m].end,
           \A x \in SubscriptionActors :
              \/ StillAt(x)
              \/ subPc[x] # "stampPeriod" /\ subPc'[x] # "stampPeriod" /\ BillerOK(x)'
    PROVE  MoneyInv' /\ NothingPaid
<1>0. NoBill.status = "none" /\ NoBill.end = Absent BY DEF NoBill
<1>1. ASSUME NEW p \in Bills PROVE BillOK(p)'
  <2>1. CASE SameBill(p) BY <2>1 DEF MoneyInv, BillOK, SameBill, Granted
  <2>2. CASE NewBill(p) BY <2>2 DEF BillOK, NewBill
  <2> QED BY <2>1, <2>2
<1>2. ASSUME NEW x \in SubscriptionActors PROVE BillerOK(x)'
  <2> SUFFICES ASSUME StillAt(x) PROVE BillerOK(x)' OBVIOUS
  <2> DEFINE id == subLoc[x].id
  <2>0. subPc'[x] = subPc[x] /\ subLoc'[x] = subLoc[x] BY DEF StillAt
  <2>1. BillerOK(x) /\ MoneyDocsOK BY DEF MoneyInv
  <2>2. subPc[x] \in SettlerLabels => id \in Bills /\ bill[id].status \in {"PENDING", "PAID"}
    BY <2>1 DEF BillerOK, SettlerLabels
  <2>3. subPc[x] = "createBill" => subLoc[x].of \in opened' BY <2>1 DEF BillerOK
  <2>4. subPc[x] \in SettlerLabels => SameBill(id) BY <1>0, <2>2 DEF NewBill
  <2>5. subPc[x] \in SettlerLabels =>
           /\ bill'[id].of = bill[id].of /\ bill'[id].months = bill[id].months
           /\ bill'[id].end = bill[id].end /\ bill'[id].status = bill[id].status
           /\ bill[id].charged => bill'[id].charged
    BY <2>1, <2>4 DEF BillerOK, SettlerLabels, SameBill, StillAt
  <2>6. subPc[x] = "writePeriod" => sub'[bill[id].of].end = sub[bill[id].of].end
    <3>1. subPc[x] = "writePeriod" => bill[id].status = "PAID" /\ id \in Bills
      BY <2>1 DEF BillerOK, SettlerLabels
    <3>2. subPc[x] = "writePeriod" => bill[id].of \in Restaurants
      BY <2>1, <3>1 DEF MoneyInv, BillOK, MoneyDocsOK
    <3> QED BY <3>2
  <2> QED BY <2>0, <2>1, <2>2, <2>3, <2>5, <2>6 DEF BillerOK, SettlerLabels, Granted
<1>3. PaidUntil' = PaidUntil BY DEF PaidUntil
<1>4. \A x \in Settlers : x \in SubscriptionActors BY DEF SubscriptionActors
<1>5. {y \in Settlers : subPc'[y] = "stampPeriod"} = {y \in Settlers : subPc[y] = "stampPeriod"}
  BY <1>4 DEF StillAt
<1>6. \A y \in Settlers : subPc[y] = "stampPeriod" => subLoc'[y].id = subLoc[y].id
  BY <1>4 DEF StillAt
<1>7. {p \in Bills : Granted(p)}' = {p \in Bills : Granted(p)}
  BY <1>0 DEF SameBill, NewBill, Granted
<1>8. {subLoc'[x].id : x \in {y \in Settlers : subPc'[y] = "stampPeriod"}}
         = {subLoc[x].id : x \in {y \in Settlers : subPc[y] = "stampPeriod"}}
  BY <1>5, <1>6
<1>9. Used' = Used BY <1>7, <1>8 DEF Used
<1> QED BY <1>1, <1>2, <1>3, <1>9 DEF MoneyInv, NothingPaid

(* The same when no bill changes.                                          *)
LEMMA BillsStay ==
    ASSUME UNCHANGED bill
    PROVE  \A p \in Bills : SameBill(p)
BY DEF SameBill

(* No biller moves, and the bills' statuses change only when uncharged.    *)
LEMMA NobodyMoves ==
    ASSUME MoneyInv, UNCHANGED <<subPc, subLoc>>, MoneyDocsOK', opened \subseteq opened',
           \A p \in Bills : SameBill(p) /\ (bill[p].charged => bill'[p].status = bill[p].status),
           \A m \in Restaurants : sub'[m].end = sub[m].end
    PROVE  MoneyInv' /\ NothingPaid
<1>1. SubControlOK' BY DEF MoneyInv, SubControlOK
<1>2. ASSUME NEW x \in SubscriptionActors PROVE StillAt(x)
  <2>1. BillerOK(x) BY DEF MoneyInv
  <2> QED BY <2>1 DEF StillAt, BillerOK, SettlerLabels
<1> QED BY <1>1, <1>2, MoneyQuiet

(* One biller moves and holds no period before or after.                   *)
LEMMA BillerMoves ==
    ASSUME MoneyInv, NEW x \in SubscriptionActors, NEW label, NEW held, HeldForSub(held),
           SubGo(x, label, held), subPc[x] # "stampPeriod", label # "stampPeriod", BillerOK(x)',
           UNCHANGED <<sub, clock>>, MoneyDocsOK', opened \subseteq opened',
           \A p \in Bills : SameBill(p) \/ NewBill(p),
           \A y \in SubscriptionActors : y # x /\ subPc[y] = "markPaid" =>
               bill'[subLoc[y].id].status = "PENDING"
    PROVE  MoneyInv' /\ NothingPaid
<1>0. SubControlOK BY DEF MoneyInv
<1>1. /\ SubControlOK' /\ subPc'[x] = label
      /\ \A y \in SubscriptionActors : y # x => subPc'[y] = subPc[y] /\ subLoc'[y] = subLoc[y]
  BY <1>0, SubWalk
<1>2. \A y \in SubscriptionActors : y # x => StillAt(y) BY <1>1 DEF StillAt
<1>3. \A y \in SubscriptionActors :
         \/ StillAt(y)
         \/ subPc[y] # "stampPeriod" /\ subPc'[y] # "stampPeriod" /\ BillerOK(y)'
  BY <1>1, <1>2
<1> QED BY <1>1, <1>3, MoneyQuiet

LEMMA BillerReads ==
    ASSUME MoneyInv, NEW x \in SubscriptionActors, NEW label, NEW held, HeldForSub(held),
           SubGo(x, label, held), subPc[x] # "stampPeriod", label # "stampPeriod", BillerOK(x)',
           UNCHANGED <<sub, opened, bill, clock>>
    PROVE  MoneyInv' /\ NothingPaid
<1>1. MoneyDocsOK' /\ opened \subseteq opened' BY DEF MoneyInv, MoneyDocsOK
<1>2. ASSUME NEW y \in SubscriptionActors, subPc[y] = "markPaid"
      PROVE  bill'[subLoc[y].id].status = "PENDING"
  BY <1>2 DEF MoneyInv, BillerOK
<1> QED BY <1>1, <1>2, BillsStay, BillerMoves

(* nextPeriodStart never cuts off what was paid already.                   *)
LEMMA PeriodStart ==
    ASSUME MoneyDocsOK, NEW m \in Restaurants
    PROVE  NextPeriodStart(m) \in Nat /\ NextPeriodStart(m) >= sub[m].end
<1> DEFINE S == {clock, sub[m].trial, sub[m].end}
<1>1. clock \in Nat /\ sub[m].trial \in Int /\ sub[m].end \in Int BY DEF MoneyDocsOK
<1>2. \E x \in S : \A y \in S : x >= y
  <2>1. CASE clock >= sub[m].trial /\ clock >= sub[m].end BY <1>1, <2>1
  <2>2. CASE sub[m].trial >= clock /\ sub[m].trial >= sub[m].end BY <1>1, <2>2
  <2>3. CASE sub[m].end >= clock /\ sub[m].end >= sub[m].trial BY <1>1, <2>3
  <2> QED BY <1>1, <2>1, <2>2, <2>3
<1>3. Max(S) \in S /\ \A y \in S : Max(S) >= y BY <1>2 DEF Max
<1> QED BY <1>1, <1>3 DEF NextPeriodStart

LEMMA CheckoutMoney ==
    ASSUME MoneyInv, NEW x \in SubscriptionActors, CheckoutStep(x)
    PROVE  MoneyInv' /\ NothingPaid
<1>0. SubControlOK /\ MoneyDocsOK /\ BillerOK(x) BY DEF MoneyInv
<1>1. CASE ReadCheckout(x)
  <2>1. PICK m \in opened, s \in Slugs, i \in Intervals :
           SubGo(x, "createBill", [SubNothing EXCEPT !.of = m, !.slug = s, !.months = i])
    BY <1>1 DEF ReadCheckout
  <2> DEFINE held == [SubNothing EXCEPT !.of = m, !.slug = s, !.months = i]
  <2>2. HeldForSub(held) /\ held.of = m /\ held.months = i BY SubFields DEF HeldForSub
  <2> HIDE DEF held
  <2>3. subPc'[x] = "createBill" /\ subLoc'[x] = held BY <1>0, <2>1, <2>2, SubWalk DEF held
  <2>4. UNCHANGED <<sub, opened, bill, clock>> /\ subPc[x] = "idle" BY <1>1 DEF ReadCheckout
  <2>5. BillerOK(x)' BY <2>2, <2>3, <2>4 DEF BillerOK, SettlerLabels
  <2> QED BY <2>1, <2>2, <2>4, <2>5, BillerReads DEF held
<1>2. CASE CreateBill(x)
  <2> DEFINE l == subLoc[x]
             new == [NoBill EXCEPT !.of = l.of, !.slug = l.slug, !.months = l.months,
                                   !.status = "PENDING", !.age = "fresh"]
  <2>1. PICK p \in Bills : bill[p] = NoBill /\ bill' = [bill EXCEPT ![p] = new]
    BY <1>2 DEF CreateBill
  <2>2. /\ subPc[x] = "createBill" /\ SubDone(x)
        /\ UNCHANGED <<sub, opened, clock>>
    BY <1>2 DEF CreateBill
  <2>3. /\ DOMAIN new = DOMAIN NoBill /\ new.of = l.of /\ new.months = l.months
        /\ new.end = Absent
    BY SubFields DEF NoBill
  <2> HIDE DEF new
  <2>4. bill'[p] = new /\ \A q \in Bills : q # p => bill'[q] = bill[q]
    BY <1>0, <2>1 DEF MoneyDocsOK
  <2>5. MoneyDocsOK' BY <1>0, <2>1, <2>2, <2>3, <2>4 DEF MoneyDocsOK
  <2>6. l.of \in opened /\ l.months \in Intervals BY <1>0, <2>2 DEF BillerOK
  <2>7. \A q \in Bills : SameBill(q) \/ NewBill(q)
    BY <2>1, <2>2, <2>3, <2>4, <2>6 DEF SameBill, NewBill, Granted
  <2>8. SubGo(x, "idle", SubNothing) /\ HeldForSub(SubNothing) BY <2>2, SubDoneGoes, SubFields
  <2>9. subPc'[x] = "idle" BY <1>0, <2>8, SubWalk
  <2>10. BillerOK(x)' BY <2>9 DEF BillerOK, SettlerLabels
  <2>11. ASSUME NEW y \in SubscriptionActors, subPc[y] = "markPaid"
         PROVE  bill'[subLoc[y].id].status = "PENDING"
    <3>1. subLoc[y].id \in Bills /\ bill[subLoc[y].id].status = "PENDING"
      BY <2>11 DEF MoneyInv, BillerOK, SettlerLabels
    <3>2. subLoc[y].id # p BY <2>1, <3>1 DEF NoBill
    <3> QED BY <2>4, <3>1, <3>2
  <2> QED BY <2>2, <2>5, <2>7, <2>8, <2>10, <2>11, BillerMoves
<1> QED BY <1>1, <1>2 DEF CheckoutStep

LEMMA SettlementMoney ==
    ASSUME MoneyInv, SettlementsApart, NEW x \in Settlers, FindCharged(x) \/ MarkPaid(x) \/ ReadPeriod(x)
    PROVE  MoneyInv' /\ NothingPaid
<1> DEFINE l == subLoc[x]
           id == subLoc[x].id
<1>0. /\ SubControlOK /\ MoneyDocsOK /\ BillerOK(x) /\ x \in SubscriptionActors /\ HeldForSub(l)
  BY DEF MoneyInv, SubscriptionActors, SubControlOK
<1>1. CASE FindCharged(x)
  <2>1. PICK p \in Bills : /\ bill[p].charged /\ bill[p].status = "PENDING"
                           /\ SubGo(x, "markPaid", [SubNothing EXCEPT !.id = p, !.of = bill[p].of])
    BY <1>1 DEF FindCharged
  <2> DEFINE held == [SubNothing EXCEPT !.id = p, !.of = bill[p].of]
  <2>2. HeldForSub(held) /\ held.id = p /\ held.of = bill[p].of BY SubFields DEF HeldForSub
  <2> HIDE DEF held
  <2>3. subPc'[x] = "markPaid" /\ subLoc'[x] = held BY <1>0, <2>1, <2>2, SubWalk DEF held
  <2>4. UNCHANGED <<sub, opened, bill, clock>> /\ subPc[x] = "idle" BY <1>1 DEF FindCharged
  <2>5. BillerOK(x)' BY <2>1, <2>2, <2>3, <2>4 DEF BillerOK, SettlerLabels
  <2> QED BY <1>0, <2>1, <2>2, <2>4, <2>5, BillerReads DEF held
<1>2. CASE MarkPaid(x)
  <2>1. /\ subPc[x] = "markPaid" /\ SubGo(x, "readPeriod", l)
        /\ bill' = [bill EXCEPT ![id].status = "PAID", ![id].age = "closed"]
        /\ UNCHANGED <<sub, opened, clock>>
    BY <1>2 DEF MarkPaid
  <2> DEFINE new == [bill[id] EXCEPT !.status = "PAID", !.age = "closed"]
  <2>2. id \in Bills /\ bill[id].status = "PENDING" /\ bill[id].charged /\ l.of = bill[id].of
    BY <1>0, <2>1 DEF BillerOK, SettlerLabels
  <2>3. bill' = [bill EXCEPT ![id] = new] BY <1>0, <2>1, <2>2 DEF MoneyDocsOK
  <2>4. /\ DOMAIN new = DOMAIN NoBill /\ new.status = "PAID" /\ new.of = bill[id].of
        /\ new.months = bill[id].months /\ new.end = bill[id].end /\ new.charged = bill[id].charged
    BY <1>0, <2>2, SubFields DEF MoneyDocsOK
  <2> HIDE DEF new
  <2>5. bill'[id] = new /\ \A q \in Bills : q # id => bill'[q] = bill[q]
    BY <1>0, <2>2, <2>3 DEF MoneyDocsOK
  <2>6. MoneyDocsOK' BY <1>0, <2>1, <2>3, <2>4, <2>5 DEF MoneyDocsOK
  <2>7. \A q \in Bills : SameBill(q) BY <2>2, <2>4, <2>5 DEF SameBill
  <2>8. subPc'[x] = "readPeriod" /\ subLoc'[x] = l BY <1>0, <2>1, SubWalk
  <2>9. ~Granted(id) BY <2>2 DEF MoneyInv, BillOK
  <2>10. BillerOK(x)' BY <2>2, <2>4, <2>5, <2>8, <2>9, <1>0 DEF BillerOK, SettlerLabels, Granted
  <2>11. ASSUME NEW y \in SubscriptionActors, y # x, subPc[y] = "markPaid"
         PROVE  bill'[subLoc[y].id].status = "PENDING"
    <3>1. /\ y \in Settlers /\ subLoc[y].id \in Bills /\ bill[subLoc[y].id].status = "PENDING"
      BY <2>11 DEF MoneyInv, BillerOK, SettlerLabels
    <3>2. subLoc[y].id # id BY <2>1, <2>11, <3>1 DEF SettlementsApart, SettlerLabels
    <3> QED BY <2>5, <3>1, <3>2
  <2> QED BY <1>0, <2>1, <2>6, <2>7, <2>10, <2>11, BillerMoves
<1>3. CASE ReadPeriod(x)
  <2> DEFINE start == NextPeriodStart(l.of)
             end == start + MonthDays * bill[id].months
             held == [l EXCEPT !.start = start, !.end = end]
  <2>1. subPc[x] = "readPeriod" /\ UNCHANGED <<sub, opened, bill, clock>> /\ SubGo(x, "writePeriod", held)
    BY <1>3 DEF ReadPeriod
  <2>2. /\ id \in Bills /\ bill[id].status = "PAID" /\ l.of = bill[id].of /\ ~Granted(id)
    BY <1>0, <2>1 DEF BillerOK, SettlerLabels
  <2>3. bill[id].of \in Restaurants /\ bill[id].months \in Nat
    BY <1>0, <2>2, SubscriptionAssumption DEF MoneyInv, BillOK, MoneyDocsOK
  <2>4. start \in Nat /\ start >= sub[bill[id].of].end /\ sub[bill[id].of].end \in Int
    BY <1>0, <2>2, <2>3, PeriodStart DEF MoneyDocsOK
  <2>5. MonthDays * bill[id].months \in Nat BY <2>3, SubscriptionAssumption
  <2> HIDE DEF start
  <2>6. end \in Nat /\ end >= sub[bill[id].of].end + MonthDays * bill[id].months BY <2>4, <2>5
  <2>7. HeldForSub(held) /\ held.id = id /\ held.end = end
    BY <1>0, SubFields DEF HeldForSub
  <2> HIDE DEF end, held
  <2>8. subPc'[x] = "writePeriod" /\ subLoc'[x] = held BY <1>0, <2>1, <2>7, SubWalk
  <2>9. BillerOK(x)' BY <1>0, <2>1, <2>2, <2>6, <2>7, <2>8 DEF BillerOK, SettlerLabels, Granted
  <2> QED BY <1>0, <2>1, <2>7, <2>9, BillerReads
<1> QED BY <1>1, <1>2, <1>3

(* The one step that gives time: the whole interval, on top of what the    *)
(* restaurant had when its period was read, which nobody else moved since. *)
LEMMA PeriodWritten ==
    ASSUME MoneyInv, SettlementsApart, NEW x \in Settlers, WritePeriod(x)
    PROVE  MoneyInv' /\ Promised!NextPaidTime
<1> DEFINE l == subLoc[x]
           id == subLoc[x].id
           m == bill[id].of
           days == MonthDays * bill[id].months
           new == [sub[m] EXCEPT !.tier = bill[id].slug, !.months = bill[id].months,
                                 !.cap = CapOf[bill[id].slug], !.end = l.end]
<1>0. /\ SubControlOK /\ MoneyDocsOK /\ BillerOK(x) /\ x \in SubscriptionActors /\ HeldForSub(l)
  BY DEF MoneyInv, SubscriptionActors, SubControlOK
<1>1. /\ subPc[x] = "writePeriod" /\ SubGo(x, "stampPeriod", l)
      /\ UNCHANGED <<opened, bill, clock>>
  BY DEF WritePeriod
<1>2. /\ id \in Bills /\ bill[id].status = "PAID" /\ ~Granted(id)
      /\ l.end \in Nat /\ l.end >= sub[m].end + days
  BY <1>0, <1>1 DEF BillerOK, SettlerLabels
<1>3. m \in Restaurants /\ bill[id].months \in Intervals
  BY <1>0, <1>2 DEF MoneyInv, BillOK, MoneyDocsOK
<1>4. days \in {MonthDays * i : i \in Intervals} BY <1>3
<1> HIDE DEF days
<1>5. sub' = [sub EXCEPT ![m] = new] BY <1>0, <1>3 DEF WritePeriod, MoneyDocsOK
<1>6. DOMAIN new = DOMAIN NoSubscription /\ new.end = l.end /\ new.trial = sub[m].trial
  BY <1>0, <1>3, SubFields DEF MoneyDocsOK
<1> HIDE DEF new
<1>7. sub'[m] = new /\ \A k \in Restaurants : k # m => sub'[k] = sub[k]
  BY <1>0, <1>3, <1>5 DEF MoneyDocsOK
<1>8. MoneyDocsOK' BY <1>0, <1>1, <1>2, <1>5, <1>6, <1>7 DEF MoneyDocsOK
<1>9. /\ SubControlOK' /\ subPc'[x] = "stampPeriod" /\ subLoc'[x] = l
      /\ \A y \in SubscriptionActors : y # x => subPc'[y] = subPc[y] /\ subLoc'[y] = subLoc[y]
  BY <1>0, <1>1, SubWalk
<1>10. ASSUME NEW y \in SubscriptionActors PROVE BillerOK(y)'
  <2>1. CASE y = x BY <1>0, <1>1, <1>2, <1>9, <2>1 DEF BillerOK, SettlerLabels
  <2>2. CASE y # x
    <3>1. BillerOK(y) BY DEF MoneyInv
    <3>2. ASSUME subPc[y] = "writePeriod"
          PROVE  sub'[bill[subLoc[y].id].of].end = sub[bill[subLoc[y].id].of].end
      <4>1. y \in Settlers /\ subLoc[y].id \in Bills /\ bill[subLoc[y].id].status = "PAID"
        BY <3>1, <3>2 DEF BillerOK, SettlerLabels
      <4>2. bill[subLoc[y].id].of \in Restaurants
        BY <1>0, <4>1 DEF MoneyInv, BillOK, MoneyDocsOK
      <4>3. bill[subLoc[y].id].of # m
        BY <1>1, <2>2, <3>2, <4>1 DEF SettlementsApart, SettlerLabels
      <4> QED BY <1>7, <4>2, <4>3
    <3> QED BY <1>1, <1>9, <2>2, <3>1, <3>2 DEF BillerOK, SettlerLabels, Granted
  <2> QED BY <2>1, <2>2
<1>11. \A p \in Bills : BillOK(p)' BY <1>1 DEF MoneyInv, BillOK, Granted
<1>12. MoneyInv' BY <1>8, <1>9, <1>10, <1>11 DEF MoneyInv
<1>13. {p \in Bills : Granted(p)}' = {p \in Bills : Granted(p)} BY <1>1 DEF Granted
<1>14. \A y \in Settlers : y \in SubscriptionActors BY DEF SubscriptionActors
<1>15. {subLoc'[y].id : y \in {z \in Settlers : subPc'[z] = "stampPeriod"}}
         = {subLoc[y].id : y \in {z \in Settlers : subPc[z] = "stampPeriod"}} \cup {id}
  <2>1. \A y \in Settlers : subPc'[y] = "stampPeriod" <=> y = x \/ subPc[y] = "stampPeriod"
    BY <1>9, <1>14
  <2>2. \A y \in Settlers : subPc[y] = "stampPeriod" => y # x BY <1>1
  <2>3. \A y \in Settlers : subPc[y] = "stampPeriod" => subLoc'[y].id = subLoc[y].id
    BY <1>9, <1>14, <2>2
  <2>4. subLoc'[x].id = id BY <1>9
  <2> QED BY <2>1, <2>3, <2>4
<1>16. Used' = Used \cup {id} BY <1>13, <1>15 DEF Used
<1>17. \A y \in Settlers : subPc[y] = "stampPeriod" => subLoc[y].id # id
  <2> SUFFICES ASSUME NEW y \in Settlers, subPc[y] = "stampPeriod" PROVE subLoc[y].id # id
    OBVIOUS
  <2>1. y # x BY <1>1
  <2> QED BY <1>1, <2>1 DEF SettlementsApart, SettlerLabels
<1>18. id \notin Used /\ Used' = Used \cup {id} BY <1>2, <1>16, <1>17 DEF Used
<1>19. /\ PaidUntil'[m] = l.end /\ PaidUntil[m] = sub[m].end
       /\ PaidUntil' = [PaidUntil EXCEPT ![m] = PaidUntil'[m]]
  BY <1>3, <1>6, <1>7 DEF PaidUntil
<1>20. PaidUntil'[m] >= PaidUntil[m] + days BY <1>2, <1>19
<1>21. PICK k \in Restaurants, p \in Bills, d \in {MonthDays * i : i \in Intervals} :
          k = m /\ p = id /\ d = days
  BY <1>2, <1>3, <1>4
<1>22. Promised!Grant(k, p, d) BY <1>18, <1>19, <1>20, <1>21 DEF Promised!Grant, PaidUntil
<1> QED BY <1>12, <1>21, <1>22 DEF Promised!NextPaidTime

(* The payment that was used keeps its period for good.                    *)
LEMMA PeriodStamped ==
    ASSUME MoneyInv, SettlementsApart, NEW x \in Settlers, StampPeriod(x)
    PROVE  MoneyInv' /\ NothingPaid
<1> DEFINE l == subLoc[x]
           id == subLoc[x].id
           new == [bill[id] EXCEPT !.start = l.start, !.end = l.end]
<1>0. /\ SubControlOK /\ MoneyDocsOK /\ BillerOK(x) /\ x \in SubscriptionActors /\ HeldForSub(l)
  BY DEF MoneyInv, SubscriptionActors, SubControlOK
<1>1. /\ subPc[x] = "stampPeriod" /\ SubDone(x) /\ UNCHANGED <<sub, opened, clock>>
  BY DEF StampPeriod
<1>2. id \in Bills /\ bill[id].status = "PAID" /\ l.end \in Nat
  BY <1>0, <1>1 DEF BillerOK, SettlerLabels
<1>3. bill' = [bill EXCEPT ![id] = new] BY <1>0, <1>2 DEF StampPeriod, MoneyDocsOK
<1>4. /\ DOMAIN new = DOMAIN NoBill /\ new.end = l.end
      /\ new.status = "PAID" /\ new.of = bill[id].of /\ new.months = bill[id].months
  BY <1>0, <1>2, SubFields DEF MoneyDocsOK
<1> HIDE DEF new
<1>5. bill'[id] = new /\ \A p \in Bills : p # id => bill'[p] = bill[p]
  BY <1>0, <1>2, <1>3 DEF MoneyDocsOK
<1>6. MoneyDocsOK' BY <1>0, <1>1, <1>3, <1>4, <1>5 DEF MoneyDocsOK
<1>7. SubGo(x, "idle", SubNothing) /\ HeldForSub(SubNothing) BY <1>1, SubDoneGoes, SubFields
<1>8. /\ SubControlOK' /\ subPc'[x] = "idle"
      /\ \A y \in SubscriptionActors : y # x => subPc'[y] = subPc[y] /\ subLoc'[y] = subLoc[y]
  BY <1>0, <1>7, SubWalk
<1>9. ASSUME NEW y \in SubscriptionActors PROVE BillerOK(y)'
  <2>1. CASE y = x BY <1>8, <2>1 DEF BillerOK, SettlerLabels
  <2>2. CASE y # x
    <3>1. BillerOK(y) BY DEF MoneyInv
    <3>2. ASSUME subPc[y] \in SettlerLabels
          PROVE  subLoc[y].id \in Bills /\ bill'[subLoc[y].id] = bill[subLoc[y].id]
      <4>1. y \in Settlers /\ subLoc[y].id \in Bills BY <3>1, <3>2 DEF BillerOK
      <4>2. subLoc[y].id # id BY <1>1, <2>2, <3>2, <4>1 DEF SettlementsApart, SettlerLabels
      <4> QED BY <1>5, <4>1, <4>2
    <3> QED BY <1>1, <1>8, <2>2, <3>1, <3>2 DEF BillerOK, SettlerLabels, Granted
  <2> QED BY <2>1, <2>2
<1>10. ASSUME NEW p \in Bills PROVE BillOK(p)'
  <2>1. BillOK(p) BY DEF MoneyInv
  <2> QED BY <1>1, <1>2, <1>4, <1>5, <2>1 DEF BillOK, Granted
<1>11. MoneyInv' BY <1>6, <1>8, <1>9, <1>10 DEF MoneyInv
<1>12. \A y \in Settlers : y \in SubscriptionActors BY DEF SubscriptionActors
<1>13. {subLoc[y].id : y \in {z \in Settlers : subPc[z] = "stampPeriod"}}
         = {subLoc'[y].id : y \in {z \in Settlers : subPc'[z] = "stampPeriod"}} \cup {id}
  <2>1. \A y \in Settlers : subPc[y] = "stampPeriod" <=> y = x \/ subPc'[y] = "stampPeriod"
    BY <1>1, <1>8, <1>12
  <2>2. \A y \in Settlers : subPc'[y] = "stampPeriod" => subLoc'[y].id = subLoc[y].id
    BY <1>8, <1>12
  <2> QED BY <2>1, <2>2
<1>14. /\ bill'[id].end # Absent
       /\ \A p \in Bills : p # id => bill'[p].end = bill[p].end
  BY <1>2, <1>4, <1>5 DEF Absent
<1>15. {p \in Bills : Granted(p)}' = {p \in Bills : Granted(p)} \cup {id}
  BY <1>2, <1>14 DEF Granted
<1>16. Used' = Used BY <1>13, <1>15 DEF Used
<1>18. PaidUntil' = PaidUntil BY <1>1 DEF PaidUntil
<1> QED BY <1>11, <1>16, <1>18 DEF NothingPaid

LEMMA PlansMoney ==
    ASSUME MoneyInv, NEW a \in PlanAdmins, PlanAdminStep(a)
    PROVE  MoneyInv' /\ NothingPaid
<1>0. SubControlOK /\ a \in SubscriptionActors BY DEF MoneyInv, SubscriptionActors
<1>1. UNCHANGED <<sub, opened, bill, clock>> /\ subPc[a] \in PlanLabels BY <1>0, PlanAdminWalks
<1>2. PICK label, held : label \in PlanLabels /\ HeldForSub(held) /\ SubGo(a, label, held)
  BY <1>0, PlanAdminWalks
<1>3. subPc'[a] = label BY <1>0, <1>2, SubWalk
<1>4. BillerOK(a)' BY <1>2, <1>3 DEF BillerOK, PlanLabels, SettlerLabels
<1>5. subPc[a] # "stampPeriod" /\ label # "stampPeriod" BY <1>1, <1>2 DEF PlanLabels
<1> QED BY <1>0, <1>1, <1>2, <1>4, <1>5, BillerReads

(* A bill ages, is charged or fails.                                       *)
LEMMA BillsMoney ==
    ASSUME MoneyInv, NEW p \in Bills, BillAges(p) \/ CustomerPays(p) \/ BillFails(p)
    PROVE  MoneyInv' /\ NothingPaid
<1>0. MoneyDocsOK BY DEF MoneyInv
<1>1. UNCHANGED <<sub, opened, clock, subPc, subLoc>> /\ bill[p].status = "PENDING"
  BY DEF BillAges, CustomerPays, BillFails
<1>2. /\ DOMAIN bill' = Bills
      /\ \A q \in Bills : DOMAIN bill'[q] = DOMAIN NoBill
      /\ \A q \in Bills : SameBill(q) /\ (bill[q].charged => bill'[q].status = bill[q].status)
  <2>1. CASE BillAges(p)
    <3>1. PICK age : bill' = [bill EXCEPT ![p].age = age] BY <2>1 DEF BillAges
    <3> QED BY <1>0, <3>1, SubFields DEF MoneyDocsOK, SameBill
  <2>2. CASE CustomerPays(p)
    <3>1. bill' = [bill EXCEPT ![p].charged = TRUE] BY <2>2 DEF CustomerPays
    <3> QED BY <1>0, <3>1, SubFields DEF MoneyDocsOK, SameBill
  <2>3. CASE BillFails(p)
    <3>1. PICK status \in {"FAILED", "EXPIRED"} :
             bill' = [bill EXCEPT ![p].status = status, ![p].age = "closed"]
      BY <2>3 DEF BillFails
    <3>2. ~bill[p].charged BY <2>3 DEF BillFails
    <3> DEFINE new == [bill[p] EXCEPT !.status = status, !.age = "closed"]
    <3>3. bill' = [bill EXCEPT ![p] = new] BY <1>0, <3>1 DEF MoneyDocsOK
    <3>4. /\ DOMAIN new = DOMAIN NoBill /\ new.status = status /\ new.of = bill[p].of
          /\ new.months = bill[p].months /\ new.end = bill[p].end
          /\ new.charged = bill[p].charged
      BY <1>0, SubFields DEF MoneyDocsOK
    <3> HIDE DEF new
    <3>5. bill'[p] = new /\ \A q \in Bills : q # p => bill'[q] = bill[q]
      BY <1>0, <3>3 DEF MoneyDocsOK
    <3>6. status # "PENDING" OBVIOUS
    <3>7. DOMAIN bill' = Bills BY <1>0, <3>3 DEF MoneyDocsOK
    <3>8. \A q \in Bills : DOMAIN bill'[q] = DOMAIN NoBill BY <1>0, <3>4, <3>5 DEF MoneyDocsOK
    <3>9. ASSUME NEW q \in Bills
          PROVE  SameBill(q) /\ (bill[q].charged => bill'[q].status = bill[q].status)
      BY <1>1, <3>2, <3>4, <3>5, <3>6 DEF SameBill
    <3> QED BY <3>7, <3>8, <3>9
  <2> QED BY <2>1, <2>2, <2>3
<1>3. MoneyDocsOK' BY <1>0, <1>1, <1>2 DEF MoneyDocsOK
<1> QED BY <1>1, <1>2, <1>3, NobodyMoves

(* Trials and seats are set, days pass: nobody's paid time moves.          *)
LEMMA TrialsMoney ==
    ASSUME MoneyInv,
           BackfillTrials \/ SetTrial \/ SetEarlyBird \/ \E o \in Owners : GrantTrial(o)
    PROVE  MoneyInv' /\ NothingPaid
<1>0. MoneyDocsOK BY DEF MoneyInv
<1>1. UNCHANGED <<opened, bill, clock, subPc, subLoc>>
  BY DEF BackfillTrials, SetTrial, SetEarlyBird, GrantTrial
<1>t. \A d \in {clock, clock + TrialDays} : d \in Int
  BY <1>0, SubscriptionAssumption DEF MoneyDocsOK
<1>2. /\ DOMAIN sub' = Restaurants
      /\ \A m \in Restaurants : /\ DOMAIN sub'[m] = DOMAIN NoSubscription
                                /\ sub'[m].end = sub[m].end /\ sub'[m].trial \in Int
  <2>1. CASE BackfillTrials
    <3>1. PICK s \in TrialPlans :
             sub' = [m \in Restaurants |->
                       IF m \in opened /\ sub[m].trial = Absent /\ sub[m].end = Absent
                       THEN [sub[m] EXCEPT !.trial = clock + TrialDays, !.trialCap = CapOf[s]]
                       ELSE sub[m]]
      BY <2>1 DEF BackfillTrials
    <3> QED BY <1>0, <1>t, <3>1, SubFields DEF MoneyDocsOK
  <2>2. CASE SetTrial
    <3>1. PICK m, day : day \in {clock, clock + TrialDays} /\ sub' = [sub EXCEPT ![m].trial = day]
      BY <2>2 DEF SetTrial
    <3> QED BY <1>0, <1>t, <3>1, SubFields DEF MoneyDocsOK
  <2>3. CASE SetEarlyBird
    <3>1. PICK m, granted : sub' = [sub EXCEPT ![m].seat = granted] BY <2>3 DEF SetEarlyBird
    <3> QED BY <1>0, <3>1, SubFields DEF MoneyDocsOK
  <2>4. CASE \E o \in Owners : GrantTrial(o)
    <3>1. PICK o \in Owners : GrantTrial(o) BY <2>4
    <3> DEFINE m == joinLoc[o].merchant
               day == IF joinLoc[o].trials THEN clock + TrialDays ELSE sub[m].trial
    <3>s. PICK seat : sub' = [sub EXCEPT ![m].trial = IF joinLoc[o].trials THEN clock + TrialDays
                                                      ELSE @,
                                         ![m].seat = seat]
      BY <3>1, Zenon DEF GrantTrial
    <3> DEFINE new == [sub[m] EXCEPT !.trial = day, !.seat = seat]
    <3>2. sub' = [sub EXCEPT ![m] = new] BY <1>0, <3>s DEF MoneyDocsOK
    <3>3. m \in Restaurants => day \in Int BY <1>0, <1>t DEF MoneyDocsOK
    <3> HIDE DEF day
    <3>4. m \in Restaurants => /\ DOMAIN new = DOMAIN NoSubscription
                               /\ new.end = sub[m].end /\ new.trial = day
      BY <1>0, SubFields DEF MoneyDocsOK
    <3> HIDE DEF new
    <3> QED BY <1>0, <3>2, <3>3, <3>4 DEF MoneyDocsOK
  <2> QED BY <2>1, <2>2, <2>3, <2>4
<1>3. MoneyDocsOK' BY <1>0, <1>1, <1>2 DEF MoneyDocsOK
<1>4. \A p \in Bills : SameBill(p) /\ (bill[p].charged => bill'[p].status = bill[p].status)
  BY <1>1, BillsStay
<1> QED BY <1>1, <1>2, <1>3, <1>4, NobodyMoves

LEMMA ClockMoney ==
    ASSUME MoneyInv, ClockTicks
    PROVE  MoneyInv' /\ NothingPaid
<1>0. MoneyDocsOK BY DEF MoneyInv
<1>1. /\ UNCHANGED <<sub, opened, subPc, subLoc>> /\ clock' = clock + 1
      /\ bill' = [p \in Bills |-> [bill[p] EXCEPT !.age = "closed"]]
  BY DEF ClockTicks
<1>2. /\ DOMAIN bill' = Bills
      /\ \A p \in Bills : /\ DOMAIN bill'[p] = DOMAIN NoBill /\ SameBill(p)
                          /\ bill'[p].status = bill[p].status
  BY <1>0, <1>1, SubFields DEF MoneyDocsOK, SameBill
<1>3. MoneyDocsOK' BY <1>0, <1>1, <1>2 DEF MoneyDocsOK
<1> QED BY <1>1, <1>2, <1>3, NobodyMoves

LEMMA MoneyStays ==
    ASSUME MoneyInv, UNCHANGED <<sub, bill, clock, subPc, subLoc>>,
           opened \subseteq opened', opened' \subseteq Restaurants
    PROVE  MoneyInv' /\ NothingPaid
<1>1. MoneyDocsOK' BY DEF MoneyInv, MoneyDocsOK
<1>2. \A p \in Bills : SameBill(p) /\ (bill[p].charged => bill'[p].status = bill[p].status)
  BY BillsStay
<1> QED BY <1>1, <1>2, NobodyMoves

(* Settling a payment in five steps, while the calendar moves, admins      *)
(* publish and remove plans, grant trials and approve restaurants, and     *)
(* managers start other checkouts, extends the restaurant's paid time      *)
(* once, at one moment and by all the days that were bought (onPaid,       *)
(* 'renewing early must extend rather than truncate').  Any number of      *)
(* settlements may be under way, of different restaurants: two of one      *)
(* payment both extend, and two payments of one restaurant grant one.      *)
THEOREM PaidTimeCorrect == SpecJoining /\ []SettlementsApart => PaidTimeImplemented
<1>1. InitJoining => MoneyInv /\ JoinInv /\ Promised!InitPaidTime
  <2> SUFFICES ASSUME InitJoining PROVE MoneyInv /\ JoinInv /\ Promised!InitPaidTime OBVIOUS
  <2>1. JoinInv
    <3>1. JoinControlOK BY JoinFields DEF InitJoining, InitOnboarding, JoinControlOK
    <3>2. JoinDocsOK BY JoinFields DEF InitJoining, InitOnboarding, JoinDocsOK
    <3>3. \A f \in Forms : form[f] = NoForm BY DEF InitJoining, InitOnboarding
    <3>4. OneFormEach /\ \A f \in Forms : FormOK(f) BY <3>3, JoinFields DEF OneFormEach, FormOK
    <3>5. \A x \in Joiners : JoinerOK(x) /\ Unclaimed(x)
      BY DEF InitJoining, InitOnboarding, JoinerOK, Unclaimed, Approving, Holding
    <3> QED BY <3>1, <3>2, <3>4, <3>5 DEF JoinInv
  <2>2. SubControlOK BY SubFields DEF InitJoining, InitSubscriptions, SubControlOK
  <2>3. \A m \in Restaurants : sub[m] = NoSubscription /\ sub[m].end = -1 /\ sub[m].trial = -1
    BY DEF InitJoining, InitSubscriptions, NoSubscription, Absent
  <2>4. \A p \in Bills : bill[p] = NoBill /\ bill[p].status = "none" /\ ~Granted(p)
    BY DEF InitJoining, InitSubscriptions, NoBill, Granted
  <2>5. DOMAIN sub = Restaurants /\ DOMAIN bill = Bills /\ clock = 0 /\ opened = {}
    BY DEF InitJoining, InitSubscriptions
  <2>6. MoneyDocsOK BY <2>3, <2>4, <2>5 DEF MoneyDocsOK
  <2>7. \A p \in Bills : BillOK(p) BY <2>4 DEF BillOK
  <2>8. \A x \in SubscriptionActors : subPc[x] = "idle"
    BY DEF InitJoining, InitSubscriptions
  <2>9. \A x \in SubscriptionActors : BillerOK(x) BY <2>8 DEF BillerOK, SettlerLabels
  <2>10. Used = {} BY <2>4, <2>8 DEF Used, SubscriptionActors
  <2>11. Promised!InitPaidTime BY <2>3, <2>10 DEF Promised!InitPaidTime
  <2> QED BY <2>1, <2>2, <2>6, <2>7, <2>9, <2>11 DEF MoneyInv
<1>2. MoneyInv /\ JoinInv /\ SettlementsApart /\ [NextJoining]_joiningVars
        => MoneyInv' /\ JoinInv' /\ [Promised!NextPaidTime]_(Promised!paidTimeVars)
  <2> SUFFICES ASSUME MoneyInv, JoinInv, SettlementsApart, [NextJoining]_joiningVars
               PROVE  MoneyInv' /\ (Promised!NextPaidTime \/ UNCHANGED Promised!paidTimeVars)
    BY JoinNext
  <2>0. NothingPaid => UNCHANGED Promised!paidTimeVars
    BY DEF NothingPaid, PaidUntil, Promised!paidTimeVars
  <2>o. opened \subseteq Restaurants /\ opened' \subseteq Restaurants
    BY JoinNext DEF JoinInv, JoinDocsOK
  <2>1. CASE NextPlans BY <2>0, <2>1, PlansMoney DEF NextPlans
  <2>2. CASE NextBilling
    <3>1. CASE \E x \in Tabs : CheckoutStep(x)
      BY <2>0, <3>1, CheckoutMoney DEF SubscriptionActors
    <3>2. CASE \E x \in Settlers : SettlerStep(x)
      BY <2>0, <3>2, SettlementMoney, PeriodWritten, PeriodStamped DEF SettlerStep
    <3>3. CASE \E p \in Bills : BillAges(p) \/ CustomerPays(p) \/ BillFails(p)
      BY <2>0, <3>3, BillsMoney
    <3>4. CASE BackfillTrials \/ SetTrial BY <2>0, <3>4, TrialsMoney
    <3>5. CASE ClockTicks BY <2>0, <3>5, ClockMoney
    <3>6. CASE AddProduct \/ DropProduct
      BY <2>0, <2>o, <3>6, MoneyStays DEF AddProduct, DropProduct
    <3> QED BY <2>2, <3>1, <3>2, <3>3, <3>4, <3>5, <3>6 DEF NextBilling
  <2>3. CASE BackfillTrials \/ SetEarlyBird BY <2>0, <2>3, TrialsMoney
  <2>4. CASE ClockTicks BY <2>0, <2>4, ClockMoney
  <2>5. CASE UpdateSettings BY <2>0, <2>o, <2>5, MoneyStays DEF UpdateSettings
  <2>6. CASE \/ \E x \in Applicants : ReadSubmission(x) \/ SubmitApplication(x)
             \/ \E a \in Reviewers : ReviewerStep(a)
             \/ \E o \in Owners : OwnerStep(o)
             \/ ResendApprovalEmail
    <3>1. /\ UNCHANGED <<plan, bill, clock, subPc, subLoc>> /\ opened \subseteq opened'
          /\ UNCHANGED sub \/ \E o \in Owners : GrantTrial(o)
      BY <2>6, JoiningSteps
    <3> QED BY <2>0, <2>o, <3>1, MoneyStays, TrialsMoney
  <2>7. CASE UNCHANGED joiningVars
    BY <2>0, <2>o, <2>7, MoneyStays DEF joiningVars, subscriptionVars
  <2> QED BY <2>1, <2>2, <2>3, <2>4, <2>5, <2>6, <2>7 DEF NextJoining, NextOnboarding
<1> QED BY <1>1, <1>2, PTL DEF SpecJoining, PaidTimeImplemented, Promised!SpecPaidTime

-------------------------------------------------------------------------------
(* Payouts.  Requests may overlap as long as they all record payouts up to *)
(* the same date: what the index on (restaurant, periodEnd) is made for.   *)
OneCutoffAtATime == \A a, b \in Admins :
    a # b /\ payoutPc[a] # "idle" /\ payoutPc[b] # "idle" =>
        /\ payoutPc[a] \in {"create", "stamp"} /\ payoutPc[b] \in {"create", "stamp"}
        /\ payoutLoc[a].doc.end = payoutLoc[b].doc.end

HeldForPayout(held) == /\ DOMAIN held = DOMAIN PayoutNothing
                       /\ DOMAIN held.doc = DOMAIN NoPayout

PayoutShape ==
    /\ DOMAIN payout = 1..MaxPayouts
    /\ \A n \in 1..MaxPayouts : DOMAIN payout[n] = DOMAIN NoPayout
    /\ DOMAIN sale = Sales
    /\ \A o \in Sales : DOMAIN sale[o] = {"status", "delivered", "payout"}
    /\ DOMAIN payoutPc = Admins /\ DOMAIN payoutLoc = Admins
    /\ \A a \in Admins : HeldForPayout(payoutLoc[a])

SaleLine(o) == [kind |-> "sale", ref |-> o, order |-> o]

(* The sales among a payout's lines are sales of its restaurant.           *)
OwnSales(doc) == \A line \in doc.lines : line.kind = "sale" =>
    \E o \in Sales : line = SaleLine(o) /\ MerchantOf[o] = doc.merchant

(* None of the sales among the lines bears the mark of a payout.           *)
Unmarked(lines, sold) == \A o \in Sales : SaleLine(o) \in lines => sold[o].payout = 0

(* A live row has the restaurant and the end of doc.                       *)
PeriodTaken(doc, rows) == \E n \in 1..MaxPayouts :
    rows[n].merchant = doc.merchant /\ rows[n].end = doc.end /\ rows[n].status \in Live

OnePerPeriod(rows) == \A n, k \in 1..MaxPayouts :
    /\ rows[n].status \in Live /\ rows[k].status \in Live
    /\ rows[n].merchant = rows[k].merchant /\ rows[n].end = rows[k].end
    => n = k

(* An admin is about to mark the orders of payout n, or to let it fail.    *)
MarksFor(label, held, n) ==
    /\ held.id = n
    /\ label = "stamp" \/ (label = "finish" /\ held.doc.status = "failed")

(* A sale that a live payout lists bears its mark, unless an admin is at it. *)
MarksMatch == \A n \in 1..MaxPayouts, o \in Sales :
    payout[n].status \in Live /\ SaleLine(o) \in payout[n].lines
        => sale[o].payout = n \/ \E a \in Admins : MarksFor(payoutPc[a], payoutLoc[a], n)

PayoutRows(rows) == OnePerPeriod(rows) /\ \A n \in 1..MaxPayouts : OwnSales(rows[n])

(* What an admin holds between two steps of a request, given the rows and  *)
(* the sales: the orders he is about to pay are unmarked, unless somebody  *)
(* was faster, whose row will make the index refuse his.                   *)
HeldPayout(label, held, rows, sold) ==
    /\ label = "create" =>
         /\ OwnSales(held.doc) /\ held.doc.status = "pending"
         /\ PeriodTaken(held.doc, rows) \/ Unmarked(held.doc.lines, sold)
    /\ label = "stamp" =>
         /\ held.id \in 1..MaxPayouts /\ rows[held.id] = held.doc
         /\ held.doc.status = "pending" /\ Unmarked(held.doc.lines, sold)
    /\ label \in {"unset", "finish"} =>
         /\ held.id \in 1..MaxPayouts /\ rows[held.id].status = "pending"
         /\ held.doc.status \in {"completed", "failed"}
    /\ label = "unset" => held.doc.status = "failed"
    /\ label = "finish" /\ held.doc.status = "failed" =>
         Unmarked(rows[held.id].lines, sold)

RowsApart == \A a, b \in Admins :
    a # b /\ payoutPc[a] = "stamp" /\ payoutPc[b] = "stamp" => payoutLoc[a].id # payoutLoc[b].id

MarkInv ==
    /\ PayoutShape
    /\ ~restarted => /\ PayoutRows(payout) /\ MarksMatch /\ RowsApart
                     /\ \A a \in Admins : HeldPayout(payoutPc[a], payoutLoc[a], payout, sale)

LEMMA PayoutFields ==
    /\ DOMAIN NoPayout = {"merchant", "start", "end", "lines", "status"}
    /\ DOMAIN PayoutNothing = {"id", "doc"}
    /\ HeldForPayout(PayoutNothing)
    /\ NoPayout.status = "none" /\ NoPayout.lines = {}
BY DEF NoPayout, PayoutNothing, HeldForPayout

(* A step of the admin, seen by everybody.                                 *)
LEMMA PayoutWalk ==
    ASSUME PayoutShape, NEW a \in Admins, NEW label, NEW held, PayoutGo(a, label, held)
    PROVE  /\ payoutPc'[a] = label /\ payoutLoc'[a] = held
           /\ \A b \in Admins : b # a => payoutPc'[b] = payoutPc[b] /\ payoutLoc'[b] = payoutLoc[b]
           /\ DOMAIN payoutPc' = Admins /\ DOMAIN payoutLoc' = Admins
BY DEF PayoutShape, PayoutGo

(* The shape survives a walk that leaves rows of the right shape.          *)
LEMMA PayoutShapeKept ==
    ASSUME PayoutShape, NEW a \in Admins, NEW label, NEW held, HeldForPayout(held),
           PayoutGo(a, label, held),
           DOMAIN payout' = 1..MaxPayouts,
           \A n \in 1..MaxPayouts : DOMAIN payout'[n] = DOMAIN NoPayout,
           DOMAIN sale' = Sales,
           \A o \in Sales : DOMAIN sale'[o] = {"status", "delivered", "payout"}
    PROVE  PayoutShape'
<1>1. \A b \in Admins : HeldForPayout(payoutLoc'[b]) BY PayoutWalk DEF PayoutShape
<1>2. DOMAIN payoutPc' = Admins /\ DOMAIN payoutLoc' = Admins BY PayoutWalk
<1> QED BY <1>1, <1>2 DEF PayoutShape, HeldForPayout

LEMMA StatementDoc ==
    ASSUME NEW m, NEW end
    PROVE  LET doc == [Statement(m, end) EXCEPT !.status = "pending"]
           IN  /\ DOMAIN doc = DOMAIN NoPayout
               /\ doc.merchant = m /\ doc.start = PaidThrough(m) /\ doc.end = end
               /\ doc.status = "pending"
               /\ doc.lines = SaleLines(m, end) \cup RefundLines(m, PaidThrough(m), end)
                                   \cup AdjustmentLines(m, PaidThrough(m), end)
BY DEF Statement, NoPayout

(* A statement offers only unmarked sales of its restaurant.               *)
LEMMA StatementSales ==
    ASSUME NEW m, NEW end, NEW doc, doc.merchant = m,
           doc.lines = SaleLines(m, end) \cup RefundLines(m, PaidThrough(m), end)
                             \cup AdjustmentLines(m, PaidThrough(m), end)
    PROVE  OwnSales(doc) /\ Unmarked(doc.lines, sale)
<1>1. \A line \in SaleLines(m, end) :
         \E o \in Sales : line = SaleLine(o) /\ MerchantOf[o] = m /\ sale[o].payout = 0
  BY DEF SaleLines, SaleLine
<1>2. \A line \in RefundLines(m, PaidThrough(m), end) : line.kind = "refund" BY DEF RefundLines
<1>3. \A line \in AdjustmentLines(m, PaidThrough(m), end) : line.kind = "adjustment"
  BY DEF AdjustmentLines
<1>4. \A o : SaleLine(o).kind = "sale" /\ SaleLine(o).ref = o BY DEF SaleLine
<1> QED BY <1>1, <1>2, <1>3, <1>4 DEF OwnSales, Unmarked

(* Everybody but a, where a records a payout: nothing of what they hold is *)
(* upset when rows are added and no sale of theirs is marked in vain.      *)
LEMMA RecordersKept ==
    ASSUME NEW label, NEW held, NEW rows, NEW sold, NEW rows2, NEW sold2,
           HeldPayout(label, held, rows, sold), label \in {"idle", "create", "stamp"},
           \A n \in 1..MaxPayouts : rows[n].status \in Live => rows2[n] = rows[n],
           label = "create" /\ ~PeriodTaken(held.doc, rows2) /\ Unmarked(held.doc.lines, sold)
              => Unmarked(held.doc.lines, sold2),
           label = "stamp" /\ Unmarked(held.doc.lines, sold) => Unmarked(held.doc.lines, sold2)
    PROVE  HeldPayout(label, held, rows2, sold2)
<1>1. PeriodTaken(held.doc, rows) => PeriodTaken(held.doc, rows2) BY DEF PeriodTaken
<1>2. label = "stamp" => rows2[held.id] = held.doc BY DEF HeldPayout, Live
<1> QED BY <1>1, <1>2 DEF HeldPayout

(* The marks still match if the rows and sales did not change and nobody   *)
(* who was at a payout has left it.                                        *)
LEMMA MatchKept ==
    ASSUME MarksMatch,
           \A n \in 1..MaxPayouts : payout'[n].status \in Live =>
                payout[n].status \in Live /\ payout'[n].lines = payout[n].lines,
           \A o \in Sales : sale'[o].payout = sale[o].payout,
           \A n \in 1..MaxPayouts, b \in Admins : MarksFor(payoutPc[b], payoutLoc[b], n) =>
                \E c \in Admins : MarksFor(payoutPc'[c], payoutLoc'[c], n)
    PROVE  MarksMatch'
<1> SUFFICES ASSUME NEW n \in 1..MaxPayouts, NEW o \in Sales,
                    payout'[n].status \in Live, SaleLine(o) \in payout'[n].lines
             PROVE  sale'[o].payout = n \/ \E c \in Admins : MarksFor(payoutPc'[c], payoutLoc'[c], n)
  BY DEF MarksMatch, MarksFor, SaleLine
<1>1. payout[n].status \in Live /\ SaleLine(o) \in payout[n].lines OBVIOUS
<1>2. sale[o].payout = n \/ \E b \in Admins : MarksFor(payoutPc[b], payoutLoc[b], n)
  BY <1>1 DEF MarksMatch
<1> QED BY <1>2

LEMMA ReadMarks ==
    ASSUME MarkInv, NEW a \in Admins, ReadStatement(a)
    PROVE  MarkInv'
<1>1. PICK m \in Merchants, end \in 0..today :
         PayoutGo(a, "create", [id |-> 0, doc |-> [Statement(m, end) EXCEPT !.status = "pending"]])
  BY DEF ReadStatement
<1>2. PICK doc : doc = [Statement(m, end) EXCEPT !.status = "pending"] OBVIOUS
<1>3. PICK held : held = [id |-> 0, doc |-> doc] OBVIOUS
<1>4. PayoutGo(a, "create", held) BY <1>1, <1>2, <1>3
<1>5. /\ DOMAIN doc = DOMAIN NoPayout /\ doc.status = "pending"
      /\ OwnSales(doc) /\ Unmarked(doc.lines, sale)
  <2>1. /\ DOMAIN doc = DOMAIN NoPayout /\ doc.status = "pending" /\ doc.merchant = m
        /\ doc.lines = SaleLines(m, end) \cup RefundLines(m, PaidThrough(m), end)
                          \cup AdjustmentLines(m, PaidThrough(m), end)
    BY <1>2, StatementDoc
  <2> QED BY <2>1, StatementSales
<1>6. HeldForPayout(held) /\ held.doc = doc BY <1>3, <1>5 DEF HeldForPayout, PayoutNothing
<1>u. UNCHANGED <<sale, payout, restarted>> BY DEF ReadStatement
<1>s. PayoutShape' BY <1>4, <1>6, <1>u, PayoutShapeKept DEF MarkInv, PayoutShape
<1>w. /\ payoutPc'[a] = "create" /\ payoutLoc'[a] = held /\ payoutPc[a] = "idle"
      /\ \A b \in Admins : b # a => payoutPc'[b] = payoutPc[b] /\ payoutLoc'[b] = payoutLoc[b]
  BY <1>4, PayoutWalk DEF MarkInv, ReadStatement
<1>7. ASSUME ~restarted'
      PROVE  /\ PayoutRows(payout') /\ MarksMatch' /\ RowsApart'
             /\ \A b \in Admins : HeldPayout(payoutPc'[b], payoutLoc'[b], payout', sale')
  <2>0. /\ PayoutRows(payout) /\ MarksMatch /\ RowsApart
        /\ \A b \in Admins : HeldPayout(payoutPc[b], payoutLoc[b], payout, sale)
    BY <1>7, <1>u DEF MarkInv
  <2>1. \A n \in 1..MaxPayouts, b \in Admins : MarksFor(payoutPc[b], payoutLoc[b], n) => b # a
    BY <1>w DEF MarksFor
  <2>2. MarksMatch' BY <2>0, <2>1, <1>u, <1>w, MatchKept
  <2>3. RowsApart' BY <2>0, <1>w DEF RowsApart
  <2>4. HeldPayout("create", held, payout, sale) BY <1>5, <1>6 DEF HeldPayout
  <2> QED BY <2>0, <2>2, <2>3, <2>4, <1>u, <1>w
<1> QED BY <1>s, <1>7 DEF MarkInv

LEMMA CreateMarks ==
    ASSUME MarkInv, OneCutoffAtATime, NEW a \in Admins, CreatePayout(a)
    PROVE  MarkInv'
<1>0. PICK doc : doc = payoutLoc[a].doc OBVIOUS
<1>u. UNCHANGED <<sale, restarted>> /\ payoutPc[a] = "create" BY DEF CreatePayout
<1>1. PICK label, held : PayoutGo(a, label, held) /\ HeldForPayout(held)
        /\ \/ label = "idle" /\ UNCHANGED payout
           \/ /\ label = "stamp" /\ held.id \in 1..MaxPayouts /\ held.doc = doc
              /\ payout[held.id] = NoPayout /\ payout' = [payout EXCEPT ![held.id] = doc]
              /\ ~ PeriodTaken(doc, payout)
  <2>1. CASE Settled(doc.merchant, doc.end)
    <3>1. PayoutGo(a, "idle", PayoutNothing) /\ UNCHANGED payout
      BY <1>0, <2>1 DEF CreatePayout, PayoutDone
    <3> QED BY <3>1, PayoutFields
  <2>2. CASE ~ Settled(doc.merchant, doc.end)
    <3>1. PICK n \in 1..MaxPayouts : /\ payout[n] = NoPayout
                                     /\ payout' = [payout EXCEPT ![n] = doc]
                                     /\ PayoutGo(a, "stamp", [id |-> n, doc |-> doc])
      BY <1>0, <2>2 DEF CreatePayout
    <3>2. PICK held : held = [id |-> n, doc |-> doc] OBVIOUS
    <3>3. DOMAIN doc = DOMAIN NoPayout BY <1>0 DEF MarkInv, PayoutShape, HeldForPayout
    <3>4. HeldForPayout(held) /\ held.id = n /\ held.doc = doc
      BY <3>2, <3>3 DEF HeldForPayout, PayoutNothing
    <3>5. PayoutGo(a, "stamp", held) BY <3>1, <3>2
    <3>6. ~ PeriodTaken(doc, payout) BY <2>2 DEF PeriodTaken, Settled
    <3> QED BY <3>1, <3>4, <3>5, <3>6
  <2> QED BY <2>1, <2>2
<1>2. DOMAIN doc = DOMAIN NoPayout BY <1>0 DEF MarkInv, PayoutShape, HeldForPayout
<1>r. /\ DOMAIN payout' = 1..MaxPayouts
      /\ label = "stamp" => payout'[held.id] = doc
      /\ \A k \in 1..MaxPayouts : label # "stamp" \/ k # held.id => payout'[k] = payout[k]
  BY <1>1 DEF MarkInv, PayoutShape
<1>w. /\ payoutPc'[a] = label /\ payoutLoc'[a] = held
      /\ \A b \in Admins : b # a => payoutPc'[b] = payoutPc[b] /\ payoutLoc'[b] = payoutLoc[b]
  BY <1>1, PayoutWalk DEF MarkInv
<1>s. PayoutShape'
  <2>1. \A k \in 1..MaxPayouts : DOMAIN payout'[k] = DOMAIN NoPayout
    BY <1>r, <1>2 DEF MarkInv, PayoutShape
  <2> QED BY <2>1, <1>1, <1>r, <1>u, PayoutShapeKept DEF MarkInv, PayoutShape
<1>7. ASSUME ~restarted'
      PROVE  /\ PayoutRows(payout') /\ MarksMatch' /\ RowsApart'
             /\ \A b \in Admins : HeldPayout(payoutPc'[b], payoutLoc'[b], payout', sale')
  <2>0. /\ PayoutRows(payout) /\ MarksMatch /\ RowsApart
        /\ \A b \in Admins : HeldPayout(payoutPc[b], payoutLoc[b], payout, sale)
    BY <1>7, <1>u DEF MarkInv
  <2>1. \A n \in 1..MaxPayouts, b \in Admins : MarksFor(payoutPc[b], payoutLoc[b], n) => b # a
    BY <1>u DEF MarksFor
  <2>2. /\ OwnSales(doc) /\ doc.status = "pending"
        /\ label = "stamp" => Unmarked(doc.lines, sale)
    BY <1>0, <1>1, <1>u, <2>0 DEF HeldPayout
  <2>k. \A k \in 1..MaxPayouts : payout[k].status \in Live => payout'[k] = payout[k]
    BY <1>1, <1>r, PayoutFields DEF Live
  <2>3. PayoutRows(payout')
    <3>1. \A k \in 1..MaxPayouts : OwnSales(payout'[k]) BY <2>0, <2>2, <1>r DEF PayoutRows
    <3>2. OnePerPeriod(payout')
      <4>1. CASE label # "stamp" BY <4>1, <1>1, <2>0 DEF PayoutRows
      <4>2. CASE label = "stamp"
        <5> SUFFICES ASSUME NEW n \in 1..MaxPayouts, NEW k \in 1..MaxPayouts,
                            payout'[n].status \in Live, payout'[k].status \in Live,
                            payout'[n].merchant = payout'[k].merchant, payout'[n].end = payout'[k].end
                     PROVE  n = k
          BY DEF OnePerPeriod
        <5>1. ASSUME NEW j \in 1..MaxPayouts, j # held.id, payout'[j].status \in Live
              PROVE  ~ (payout'[j].merchant = doc.merchant /\ payout'[j].end = doc.end)
          BY <4>2, <5>1, <1>1, <1>r DEF PeriodTaken
        <5>2. CASE n # held.id /\ k # held.id
          BY <5>2, <2>0, <1>r DEF PayoutRows, OnePerPeriod
        <5>3. CASE n = held.id /\ k # held.id BY <4>2, <5>3, <5>1, <1>r
        <5>4. CASE n # held.id /\ k = held.id BY <4>2, <5>4, <5>1, <1>r
        <5> QED BY <5>2, <5>3, <5>4
      <4> QED BY <4>1, <4>2
    <3> QED BY <3>1, <3>2 DEF PayoutRows
  <2>4. MarksMatch'
    <3> SUFFICES ASSUME NEW n \in 1..MaxPayouts, NEW o \in Sales,
                        payout'[n].status \in Live, SaleLine(o) \in payout'[n].lines
                 PROVE  sale'[o].payout = n
                          \/ \E c \in Admins : MarksFor(payoutPc'[c], payoutLoc'[c], n)
      BY DEF MarksMatch, MarksFor, SaleLine
    <3>1. CASE label = "stamp" /\ n = held.id
      <4>1. MarksFor(payoutPc'[a], payoutLoc'[a], n) BY <3>1, <1>w DEF MarksFor
      <4> QED BY <4>1
    <3>2. CASE ~ (label = "stamp" /\ n = held.id)
      <4>1. payout'[n] = payout[n] BY <3>2, <1>r
      <4>2. sale[o].payout = n \/ \E b \in Admins : MarksFor(payoutPc[b], payoutLoc[b], n)
        BY <4>1, <2>0 DEF MarksMatch
      <4> QED BY <4>2, <2>1, <1>u, <1>w
    <3> QED BY <3>1, <3>2
  <2>5. RowsApart'
    <3>1. ASSUME NEW b \in Admins, b # a, payoutPc[b] = "stamp", label = "stamp"
          PROVE  payoutLoc[b].id # held.id
      <4>1. payout[payoutLoc[b].id].status = "pending" BY <3>1, <2>0 DEF HeldPayout
      <4> QED BY <4>1, <3>1, <1>1, PayoutFields
    <3> QED BY <3>1, <2>0, <1>w DEF RowsApart
  <2>6. ASSUME NEW b \in Admins, b # a
        PROVE  HeldPayout(payoutPc'[b], payoutLoc'[b], payout', sale')
    <3>1. payoutPc[b] \in {"idle", "create", "stamp"} BY <2>6, <1>u DEF OneCutoffAtATime
    <3>2. HeldPayout(payoutPc[b], payoutLoc[b], payout, sale) BY <2>0
    <3>3. HeldPayout(payoutPc[b], payoutLoc[b], payout', sale) BY <3>1, <3>2, <2>k, RecordersKept
    <3> QED BY <3>3, <2>6, <1>u, <1>w
  <2>7. HeldPayout(label, held, payout', sale)
    <3>1. CASE label = "idle" BY <3>1 DEF HeldPayout
    <3>2. CASE label = "stamp" BY <3>2, <2>2, <1>1, <1>r DEF HeldPayout
    <3> QED BY <3>1, <3>2, <1>1
  <2> QED BY <2>3, <2>4, <2>5, <2>6, <2>7, <1>u, <1>w
<1> QED BY <1>s, <1>7 DEF MarkInv

LEMMA StampMarks ==
    ASSUME MarkInv, OneCutoffAtATime, NEW a \in Admins, StampSettledOrders(a)
    PROVE  MarkInv'
<1> DEFINE paid == {line.ref : line \in {l \in payoutLoc[a].doc.lines : l.kind = "sale"}}
<1>0. PICK held, doc, id : held = payoutLoc[a] /\ doc = held.doc /\ id = held.id OBVIOUS
<1>1. /\ payoutPc[a] = "stamp"
      /\ sale' = [o \in Sales |-> IF o \in paid THEN [sale[o] EXCEPT !.payout = id] ELSE sale[o]]
      /\ PayoutGo(a, "idle", PayoutNothing)
      /\ UNCHANGED <<payout, restarted>>
  BY <1>0 DEF StampSettledOrders, PayoutDone
<1>2. \A o \in Sales : SaleLine(o) \in doc.lines => o \in paid
  <2>1. \A o : SaleLine(o).kind = "sale" /\ SaleLine(o).ref = o BY DEF SaleLine
  <2> QED BY <1>0, <2>1
<1>p. OwnSales(doc) => \A o \in Sales : o \in paid => SaleLine(o) \in doc.lines /\ MerchantOf[o] = doc.merchant
  <2>1. \A o : SaleLine(o).ref = o BY DEF SaleLine
  <2> QED BY <1>0, <2>1 DEF OwnSales
<1> HIDE DEF paid
<1>3. \A o \in Sales : /\ o \in paid => sale'[o].payout = id
                       /\ o \notin paid => sale'[o] = sale[o]
                       /\ DOMAIN sale'[o] = {"status", "delivered", "payout"}
  BY <1>1 DEF MarkInv, PayoutShape
<1>w. /\ payoutPc'[a] = "idle"
      /\ \A b \in Admins : b # a => payoutPc'[b] = payoutPc[b] /\ payoutLoc'[b] = payoutLoc[b]
  BY <1>1, PayoutWalk DEF MarkInv
<1>s. PayoutShape'
  <2>1. DOMAIN sale' = Sales BY <1>1
  <2> QED BY <2>1, <1>1, <1>3, PayoutFields, PayoutShapeKept DEF MarkInv, PayoutShape
<1>7. ASSUME ~restarted'
      PROVE  /\ PayoutRows(payout') /\ MarksMatch' /\ RowsApart'
             /\ \A b \in Admins : HeldPayout(payoutPc'[b], payoutLoc'[b], payout', sale')
  <2>0. /\ PayoutRows(payout) /\ MarksMatch /\ RowsApart
        /\ \A b \in Admins : HeldPayout(payoutPc[b], payoutLoc[b], payout, sale)
    BY <1>7, <1>1 DEF MarkInv
  <2>h. /\ id \in 1..MaxPayouts /\ payout[id] = doc /\ doc.status \in Live
        /\ Unmarked(doc.lines, sale) /\ OwnSales(doc)
    BY <1>0, <1>1, <2>0 DEF HeldPayout, PayoutRows, Live
  <2>p. \A o \in Sales : o \in paid => SaleLine(o) \in doc.lines /\ MerchantOf[o] = doc.merchant
    BY <2>h, <1>p
  <2>i. id # 0 BY <2>h
  <2>1. MarksMatch'
    <3> SUFFICES ASSUME NEW n \in 1..MaxPayouts, NEW o \in Sales,
                        payout'[n].status \in Live, SaleLine(o) \in payout'[n].lines
                 PROVE  sale'[o].payout = n
                          \/ \E c \in Admins : MarksFor(payoutPc'[c], payoutLoc'[c], n)
      BY DEF MarksMatch, MarksFor, SaleLine
    <3>1. CASE n = id BY <3>1, <2>h, <1>1, <1>2, <1>3
    <3>2. CASE n # id
      <4>1. sale[o].payout = n \/ \E b \in Admins : MarksFor(payoutPc[b], payoutLoc[b], n)
        BY <1>1, <2>0 DEF MarksMatch
      <4>2. CASE sale[o].payout = n
        <5>1. n # 0 OBVIOUS
        <5>2. o \notin paid BY <5>1, <4>2, <2>p, <2>h DEF Unmarked
        <5> QED BY <5>2, <4>2, <1>3
      <4>3. ASSUME NEW b \in Admins, MarksFor(payoutPc[b], payoutLoc[b], n)
            PROVE  MarksFor(payoutPc'[b], payoutLoc'[b], n)
        <5>1. b # a BY <4>3, <3>2, <1>0 DEF MarksFor
        <5> QED BY <5>1, <4>3, <1>w
      <4> QED BY <4>1, <4>2, <4>3
    <3> QED BY <3>1, <3>2
  <2>2. RowsApart' BY <2>0, <1>w DEF RowsApart
  <2>3. ASSUME NEW b \in Admins, b # a
        PROVE  HeldPayout(payoutPc'[b], payoutLoc'[b], payout', sale')
    <3>1. PICK label, other : label = payoutPc[b] /\ other = payoutLoc[b] OBVIOUS
    <3>2. /\ label \in {"idle", "create", "stamp"}
          /\ label # "idle" => other.doc.end = doc.end
      BY <3>1, <2>3, <1>0, <1>1 DEF OneCutoffAtATime
    <3>3. HeldPayout(label, other, payout, sale) BY <2>0, <3>1
    <3>4. ASSUME NEW o \in Sales, SaleLine(o) \in other.doc.lines, OwnSales(other.doc), o \in paid
          PROVE  other.doc.merchant = doc.merchant
      <4>1. SaleLine(o).kind = "sale" /\ \A p : SaleLine(o) = SaleLine(p) => o = p BY DEF SaleLine
      <4>2. MerchantOf[o] = other.doc.merchant BY <3>4, <4>1 DEF OwnSales
      <4> QED BY <4>2, <3>4, <2>p
    <3>5. ASSUME label = "create", ~PeriodTaken(other.doc, payout), Unmarked(other.doc.lines, sale)
          PROVE  Unmarked(other.doc.lines, sale')
      <4>1. OwnSales(other.doc) BY <3>3, <3>5 DEF HeldPayout
      <4>2. ~ (other.doc.merchant = doc.merchant) BY <3>2, <3>5, <2>h DEF PeriodTaken
      <4>3. \A o \in Sales : SaleLine(o) \in other.doc.lines => o \notin paid BY <3>4, <4>1, <4>2
      <4> QED BY <3>5, <4>3, <1>3 DEF Unmarked
    <3>6. ASSUME label = "stamp", Unmarked(other.doc.lines, sale)
          PROVE  Unmarked(other.doc.lines, sale')
      <4>1. other.id \in 1..MaxPayouts /\ payout[other.id] = other.doc /\ other.doc.status = "pending"
        BY <3>3, <3>6 DEF HeldPayout
      <4>2. other.id # id BY <3>1, <3>6, <2>3, <2>0, <1>0, <1>1 DEF RowsApart
      <4>3. OwnSales(other.doc) BY <4>1, <2>0 DEF PayoutRows
      <4>4. ~ (other.doc.merchant = doc.merchant)
        BY <3>2, <3>6, <4>1, <4>2, <2>h, <2>0 DEF PayoutRows, OnePerPeriod, Live
      <4>5. \A o \in Sales : SaleLine(o) \in other.doc.lines => o \notin paid BY <3>4, <4>3, <4>4
      <4> QED BY <3>6, <4>5, <1>3 DEF Unmarked
    <3>7. HeldPayout(label, other, payout, sale')
      BY <3>2, <3>3, <3>5, <3>6, RecordersKept
    <3> QED BY <3>7, <3>1, <2>3, <1>1, <1>w
  <2>4. HeldPayout("idle", payoutLoc'[a], payout', sale') BY DEF HeldPayout
  <2> QED BY <2>0, <2>1, <2>2, <2>3, <2>4, <1>1, <1>w
<1> QED BY <1>s, <1>7 DEF MarkInv

(* Whoever reports an outcome works alone.                                 *)
LEMMA OutcomeAlone ==
    ASSUME OneCutoffAtATime, NEW a \in Admins, payoutPc[a] \in {"unset", "finish"}
    PROVE  \A b \in Admins : b # a => payoutPc[b] = "idle"
BY DEF OneCutoffAtATime

LEMMA AloneKept ==
    ASSUME PayoutShape', NEW a \in Admins,
           \A b \in Admins : b # a => payoutPc'[b] = "idle",
           PayoutRows(payout'), MarksMatch', HeldPayout(payoutPc'[a], payoutLoc'[a], payout', sale')
    PROVE  MarkInv'
<1>1. RowsApart' BY DEF RowsApart
<1>2. \A b \in Admins : b # a => HeldPayout(payoutPc'[b], payoutLoc'[b], payout', sale')
  BY DEF HeldPayout
<1> QED BY <1>1, <1>2 DEF MarkInv

LEMMA ReadOutcomeMarks ==
    ASSUME MarkInv, OneCutoffAtATime', NEW a \in Admins, ReadPayout(a)
    PROVE  MarkInv'
<1>1. PICK n \in 1..MaxPayouts, outcome \in {"completed", "failed"} :
         /\ payout[n].status = "pending"
         /\ PayoutGo(a, IF outcome = "failed" THEN "unset" ELSE "finish",
                     [id |-> n, doc |-> [payout[n] EXCEPT !.status = outcome]])
  BY DEF ReadPayout
<1>2. PICK held : held = [id |-> n, doc |-> [payout[n] EXCEPT !.status = outcome]] OBVIOUS
<1>3. PICK label : label = IF outcome = "failed" THEN "unset" ELSE "finish" OBVIOUS
<1>4. HeldForPayout(held) /\ held.id = n /\ held.doc.status = outcome
  BY <1>2, PayoutFields DEF HeldForPayout, PayoutNothing, MarkInv, PayoutShape
<1>5. PayoutGo(a, label, held) BY <1>1, <1>2, <1>3
<1>u. UNCHANGED <<sale, payout, restarted>> /\ payoutPc[a] = "idle" BY DEF ReadPayout
<1>w. /\ payoutPc'[a] = label /\ payoutLoc'[a] = held
      /\ \A b \in Admins : b # a => payoutPc'[b] = payoutPc[b] /\ payoutLoc'[b] = payoutLoc[b]
  BY <1>5, PayoutWalk DEF MarkInv
<1>s. PayoutShape' BY <1>4, <1>5, <1>u, PayoutShapeKept DEF MarkInv, PayoutShape
<1>i. \A b \in Admins : b # a => payoutPc'[b] = "idle"
  BY <1>w, <1>3 DEF OneCutoffAtATime
<1>7. ASSUME ~restarted' PROVE MarkInv'
  <2>0. PayoutRows(payout) /\ MarksMatch BY <1>7, <1>u DEF MarkInv
  <2>1. \A k \in 1..MaxPayouts, b \in Admins : ~ MarksFor(payoutPc[b], payoutLoc[b], k)
    BY <1>i, <1>w, <1>u DEF MarksFor
  <2>2. MarksMatch' BY <2>0, <2>1, <1>u, MatchKept
  <2>3. HeldPayout(label, held, payout, sale) BY <1>1, <1>3, <1>4 DEF HeldPayout
  <2> QED BY <2>0, <2>2, <2>3, <1>i, <1>s, <1>u, <1>w, AloneKept
<1> QED BY <1>s, <1>7 DEF MarkInv

LEMMA UnsetMarks ==
    ASSUME MarkInv, OneCutoffAtATime, NEW a \in Admins, UnsetOrders(a)
    PROVE  MarkInv'
<1>0. PICK held : held = payoutLoc[a] OBVIOUS
<1>1. /\ payoutPc[a] = "unset"
      /\ sale' = [o \in Sales |-> IF sale[o].payout = held.id
                                  THEN [sale[o] EXCEPT !.payout = 0] ELSE sale[o]]
      /\ PayoutGo(a, "finish", held)
      /\ UNCHANGED <<payout, restarted>>
  BY <1>0 DEF UnsetOrders
<1>3. \A o \in Sales : /\ sale[o].payout = held.id => sale'[o].payout = 0
                       /\ sale[o].payout # held.id => sale'[o] = sale[o]
                       /\ DOMAIN sale'[o] = {"status", "delivered", "payout"}
  BY <1>1 DEF MarkInv, PayoutShape
<1>w. /\ payoutPc'[a] = "finish" /\ payoutLoc'[a] = held
      /\ \A b \in Admins : b # a => payoutPc'[b] = payoutPc[b]
  BY <1>1, PayoutWalk DEF MarkInv
<1>s. PayoutShape'
  <2>1. DOMAIN sale' = Sales /\ HeldForPayout(held) BY <1>0, <1>1 DEF MarkInv, PayoutShape
  <2> QED BY <2>1, <1>1, <1>3, PayoutShapeKept DEF MarkInv, PayoutShape
<1>i. \A b \in Admins : b # a => payoutPc[b] = "idle" BY <1>1, OutcomeAlone
<1>7. ASSUME ~restarted' PROVE MarkInv'
  <2>0. PayoutRows(payout) /\ MarksMatch /\ HeldPayout("unset", held, payout, sale)
    BY <1>0, <1>7, <1>1 DEF MarkInv
  <2>h. held.id \in 1..MaxPayouts /\ payout[held.id].status = "pending" /\ held.doc.status = "failed"
    BY <2>0 DEF HeldPayout
  <2>1. \A k \in 1..MaxPayouts, b \in Admins : ~ MarksFor(payoutPc[b], payoutLoc[b], k)
    BY <1>i, <1>1 DEF MarksFor
  <2>m. MarksFor(payoutPc'[a], payoutLoc'[a], held.id) BY <1>w, <2>h DEF MarksFor
  <2>3. MarksMatch'
    <3> SUFFICES ASSUME NEW n \in 1..MaxPayouts, NEW o \in Sales,
                        payout'[n].status \in Live, SaleLine(o) \in payout'[n].lines
                 PROVE  sale'[o].payout = n
                          \/ \E c \in Admins : MarksFor(payoutPc'[c], payoutLoc'[c], n)
      BY DEF MarksMatch, MarksFor, SaleLine
    <3>1. sale[o].payout = n BY <2>0, <2>1, <1>1 DEF MarksMatch
    <3> QED BY <3>1, <1>3, <2>m
  <2>4. Unmarked(payout[held.id].lines, sale')
    BY <2>0, <2>1, <2>h, <1>3 DEF MarksMatch, Live, Unmarked
  <2>5. HeldPayout("finish", held, payout', sale') BY <1>1, <2>h, <2>4 DEF HeldPayout
  <2>6. PayoutRows(payout') BY <2>0, <1>1
  <2>7. \A b \in Admins : b # a => payoutPc'[b] = "idle" BY <1>i, <1>w
  <2> QED BY <2>3, <2>5, <2>6, <2>7, <1>s, <1>w, AloneKept
<1> QED BY <1>s, <1>7 DEF MarkInv

LEMMA FinishMarks ==
    ASSUME MarkInv, OneCutoffAtATime, NEW a \in Admins, FinishPayout(a)
    PROVE  MarkInv'
<1>0. PICK held, status : held = payoutLoc[a] /\ status = held.doc.status OBVIOUS
<1>1. /\ payoutPc[a] = "finish"
      /\ payout' = [payout EXCEPT ![held.id].status = status]
      /\ PayoutGo(a, "idle", PayoutNothing)
      /\ UNCHANGED <<sale, restarted>>
  BY <1>0 DEF FinishPayout, PayoutDone
<1>r. /\ DOMAIN payout' = 1..MaxPayouts
      /\ \A n \in 1..MaxPayouts : /\ DOMAIN payout'[n] = DOMAIN NoPayout
                                  /\ n # held.id => payout'[n] = payout[n]
                                  /\ n = held.id => payout'[n].status = status
                                  /\ payout'[n].lines = payout[n].lines
                                  /\ payout'[n].merchant = payout[n].merchant
                                  /\ payout'[n].end = payout[n].end
  BY <1>1, PayoutFields DEF MarkInv, PayoutShape
<1>w. /\ payoutPc'[a] = "idle"
      /\ \A b \in Admins : b # a => payoutPc'[b] = payoutPc[b]
  BY <1>1, PayoutWalk DEF MarkInv
<1>s. PayoutShape' BY <1>1, <1>r, PayoutFields, PayoutShapeKept DEF MarkInv, PayoutShape
<1>i. \A b \in Admins : b # a => payoutPc[b] = "idle" BY <1>1, OutcomeAlone
<1>7. ASSUME ~restarted' PROVE MarkInv'
  <2>0. PayoutRows(payout) /\ MarksMatch /\ HeldPayout("finish", held, payout, sale)
    BY <1>0, <1>7, <1>1 DEF MarkInv
  <2>h. /\ held.id \in 1..MaxPayouts /\ payout[held.id].status = "pending"
        /\ status \in {"completed", "failed"}
    BY <1>0, <2>0 DEF HeldPayout
  <2>l. \A n \in 1..MaxPayouts : payout'[n].status \in Live => payout[n].status \in Live
    BY <2>h, <1>r DEF Live
  <2>1. PayoutRows(payout')
    <3>1. \A n \in 1..MaxPayouts : OwnSales(payout'[n]) BY <2>0, <1>r DEF PayoutRows, OwnSales
    <3>2. OnePerPeriod(payout') BY <2>0, <2>l, <1>r DEF PayoutRows, OnePerPeriod
    <3> QED BY <3>1, <3>2 DEF PayoutRows
  <2>m. \A k \in 1..MaxPayouts, b \in Admins :
           MarksFor(payoutPc[b], payoutLoc[b], k) => k = held.id /\ status = "failed"
    BY <1>i, <1>0, <1>1 DEF MarksFor
  <2>3. MarksMatch'
    <3> SUFFICES ASSUME NEW n \in 1..MaxPayouts, NEW o \in Sales,
                        payout'[n].status \in Live, SaleLine(o) \in payout'[n].lines
                 PROVE  sale'[o].payout = n
      BY DEF MarksMatch, MarksFor, SaleLine
    <3>1. payout[n].status \in Live /\ SaleLine(o) \in payout[n].lines BY <2>l, <1>r
    <3>2. \A b \in Admins : ~ MarksFor(payoutPc[b], payoutLoc[b], n) BY <2>m, <1>r DEF Live
    <3> QED BY <3>1, <3>2, <2>0, <1>1 DEF MarksMatch
  <2>5. HeldPayout("idle", payoutLoc'[a], payout', sale') BY DEF HeldPayout
  <2>7. \A b \in Admins : b # a => payoutPc'[b] = "idle" BY <1>i, <1>w
  <2> QED BY <2>1, <2>3, <2>5, <2>7, <1>s, <1>w, AloneKept
<1> QED BY <1>s, <1>7 DEF MarkInv

(* Everybody else leaves the marks, the payouts and the admins alone.      *)
LEMMA OthersMarks ==
    ASSUME MarkInv, UNCHANGED <<payout, restarted, payoutPc, payoutLoc>>,
           DOMAIN sale' = Sales,
           \A o \in Sales : /\ DOMAIN sale'[o] = {"status", "delivered", "payout"}
                            /\ sale'[o].payout = sale[o].payout
    PROVE  MarkInv'
<1>s. PayoutShape' BY DEF MarkInv, PayoutShape, HeldForPayout
<1>5. ASSUME ~restarted'
      PROVE  /\ PayoutRows(payout') /\ MarksMatch' /\ RowsApart'
             /\ \A b \in Admins : HeldPayout(payoutPc'[b], payoutLoc'[b], payout', sale')
  <2>0. /\ PayoutRows(payout) /\ MarksMatch /\ RowsApart
        /\ \A b \in Admins : HeldPayout(payoutPc[b], payoutLoc[b], payout, sale)
    BY <1>5 DEF MarkInv
  <2>1. MarksMatch' BY <2>0, MatchKept
  <2>2. RowsApart' BY <2>0 DEF RowsApart
  <2>3. \A lines : Unmarked(lines, sale) => Unmarked(lines, sale') BY DEF Unmarked
  <2>4. \A b \in Admins : HeldPayout(payoutPc[b], payoutLoc[b], payout, sale')
    BY <2>0, <2>3 DEF HeldPayout
  <2> QED BY <2>0, <2>1, <2>2, <2>4
<1> QED BY <1>s, <1>5 DEF MarkInv

LEMMA MarksInit == InitPayouts => MarkInv
<1> SUFFICES ASSUME InitPayouts PROVE MarkInv OBVIOUS
<1>1. PayoutShape
  <2>1. \A o \in Sales : DOMAIN sale[o] = {"status", "delivered", "payout"} BY DEF InitPayouts
  <2>2. \A n \in 1..MaxPayouts : payout[n] = NoPayout BY DEF InitPayouts
  <2>3. \A a \in Admins : payoutLoc[a] = PayoutNothing BY DEF InitPayouts
  <2>4. DOMAIN payout = 1..MaxPayouts /\ DOMAIN sale = Sales /\ DOMAIN payoutPc = Admins
        /\ DOMAIN payoutLoc = Admins
    BY DEF InitPayouts
  <2> QED BY <2>1, <2>2, <2>3, <2>4, PayoutFields DEF PayoutShape
<1>2. \A n \in 1..MaxPayouts : payout[n] = NoPayout BY DEF InitPayouts
<1>3. PayoutRows(payout) /\ MarksMatch
  BY <1>2, PayoutFields DEF PayoutRows, OnePerPeriod, OwnSales, MarksMatch, Live
<1>4. \A a \in Admins : payoutPc[a] = "idle" BY DEF InitPayouts
<1>5. RowsApart /\ \A a \in Admins : HeldPayout(payoutPc[a], payoutLoc[a], payout, sale)
  BY <1>4 DEF RowsApart, HeldPayout
<1> QED BY <1>1, <1>3, <1>5 DEF MarkInv

LEMMA MarksNext ==
    MarkInv /\ OneCutoffAtATime /\ OneCutoffAtATime' /\ [NextPayouts]_payoutVars => MarkInv'
<1> SUFFICES ASSUME MarkInv, OneCutoffAtATime, OneCutoffAtATime', [NextPayouts]_payoutVars
             PROVE  MarkInv'
  OBVIOUS
<1>1. ASSUME NEW a \in Admins, AdminStep(a) PROVE MarkInv'
  <2>1. CASE ProcessDies(a)
    <3>1. PayoutGo(a, "idle", PayoutNothing) /\ restarted' /\ UNCHANGED <<sale, payout>>
      BY <2>1 DEF ProcessDies, PayoutDone
    <3>2. PayoutShape' BY <3>1, PayoutFields, PayoutShapeKept DEF MarkInv, PayoutShape
    <3> QED BY <3>1, <3>2 DEF MarkInv
  <2> QED BY <1>1, <2>1, ReadMarks, CreateMarks, StampMarks, ReadOutcomeMarks, UnsetMarks,
             FinishMarks DEF AdminStep
<1>2. CASE DeliverSale
  <2>1. PICK o \in Sales : sale' = [sale EXCEPT ![o].status = "DELIVERED", ![o].delivered = today]
    BY <1>2 DEF DeliverSale
  <2>2. DOMAIN sale' = Sales /\ \A p \in Sales : /\ DOMAIN sale'[p] = {"status", "delivered", "payout"}
                                                 /\ sale'[p].payout = sale[p].payout
    BY <2>1 DEF MarkInv, PayoutShape
  <2> QED BY <1>2, <2>2, OthersMarks DEF DeliverSale
<1>3. CASE RefundSettles
  <2>1. DOMAIN sale' = Sales /\ \A p \in Sales : /\ DOMAIN sale'[p] = {"status", "delivered", "payout"}
                                                 /\ sale'[p].payout = sale[p].payout
    BY <1>3 DEF RefundSettles, MarkInv, PayoutShape
  <2> QED BY <1>3, <2>1, OthersMarks DEF RefundSettles
<1>4. CASE RecordAdjustment \/ PaymentLapses \/ NextDate \/ UNCHANGED payoutVars
  <2>1. UNCHANGED <<sale, payout, restarted, payoutPc, payoutLoc>>
    BY <1>4 DEF RecordAdjustment, PaymentLapses, NextDate, payoutVars
  <2> QED BY <2>1, OthersMarks DEF MarkInv, PayoutShape
<1> QED BY <1>1, <1>2, <1>3, <1>4 DEF NextPayouts

LEMMA MarksCount == ASSUME MarkInv, OneCutoffAtATime PROVE SalesCountedOnce
<1> SUFFICES ASSUME ~restarted, NEW n \in 1..MaxPayouts, NEW k \in 1..MaxPayouts,
                    payout[n].status \in Live, payout[k].status \in Live,
                    NEW line \in payout[n].lines \cap payout[k].lines, line.kind = "sale"
             PROVE  n = k
  BY DEF SalesCountedOnce
<1>0. /\ PayoutRows(payout) /\ MarksMatch
      /\ \A a \in Admins : HeldPayout(payoutPc[a], payoutLoc[a], payout, sale)
  BY DEF MarkInv
<1>1. PICK o \in Sales : line = SaleLine(o) /\ MerchantOf[o] = payout[n].merchant
  BY <1>0 DEF PayoutRows, OwnSales
<1>2. MerchantOf[o] = payout[k].merchant
  <2>1. \A p : SaleLine(o) = SaleLine(p) => o = p BY DEF SaleLine
  <2> QED BY <1>0, <1>1, <2>1 DEF PayoutRows, OwnSales
<1>3. \A j \in {n, k} : sale[o].payout = j \/ \E a \in Admins : MarksFor(payoutPc[a], payoutLoc[a], j)
  BY <1>0, <1>1 DEF MarksMatch
<1>4. ASSUME NEW j \in {n, k}, NEW a \in Admins, MarksFor(payoutPc[a], payoutLoc[a], j)
      PROVE  sale[o].payout = 0
  <2>1. HeldPayout(payoutPc[a], payoutLoc[a], payout, sale) BY <1>0
  <2>2. Unmarked(payout[j].lines, sale) BY <2>1, <1>4 DEF HeldPayout, MarksFor
  <2> QED BY <2>2, <1>1 DEF Unmarked
<1>5. ASSUME NEW a \in Admins, MarksFor(payoutPc[a], payoutLoc[a], n),
             NEW b \in Admins, MarksFor(payoutPc[b], payoutLoc[b], k), n # k
      PROVE  FALSE
  <2>1. a # b /\ payoutPc[a] # "idle" /\ payoutPc[b] # "idle" BY <1>5 DEF MarksFor
  <2>2. /\ payoutPc[a] = "stamp" /\ payoutPc[b] = "stamp"
        /\ payoutLoc[a].doc.end = payoutLoc[b].doc.end
    BY <2>1, <1>5 DEF OneCutoffAtATime, MarksFor
  <2>3. payout[n] = payoutLoc[a].doc /\ payout[k] = payoutLoc[b].doc
    BY <2>2, <1>0, <1>5 DEF HeldPayout, MarksFor
  <2> QED BY <2>2, <2>3, <1>0, <1>1, <1>2, <1>5 DEF PayoutRows, OnePerPeriod
<1>6. n # 0 /\ k # 0 OBVIOUS
<1> QED BY <1>3, <1>4, <1>5, <1>6

(* No sale is part of two live payouts, as long as no process died between *)
(* a payout's row and its marks: proved for any number of admins, sales,   *)
(* refunds and payouts, when requests that overlap all record payouts up   *)
(* to the same date, which the index of the rows keeps apart.              *)
THEOREM CountedCorrect == SpecPayouts /\ []OneCutoffAtATime => []SalesCountedOnce
<1>1. InitPayouts => MarkInv BY MarksInit
<1>2. MarkInv /\ OneCutoffAtATime /\ OneCutoffAtATime' /\ [NextPayouts]_payoutVars => MarkInv'
  BY MarksNext
<1>3. MarkInv /\ OneCutoffAtATime => SalesCountedOnce BY MarksCount
<1> QED BY <1>1, <1>2, <1>3, PTL DEF SpecPayouts

(* Largest elements, which the paid-through mark is made of.               *)
LEMMA MaxOfNats ==
    ASSUME NEW S, S # {}, NEW bound \in Nat, \A x \in S : x \in Nat /\ x <= bound
    PROVE  Max(S) \in S /\ \A y \in S : Max(S) >= y
<1> DEFINE D == {bound - x : x \in S}
<1>1. D \subseteq Nat /\ D # {} OBVIOUS
<1>2. PICK d \in D : \A e \in D : d <= e BY <1>1, LeastNat
<1>3. \A e \in D : \E x \in S : e = bound - x OBVIOUS
<1>4. \E x \in S : d = bound - x BY <1>2, <1>3
<1>5. PICK x \in S : d = bound - x BY <1>4
<1>6. \A y \in S : bound - y \in D OBVIOUS
<1> HIDE DEF D
<1>7. ASSUME NEW y \in S PROVE x >= y
  <2>1. bound - x <= bound - y BY <1>2, <1>5, <1>6
  <2>2. x \in Nat /\ y \in Nat OBVIOUS
  <2> QED BY <2>1, <2>2
<1> QED BY <1>5, <1>7 DEF Max

(* A refund of a delivered order, which a payout of its seller must list.  *)
Due(r, o) == /\ refunded[r] # NotRefunded /\ o \in refunded[r].of
             /\ IsDelivered(o) /\ sale[o].delivered <= refunded[r].at

RefundLine(r, o) == [kind |-> "refund", ref |-> r, order |-> o]

Paid(r, o) == \E n \in 1..MaxPayouts :
    payout[n].status = "completed" /\ RefundLine(r, o) \in payout[n].lines

(* A payout lists every refund due in its window.                          *)
Windowed(doc) == \A r \in Refunds, o \in Sales :
    /\ Due(r, o) /\ MerchantOf[o] = doc.merchant
    /\ refunded[r].at >= doc.start - HoldDays /\ refunded[r].at < doc.end - HoldDays
    => RefundLine(r, o) \in doc.lines

(* Every refund due before a date is paid.                                 *)
CoveredTo(m, date) == \A r \in Refunds, o \in Sales :
    Due(r, o) /\ MerchantOf[o] = m /\ refunded[r].at < date - HoldDays => Paid(r, o)

(* What holds of a payout that is not void.                                *)
DocSound(doc) ==
    /\ doc.start \in 0..today /\ doc.end \in 0..today
    /\ doc.status \in Live => Windowed(doc) /\ CoveredTo(doc.merchant, doc.start)
    /\ doc.status = "completed" => CoveredTo(doc.merchant, doc.end)

Dates ==
    /\ today \in 0..LastDate
    /\ DOMAIN refunded = Refunds
    /\ \A r \in Refunds : refunded[r] # NotRefunded => refunded[r].at \in 0..today
    /\ \A o \in Sales : IsDelivered(o) => sale[o].delivered \in 0..today

(* The rows are sound, and so is the one an admin is about to write; only  *)
(* a pending payout gets an outcome.                                       *)
ReachInv ==
    /\ PayoutShape /\ Dates
    /\ \A n \in 1..MaxPayouts : DocSound(payout[n])
    /\ \A a \in Admins :
          /\ payoutPc[a] = "create" => DocSound(payoutLoc[a].doc)
          /\ payoutPc[a] \in {"unset", "finish"} =>
               /\ payoutLoc[a].id \in 1..MaxPayouts
               /\ payout[payoutLoc[a].id].status = "pending"
               /\ payoutLoc[a].doc.status \in {"completed", "failed"}

(* No two admins write the outcome of one payout at a time.                *)
OutcomesApart == \A a, b \in Admins :
    a # b /\ {payoutPc[a], payoutPc[b]} \subseteq {"unset", "finish"} =>
        payoutLoc[a].id # payoutLoc[b].id

(* What a step must leave alone: no refund becomes due before today, and a *)
(* paid one stays paid.                                                    *)
DuesKept ==
    /\ today' \in 0..LastDate /\ today <= today'
    /\ \A r \in Refunds, o \in Sales : Due(r, o)' /\ refunded'[r].at < today =>
          Due(r, o) /\ refunded'[r].at = refunded[r].at
    /\ \A r \in Refunds, o \in Sales : Paid(r, o) => Paid(r, o)'

LEMMA DueAt ==
    ASSUME Dates, NEW r \in Refunds, NEW o \in Sales, Due(r, o)
    PROVE  refunded[r].at \in 0..today /\ sale[o].delivered \in 0..today
BY DEF Dates, Due

LEMMA CoverKept ==
    ASSUME Dates, Dates', DuesKept, NEW m, NEW date \in 0..today, CoveredTo(m, date)
    PROVE  CoveredTo(m, date)'
<1> SUFFICES ASSUME NEW r \in Refunds, NEW o \in Sales,
                    Due(r, o)', MerchantOf[o] = m, refunded'[r].at < date - HoldDays
             PROVE  Paid(r, o)'
  BY DEF CoveredTo
<1>1. refunded'[r].at < today
  BY PayoutAssumption DEF Dates, Due
<1>2. Due(r, o) /\ refunded'[r].at = refunded[r].at BY <1>1 DEF DuesKept
<1>3. Paid(r, o) BY <1>2 DEF CoveredTo
<1> QED BY <1>3 DEF DuesKept

LEMMA SoundKept ==
    ASSUME Dates, Dates', DuesKept, NEW doc, DocSound(doc)
    PROVE  DocSound(doc)'
<1>0. /\ doc.start \in 0..today /\ doc.end \in 0..today
      /\ doc.start \in 0..today' /\ doc.end \in 0..today'
  BY DEF DocSound, DuesKept, Dates
<1>1. ASSUME doc.status \in Live PROVE Windowed(doc)'
  <2> SUFFICES ASSUME NEW r \in Refunds, NEW o \in Sales,
                      Due(r, o)', MerchantOf[o] = doc.merchant,
                      refunded'[r].at >= doc.start - HoldDays, refunded'[r].at < doc.end - HoldDays
               PROVE  RefundLine(r, o) \in doc.lines
    BY DEF Windowed, RefundLine
  <2>1. refunded'[r].at < today BY <1>0, PayoutAssumption DEF Dates, Due
  <2>2. Due(r, o) /\ refunded'[r].at = refunded[r].at BY <2>1 DEF DuesKept
  <2> QED BY <1>1, <2>2 DEF DocSound, Windowed
<1>2. \A date \in 0..today : CoveredTo(doc.merchant, date) => CoveredTo(doc.merchant, date)'
  BY CoverKept
<1> QED BY <1>0, <1>1, <1>2 DEF DocSound

LEMMA SoundRow ==
    ASSUME NEW n, NEW k, k = payout'[n], DocSound(k)'
    PROVE  DocSound(payout[n])'
BY DEF DocSound, Windowed, CoveredTo, RefundLine, Due, Paid, IsDelivered

LEMMA SoundHeld ==
    ASSUME NEW a, NEW k, k = payoutLoc'[a].doc, DocSound(k)'
    PROVE  DocSound(payoutLoc[a].doc)'
BY DEF DocSound, Windowed, CoveredTo, RefundLine, Due, Paid, IsDelivered

(* Rows that a step leaves alone stay sound.                               *)
LEMMA RowsKept ==
    ASSUME ReachInv, Dates', DuesKept, NEW n \in 1..MaxPayouts, payout'[n] = payout[n]
    PROVE  DocSound(payout[n])'
<1>1. PICK k : k = payout[n] OBVIOUS
<1>2. DocSound(k) BY <1>1 DEF ReachInv
<1>3. DocSound(k)' BY <1>2, SoundKept DEF ReachInv
<1> QED BY <1>1, <1>3, SoundRow

(* The paid-through mark is a date that everything due is paid up to.      *)
LEMMA PaidThroughCovered ==
    ASSUME ReachInv, NEW m
    PROVE  PaidThrough(m) \in 0..today /\ CoveredTo(m, PaidThrough(m))
<1> DEFINE landed == {k \in 1..MaxPayouts : payout[k].merchant = m /\ payout[k].status = "completed"}
           ends   == {0} \cup {payout[n].end : n \in landed}
<1>1. today \in Nat BY DEF ReachInv, Dates
<1>2. \A x \in ends : x \in Nat /\ x <= today BY <1>1 DEF ReachInv, DocSound
<1>3. Max(ends) \in ends BY <1>1, <1>2, MaxOfNats
<1>4. PaidThrough(m) \in ends BY <1>3 DEF PaidThrough
<1>5. CASE PaidThrough(m) = 0
  <2>1. CoveredTo(m, 0)
    <3> SUFFICES ASSUME NEW r \in Refunds, NEW o \in Sales, Due(r, o), refunded[r].at < 0 - HoldDays
                 PROVE  FALSE
      BY DEF CoveredTo
    <3>1. refunded[r].at \in 0..today BY DueAt DEF ReachInv
    <3> QED BY <3>1, PayoutAssumption
  <2> QED BY <1>5, <1>1, <2>1
<1>6. CASE PaidThrough(m) # 0
  <2>1. PICK n \in landed : PaidThrough(m) = payout[n].end BY <1>4, <1>6
  <2>2. DocSound(payout[n]) BY DEF ReachInv
  <2> QED BY <2>1, <2>2 DEF DocSound
<1> QED BY <1>5, <1>6

(* A statement is sound.                                                   *)
LEMMA StatementSound ==
    ASSUME ReachInv, NEW m, NEW end \in 0..today, NEW doc,
           doc = [Statement(m, end) EXCEPT !.status = "pending"]
    PROVE  DocSound(doc)
<1>1. /\ doc.merchant = m /\ doc.start = PaidThrough(m) /\ doc.end = end /\ doc.status = "pending"
      /\ RefundLines(m, PaidThrough(m), end) \subseteq doc.lines
  BY StatementDoc
<1>2. Windowed(doc)
  <2> SUFFICES ASSUME NEW r \in Refunds, NEW o \in Sales, Due(r, o), MerchantOf[o] = m,
                      refunded[r].at >= doc.start - HoldDays, refunded[r].at < doc.end - HoldDays
               PROVE  RefundLine(r, o) \in doc.lines
    BY <1>1 DEF Windowed
  <2> DEFINE ro == <<r, o>>
  <2>1. ro \in Refunds \X Sales /\ ro[1] = r /\ ro[2] = o OBVIOUS
  <2>2. RefundLine(r, o) \in RefundLines(m, doc.start, doc.end)
    BY <2>1 DEF RefundLine, RefundLines, Due
  <2> QED BY <1>1, <2>2
<1>3. PaidThrough(m) \in 0..today /\ CoveredTo(m, PaidThrough(m)) BY PaidThroughCovered
<1> QED BY <1>1, <1>2, <1>3 DEF DocSound

(* A step that leaves dates, deliveries, refunds and payouts alone.        *)
LEMMA QuietDues ==
    ASSUME ReachInv, UNCHANGED <<sale, refunded, payout, today>>
    PROVE  Dates' /\ DuesKept
<1>1. Dates' BY DEF ReachInv, Dates, IsDelivered
<1>2. \A r \in Refunds, o \in Sales : /\ Due(r, o)' => Due(r, o) /\ refunded'[r].at = refunded[r].at
                                      /\ Paid(r, o) => Paid(r, o)'
  BY DEF Due, IsDelivered, Paid, RefundLine
<1>3. today' \in 0..LastDate /\ today <= today' BY DEF ReachInv, Dates
<1> QED BY <1>1, <1>2, <1>3 DEF DuesKept

(* Steps of the admin that only move marks.                                *)
LEMMA MarkDues ==
    ASSUME ReachInv, UNCHANGED <<refunded, payout, today>>,
           \A o \in Sales : sale'[o].delivered = sale[o].delivered
    PROVE  Dates' /\ DuesKept
<1>1. Dates' BY DEF ReachInv, Dates, IsDelivered
<1>2. \A r \in Refunds, o \in Sales : /\ Due(r, o)' => Due(r, o) /\ refunded'[r].at = refunded[r].at
                                      /\ Paid(r, o) => Paid(r, o)'
  BY DEF Due, IsDelivered, Paid, RefundLine
<1>3. today' \in 0..LastDate /\ today <= today' BY DEF ReachInv, Dates
<1> QED BY <1>1, <1>2, <1>3 DEF DuesKept

LEMMA DeliverDues ==
    ASSUME ReachInv, DeliverSale
    PROVE  Dates' /\ DuesKept /\ PayoutShape'
<1>1. PICK p \in Sales : sale' = [sale EXCEPT ![p].status = "DELIVERED", ![p].delivered = today]
  BY DEF DeliverSale
<1>2. /\ DOMAIN sale' = Sales
      /\ \A o \in Sales : /\ DOMAIN sale'[o] = {"status", "delivered", "payout"}
                          /\ o # p => sale'[o].delivered = sale[o].delivered
                          /\ o = p => sale'[o].delivered = today
  BY <1>1 DEF ReachInv, PayoutShape
<1>u. UNCHANGED <<refunded, payout, today, payoutPc, payoutLoc>> BY DEF DeliverSale
<1>t. today \in 0..LastDate /\ today \in 0..today BY DEF ReachInv, Dates
<1>3. Dates' BY <1>2, <1>u, <1>t DEF ReachInv, Dates, IsDelivered
<1>4. \A r \in Refunds, o \in Sales : Paid(r, o) => Paid(r, o)' BY <1>u DEF Paid, RefundLine
<1>5. ASSUME NEW r \in Refunds, NEW o \in Sales, Due(r, o)', refunded'[r].at < today
      PROVE  Due(r, o) /\ refunded'[r].at = refunded[r].at
  <2>1. refunded'[r] = refunded[r] /\ refunded[r] # NotRefunded /\ o \in refunded[r].of
        /\ sale'[o].delivered <= refunded[r].at
    BY <1>5, <1>u DEF Due
  <2>2. refunded[r].at \in 0..today BY <2>1 DEF ReachInv, Dates
  <2>3. o # p BY <2>1, <2>2, <1>2, <1>5, <1>t
  <2>4. IsDelivered(o) BY <1>5, <2>3, <1>2 DEF Due, IsDelivered
  <2> QED BY <2>1, <2>3, <2>4, <1>2 DEF Due
<1>6. DuesKept BY <1>4, <1>5, <1>u, <1>t DEF DuesKept
<1>7. PayoutShape' BY <1>2, <1>u DEF ReachInv, PayoutShape, HeldForPayout
<1> QED BY <1>3, <1>6, <1>7

LEMMA RefundDues ==
    ASSUME ReachInv, RefundSettles
    PROVE  Dates' /\ DuesKept /\ PayoutShape'
<1>e. PICK q \in Refunds : \E of, amount :
         refunded' = [refunded EXCEPT ![q] = [of |-> of, amount |-> amount, at |-> today]]
  BY DEF RefundSettles
<1>1. PICK of, amount :
         refunded' = [refunded EXCEPT ![q] = [of |-> of, amount |-> amount, at |-> today]]
  BY <1>e
<1>2. /\ DOMAIN sale' = Sales
      /\ \A o \in Sales : /\ DOMAIN sale'[o] = {"status", "delivered", "payout"}
                          /\ sale'[o].delivered = sale[o].delivered
  BY DEF RefundSettles, ReachInv, PayoutShape
<1>u. UNCHANGED <<payout, today, payoutPc, payoutLoc>> BY DEF RefundSettles
<1>t. today \in 0..LastDate /\ today \in 0..today BY DEF ReachInv, Dates
<1>r. /\ DOMAIN refunded' = Refunds
      /\ refunded'[q].at = today
      /\ \A r \in Refunds : r # q => refunded'[r] = refunded[r]
  BY <1>1 DEF ReachInv, Dates
<1>3. Dates' BY <1>2, <1>u, <1>t, <1>r DEF ReachInv, Dates, IsDelivered, NotRefunded
<1>4. \A r \in Refunds, o \in Sales : Paid(r, o) => Paid(r, o)' BY <1>u DEF Paid, RefundLine
<1>5. ASSUME NEW r \in Refunds, NEW o \in Sales, Due(r, o)', refunded'[r].at < today
      PROVE  Due(r, o) /\ refunded'[r].at = refunded[r].at
  <2>1. r # q BY <1>5, <1>r, <1>t
  <2> QED BY <2>1, <1>5, <1>r, <1>2 DEF Due, IsDelivered, NotRefunded
<1>6. DuesKept BY <1>4, <1>5, <1>u, <1>t DEF DuesKept
<1>7. PayoutShape' BY <1>2, <1>u DEF ReachInv, PayoutShape, HeldForPayout
<1> QED BY <1>3, <1>6, <1>7

LEMMA DayDues ==
    ASSUME ReachInv, NextDate
    PROVE  Dates' /\ DuesKept
<1>u. UNCHANGED <<sale, refunded, payout>> /\ today' = today + 1 /\ today < LastDate BY DEF NextDate
<1>t. today' \in 0..LastDate /\ today <= today' /\ 0..today \subseteq 0..today'
  BY <1>u, PayoutAssumption DEF ReachInv, Dates
<1>1. Dates' BY <1>u, <1>t DEF ReachInv, Dates, IsDelivered
<1>2. \A r \in Refunds, o \in Sales : /\ Due(r, o)' => Due(r, o) /\ refunded'[r].at = refunded[r].at
                                      /\ Paid(r, o) => Paid(r, o)'
  BY <1>u DEF Due, IsDelivered, Paid, RefundLine
<1> QED BY <1>1, <1>2, <1>t DEF DuesKept

(* Rows that nobody touches, and an admin who does not move.               *)
LEMMA ReachKept ==
    ASSUME ReachInv, Dates', DuesKept, PayoutShape', UNCHANGED <<payout, payoutPc, payoutLoc>>
    PROVE  ReachInv'
<1>1. \A n \in 1..MaxPayouts : DocSound(payout[n])' BY RowsKept
<1>2. ASSUME NEW a \in Admins, payoutPc[a] = "create" PROVE DocSound(payoutLoc[a].doc)'
  <2>1. PICK k : k = payoutLoc[a].doc OBVIOUS
  <2>2. DocSound(k) BY <1>2, <2>1 DEF ReachInv
  <2>3. DocSound(k)' BY <2>2, SoundKept DEF ReachInv
  <2>4. k = payoutLoc'[a].doc BY <2>1
  <2> QED BY <2>3, <2>4, SoundHeld
<1> QED BY <1>1, <1>2 DEF ReachInv

(* A step of one admin among others: what he holds next is sound, and the  *)
(* rows that others are about to settle are left alone.                    *)
LEMMA ReachMoves ==
    ASSUME ReachInv, Dates', DuesKept, PayoutShape', NEW a \in Admins,
           NEW label, NEW held, PayoutGo(a, label, held),
           \A n \in 1..MaxPayouts : DocSound(payout[n])',
           label = "create" => DocSound(payoutLoc[a].doc)',
           label \in {"unset", "finish"} =>
               /\ held.id \in 1..MaxPayouts
               /\ payout'[held.id].status = "pending"
               /\ held.doc.status \in {"completed", "failed"},
           \A b \in Admins : b # a /\ payoutPc[b] \in {"unset", "finish"} =>
               payout'[payoutLoc[b].id].status = "pending"
    PROVE  ReachInv'
<1>1. /\ payoutPc'[a] = label /\ payoutLoc'[a] = held
      /\ \A b \in Admins : b # a => payoutPc'[b] = payoutPc[b] /\ payoutLoc'[b] = payoutLoc[b]
  BY PayoutWalk DEF ReachInv
<1>2. ASSUME NEW b \in Admins, payoutPc'[b] = "create" PROVE DocSound(payoutLoc[b].doc)'
  <2>1. CASE b = a
    <3>1. payoutLoc'[b].doc = payoutLoc'[a].doc /\ label = "create" BY <2>1, <1>1, <1>2
    <3>2. PICK k : k = payoutLoc'[a].doc OBVIOUS
    <3>3. DocSound(k)'
      BY <3>1, <3>2 DEF DocSound, Windowed, CoveredTo, RefundLine, Due, Paid, IsDelivered
    <3>4. k = payoutLoc'[b].doc BY <3>1, <3>2
    <3> QED BY <3>3, <3>4, SoundHeld
  <2>2. CASE b # a
    <3>1. PICK k : k = payoutLoc[b].doc OBVIOUS
    <3>2. DocSound(k) BY <1>1, <1>2, <2>2, <3>1 DEF ReachInv
    <3>3. DocSound(k)' BY <3>2, SoundKept DEF ReachInv
    <3>4. k = payoutLoc'[b].doc BY <3>1, <1>1, <2>2
    <3> QED BY <3>3, <3>4, SoundHeld
  <2> QED BY <2>1, <2>2
<1>3. ASSUME NEW b \in Admins, payoutPc'[b] \in {"unset", "finish"}
      PROVE  /\ payoutLoc'[b].id \in 1..MaxPayouts
             /\ payout'[payoutLoc'[b].id].status = "pending"
             /\ payoutLoc'[b].doc.status \in {"completed", "failed"}
  <2>1. CASE b = a BY <1>1, <1>3, <2>1
  <2>2. CASE b # a BY <1>1, <1>3, <2>2 DEF ReachInv
  <2> QED BY <2>1, <2>2
<1> QED BY <1>2, <1>3 DEF ReachInv

LEMMA ReadReach ==
    ASSUME ReachInv, NEW a \in Admins, ReadStatement(a)
    PROVE  ReachInv'
<1>1. PICK m \in Merchants, end \in 0..today :
         PayoutGo(a, "create", [id |-> 0, doc |-> [Statement(m, end) EXCEPT !.status = "pending"]])
  BY DEF ReadStatement
<1>2. PICK doc : doc = [Statement(m, end) EXCEPT !.status = "pending"] OBVIOUS
<1>3. PICK held : held = [id |-> 0, doc |-> doc] OBVIOUS
<1>4. PayoutGo(a, "create", held) BY <1>1, <1>2, <1>3
<1>5. DOMAIN doc = DOMAIN NoPayout BY <1>2, StatementDoc
<1>6. HeldForPayout(held) /\ held.doc = doc BY <1>3, <1>5 DEF HeldForPayout, PayoutNothing
<1>u. UNCHANGED <<sale, refunded, payout, today>> BY DEF ReadStatement
<1>s. PayoutShape' BY <1>4, <1>6, <1>u, PayoutShapeKept DEF ReachInv, PayoutShape
<1>d. Dates' /\ DuesKept BY <1>u, QuietDues
<1>w. payoutLoc'[a] = held BY <1>4, PayoutWalk DEF ReachInv
<1>7. DocSound(doc) BY <1>2, StatementSound
<1>8. DocSound(doc)' BY <1>7, <1>d, SoundKept DEF ReachInv
<1>9. DocSound(payoutLoc[a].doc)' BY <1>6, <1>8, <1>w, SoundHeld
<1>r. \A n \in 1..MaxPayouts : DocSound(payout[n])' BY <1>d, <1>u, RowsKept
<1>o. \A b \in Admins : payoutPc[b] \in {"unset", "finish"} =>
         payout'[payoutLoc[b].id].status = "pending"
  BY <1>u DEF ReachInv
<1> QED BY <1>s, <1>d, <1>4, <1>9, <1>r, <1>o, ReachMoves

LEMMA CreateReach ==
    ASSUME ReachInv, NEW a \in Admins, CreatePayout(a)
    PROVE  ReachInv'
<1> DEFINE doc == payoutLoc[a].doc
<1>u. UNCHANGED <<sale, refunded, today>> /\ payoutPc[a] = "create" BY DEF CreatePayout
<1>c. CASE PayoutDone(a) /\ UNCHANGED payout
  <2>1. PayoutGo(a, "idle", PayoutNothing) BY <1>c DEF PayoutDone
  <2>o. \A b \in Admins : payoutPc[b] \in {"unset", "finish"} =>
           payout'[payoutLoc[b].id].status = "pending"
    BY <1>c DEF ReachInv
  <2>s. PayoutShape' BY <2>1, <1>u, <1>c, PayoutFields, PayoutShapeKept DEF ReachInv, PayoutShape
  <2>d. Dates' /\ DuesKept BY <1>u, <1>c, QuietDues
  <2>r. \A n \in 1..MaxPayouts : DocSound(payout[n])' BY <2>d, <1>c, RowsKept
  <2> QED BY <2>1, <2>s, <2>d, <2>r, <2>o, ReachMoves
<1>d. CASE \E n \in 1..MaxPayouts :
             /\ payout[n] = NoPayout
             /\ payout' = [payout EXCEPT ![n] = doc]
             /\ PayoutGo(a, "stamp", [id |-> n, doc |-> doc])
  <2>1. PICK n \in 1..MaxPayouts :
             /\ payout[n] = NoPayout
             /\ payout' = [payout EXCEPT ![n] = doc]
             /\ PayoutGo(a, "stamp", [id |-> n, doc |-> doc])
    BY <1>d
  <2>2. PICK k : k = doc OBVIOUS
  <2>3. PICK held : held = [id |-> n, doc |-> k] OBVIOUS
  <2>4. DOMAIN k = DOMAIN NoPayout BY <2>2 DEF ReachInv, PayoutShape, HeldForPayout
  <2>5. HeldForPayout(held) BY <2>3, <2>4 DEF HeldForPayout, PayoutNothing
  <2>6. PayoutGo(a, "stamp", held) BY <2>1, <2>2, <2>3
  <2>r. /\ DOMAIN payout' = 1..MaxPayouts
        /\ payout'[n] = k
        /\ \A j \in 1..MaxPayouts : j # n => payout'[j] = payout[j]
    BY <2>1, <2>2 DEF ReachInv, PayoutShape
  <2>s. PayoutShape'
    <3>1. \A j \in 1..MaxPayouts : DOMAIN payout'[j] = DOMAIN NoPayout
      BY <2>r, <2>4 DEF ReachInv, PayoutShape
    <3> QED BY <3>1, <2>5, <2>6, <2>r, <1>u, PayoutShapeKept DEF ReachInv, PayoutShape
  <2>d. Dates' /\ DuesKept
    <3>1. Dates' BY <1>u DEF ReachInv, Dates, IsDelivered
    <3>2. \A r \in Refunds, o \in Sales : Due(r, o)' => Due(r, o) /\ refunded'[r].at = refunded[r].at
      BY <1>u DEF Due, IsDelivered
    <3>3. ASSUME NEW r \in Refunds, NEW o \in Sales, Paid(r, o) PROVE Paid(r, o)'
      <4>1. PICK j \in 1..MaxPayouts :
               payout[j].status = "completed" /\ RefundLine(r, o) \in payout[j].lines
        BY <3>3 DEF Paid
      <4>2. j # n BY <4>1, <2>1, PayoutFields
      <4> QED BY <4>1, <4>2, <2>r DEF Paid, RefundLine
    <3>4. today' \in 0..LastDate /\ today <= today' BY <1>u DEF ReachInv, Dates
    <3> QED BY <3>1, <3>2, <3>3, <3>4 DEF DuesKept
  <2>7. DocSound(k)
    BY <1>u, <2>2 DEF ReachInv
  <2>8. DocSound(k)' BY <2>7, <2>d, SoundKept DEF ReachInv
  <2>9. \A j \in 1..MaxPayouts : DocSound(payout[j])'
    <3> SUFFICES ASSUME NEW j \in 1..MaxPayouts PROVE DocSound(payout[j])' OBVIOUS
    <3>1. CASE j = n BY <3>1, <2>r, <2>8, SoundRow
    <3>2. CASE j # n BY <3>2, <2>r, <2>d, RowsKept
    <3> QED BY <3>1, <3>2
  <2>o. ASSUME NEW b \in Admins, payoutPc[b] \in {"unset", "finish"}
        PROVE  payout'[payoutLoc[b].id].status = "pending"
    <3>1. payoutLoc[b].id \in 1..MaxPayouts /\ payout[payoutLoc[b].id].status = "pending"
      BY <2>o DEF ReachInv
    <3>2. payoutLoc[b].id # n BY <3>1, <2>1, PayoutFields
    <3> QED BY <3>1, <3>2, <2>r
  <2> QED BY <2>6, <2>s, <2>d, <2>9, <2>o, ReachMoves
<1> QED BY <1>c, <1>d DEF CreatePayout

LEMMA StampReach ==
    ASSUME ReachInv, NEW a \in Admins, StampSettledOrders(a) \/ UnsetOrders(a)
    PROVE  ReachInv'
<1>u. UNCHANGED <<refunded, payout, today>> BY DEF StampSettledOrders, UnsetOrders
<1>1. /\ DOMAIN sale' = Sales
      /\ \A o \in Sales : /\ DOMAIN sale'[o] = {"status", "delivered", "payout"}
                          /\ sale'[o].delivered = sale[o].delivered
  BY DEF StampSettledOrders, UnsetOrders, ReachInv, PayoutShape
<1>2. PICK label, held : /\ HeldForPayout(held) /\ PayoutGo(a, label, held)
                         /\ \/ label = "idle"
                            \/ label = "finish" /\ held = payoutLoc[a] /\ payoutPc[a] = "unset"
  <2>1. CASE StampSettledOrders(a)
    BY <2>1, PayoutFields DEF StampSettledOrders, PayoutDone
  <2>2. CASE UnsetOrders(a)
    BY <2>2 DEF UnsetOrders, ReachInv, PayoutShape
  <2> QED BY <2>1, <2>2
<1>s. PayoutShape' BY <1>1, <1>2, <1>u, PayoutShapeKept DEF ReachInv, PayoutShape
<1>d. Dates' /\ DuesKept BY <1>1, <1>u, MarkDues
<1>r. \A n \in 1..MaxPayouts : DocSound(payout[n])' BY <1>d, <1>u, RowsKept
<1>o. \A b \in Admins : payoutPc[b] \in {"unset", "finish"} =>
         payout'[payoutLoc[b].id].status = "pending"
  BY <1>u DEF ReachInv
<1>3. label \in {"unset", "finish"} =>
         /\ held.id \in 1..MaxPayouts
         /\ payout'[held.id].status = "pending"
         /\ held.doc.status \in {"completed", "failed"}
  BY <1>2, <1>u DEF ReachInv
<1>4. label # "create" BY <1>2
<1> QED BY <1>2, <1>3, <1>4, <1>s, <1>d, <1>r, <1>o, ReachMoves

LEMMA OutcomeReach ==
    ASSUME ReachInv, NEW a \in Admins, ReadPayout(a)
    PROVE  ReachInv'
<1>1. PICK n \in 1..MaxPayouts, outcome \in {"completed", "failed"} :
         /\ payout[n].status = "pending"
         /\ PayoutGo(a, IF outcome = "failed" THEN "unset" ELSE "finish",
                     [id |-> n, doc |-> [payout[n] EXCEPT !.status = outcome]])
  BY DEF ReadPayout
<1>2. PICK held : held = [id |-> n, doc |-> [payout[n] EXCEPT !.status = outcome]] OBVIOUS
<1>3. PICK label : label = IF outcome = "failed" THEN "unset" ELSE "finish" OBVIOUS
<1>4. HeldForPayout(held) /\ held.id = n /\ held.doc.status = outcome
  BY <1>2, PayoutFields DEF HeldForPayout, PayoutNothing, ReachInv, PayoutShape
<1>5. PayoutGo(a, label, held) BY <1>1, <1>2, <1>3
<1>u. UNCHANGED <<sale, refunded, payout, today>> BY DEF ReadPayout
<1>s. PayoutShape' BY <1>4, <1>5, <1>u, PayoutShapeKept DEF ReachInv, PayoutShape
<1>d. Dates' /\ DuesKept BY <1>u, QuietDues
<1>r. \A k \in 1..MaxPayouts : DocSound(payout[k])' BY <1>d, <1>u, RowsKept
<1>6. label # "create" BY <1>3
<1>o. \A b \in Admins : payoutPc[b] \in {"unset", "finish"} =>
         payout'[payoutLoc[b].id].status = "pending"
  BY <1>u DEF ReachInv
<1>7. /\ held.id \in 1..MaxPayouts /\ payout'[held.id].status = "pending"
      /\ held.doc.status \in {"completed", "failed"}
  BY <1>1, <1>4, <1>u
<1> QED BY <1>5, <1>6, <1>7, <1>s, <1>d, <1>r, <1>o, ReachMoves

LEMMA FinishReach ==
    ASSUME ReachInv, OutcomesApart, NEW a \in Admins, FinishPayout(a)
    PROVE  ReachInv'
<1> DEFINE id == payoutLoc[a].id
           status == payoutLoc[a].doc.status
<1>1. /\ payoutPc[a] = "finish"
      /\ payout' = [payout EXCEPT ![id].status = status]
      /\ PayoutGo(a, "idle", PayoutNothing)
      /\ UNCHANGED <<sale, refunded, today>>
  BY DEF FinishPayout, PayoutDone
<1>2. id \in 1..MaxPayouts /\ payout[id].status = "pending" /\ status \in {"completed", "failed"}
  BY <1>1 DEF ReachInv
<1>r. /\ DOMAIN payout' = 1..MaxPayouts
      /\ \A n \in 1..MaxPayouts : /\ DOMAIN payout'[n] = DOMAIN NoPayout
                                  /\ n # id => payout'[n] = payout[n]
                                  /\ n = id => payout'[n].status = status
                                  /\ payout'[n].lines = payout[n].lines
                                  /\ payout'[n].merchant = payout[n].merchant
                                  /\ payout'[n].start = payout[n].start
                                  /\ payout'[n].end = payout[n].end
  BY <1>1, PayoutFields DEF ReachInv, PayoutShape
<1>o. ASSUME NEW b \in Admins, b # a, payoutPc[b] \in {"unset", "finish"}
      PROVE  payout'[payoutLoc[b].id].status = "pending"
  <2>1. payoutLoc[b].id \in 1..MaxPayouts /\ payout[payoutLoc[b].id].status = "pending"
    BY <1>o DEF ReachInv
  <2>2. payoutLoc[b].id # id BY <1>1, <1>o DEF OutcomesApart
  <2> QED BY <2>1, <2>2, <1>r
<1>s. PayoutShape' BY <1>1, <1>r, PayoutFields, PayoutShapeKept DEF ReachInv, PayoutShape
<1>d. Dates' /\ DuesKept
  <2>1. Dates' BY <1>1 DEF ReachInv, Dates, IsDelivered
  <2>2. \A r \in Refunds, o \in Sales : Due(r, o)' => Due(r, o) /\ refunded'[r].at = refunded[r].at
    BY <1>1 DEF Due, IsDelivered
  <2>3. ASSUME NEW r \in Refunds, NEW o \in Sales, Paid(r, o) PROVE Paid(r, o)'
    <3>1. PICK j \in 1..MaxPayouts :
             payout[j].status = "completed" /\ RefundLine(r, o) \in payout[j].lines
      BY <2>3 DEF Paid
    <3>2. j # id BY <3>1, <1>2
    <3> QED BY <3>1, <3>2, <1>r DEF Paid, RefundLine
  <2>4. today' \in 0..LastDate /\ today <= today' BY <1>1 DEF ReachInv, Dates
  <2> QED BY <2>1, <2>2, <2>3, <2>4 DEF DuesKept
<1>3. PICK n \in 1..MaxPayouts : n = id BY <1>2
<1>4. PICK old : old = payout[n] OBVIOUS
<1>5. PICK new : new = payout'[n] OBVIOUS
<1>6. /\ new.status = status /\ new.lines = old.lines /\ new.merchant = old.merchant
      /\ new.start = old.start /\ new.end = old.end
      /\ old.status = "pending"
  BY <1>2, <1>3, <1>4, <1>5, <1>r
<1>7. DocSound(old)' /\ DocSound(old)
  <2>1. DocSound(old) BY <1>4 DEF ReachInv
  <2> QED BY <2>1, <1>d, SoundKept DEF ReachInv
<1>8. Windowed(old)' /\ CoveredTo(old.merchant, old.start)'
  BY <1>6, <1>7 DEF DocSound, Live
<1>9. Windowed(new)' /\ CoveredTo(new.merchant, new.start)'
  <2>1. Windowed(new)' BY <1>6, <1>8 DEF Windowed, RefundLine
  <2> QED BY <1>6, <1>8, <2>1
<1>10. ASSUME status = "completed" PROVE CoveredTo(new.merchant, new.end)'
  <2> SUFFICES ASSUME NEW r \in Refunds, NEW o \in Sales,
                      Due(r, o)', MerchantOf[o] = new.merchant, refunded'[r].at < new.end - HoldDays
               PROVE  Paid(r, o)'
    BY DEF CoveredTo
  <2>0. refunded'[r].at \in Int /\ new.start \in Int /\ new.end \in Int /\ HoldDays \in Int
    BY <1>d, <1>6, <1>7, PayoutAssumption DEF Dates, Due, DocSound
  <2>1. CASE refunded'[r].at < new.start - HoldDays BY <2>1, <1>9 DEF CoveredTo
  <2>2. CASE refunded'[r].at >= new.start - HoldDays
    <3>1. RefundLine(r, o) \in new.lines BY <2>2, <1>9 DEF Windowed, RefundLine
    <3>2. new.status = "completed" BY <1>6, <1>10
    <3> QED BY <3>1, <3>2, <1>5 DEF Paid, RefundLine
  <2> QED BY <2>0, <2>1, <2>2
<1>11. new.start \in 0..today' /\ new.end \in 0..today' BY <1>6, <1>7 DEF DocSound
<1>12. DocSound(new)' BY <1>6, <1>9, <1>10, <1>11 DEF DocSound
<1>13. \A k \in 1..MaxPayouts : DocSound(payout[k])'
  <2> SUFFICES ASSUME NEW k \in 1..MaxPayouts PROVE DocSound(payout[k])' OBVIOUS
  <2>1. CASE k = n BY <2>1, <1>5, <1>12, SoundRow
  <2>2. CASE k # n BY <2>2, <1>3, <1>r, <1>d, RowsKept
  <2> QED BY <2>1, <2>2
<1> QED BY <1>1, <1>s, <1>d, <1>13, <1>o, ReachMoves

(* No refund of a delivered order is passed over by the payouts: once the  *)
(* paid-through mark is beyond it, a completed payout lists it.  Proved    *)
(* for any number of admins and any history of payouts, however many       *)
(* bounced, overlapped, were recorded with different dates at once or were *)
(* cut short by a crash, as long as no two of them decide one payout.      *)
THEOREM ReachCorrect == SpecPayouts /\ []OutcomesApart => []RefundsReachAPayout
<1>1. InitPayouts => ReachInv
  <2> SUFFICES ASSUME InitPayouts PROVE ReachInv OBVIOUS
  <2>1. PayoutShape
    <3>1. \A o \in Sales : DOMAIN sale[o] = {"status", "delivered", "payout"} BY DEF InitPayouts
    <3>2. \A n \in 1..MaxPayouts : payout[n] = NoPayout BY DEF InitPayouts
    <3>3. \A a \in Admins : payoutLoc[a] = PayoutNothing BY DEF InitPayouts
    <3>4. DOMAIN payout = 1..MaxPayouts /\ DOMAIN sale = Sales /\ DOMAIN payoutPc = Admins
          /\ DOMAIN payoutLoc = Admins
      BY DEF InitPayouts
    <3> QED BY <3>1, <3>2, <3>3, <3>4, PayoutFields DEF PayoutShape
  <2>2. Dates BY PayoutAssumption DEF InitPayouts, Dates, IsDelivered
  <2>3. \A n \in 1..MaxPayouts : DocSound(payout[n])
    <3> SUFFICES ASSUME NEW n \in 1..MaxPayouts PROVE DocSound(payout[n]) OBVIOUS
    <3>1. payout[n] = NoPayout /\ today = 0 BY DEF InitPayouts
    <3> QED BY <3>1 DEF DocSound, NoPayout, Live
  <2> QED BY <2>1, <2>2, <2>3 DEF ReachInv, InitPayouts
<1>2. ReachInv /\ OutcomesApart /\ [NextPayouts]_payoutVars => ReachInv'
  <2> SUFFICES ASSUME ReachInv, OutcomesApart, [NextPayouts]_payoutVars PROVE ReachInv' OBVIOUS
  <2>1. ASSUME NEW a \in Admins, AdminStep(a) PROVE ReachInv'
    <3>1. CASE ProcessDies(a)
      <4>1. PayoutGo(a, "idle", PayoutNothing) /\ UNCHANGED <<sale, refunded, payout, today>>
        BY <3>1 DEF ProcessDies, PayoutDone
      <4>2. PayoutShape' BY <4>1, PayoutFields, PayoutShapeKept DEF ReachInv, PayoutShape
      <4>3. Dates' /\ DuesKept BY <4>1, QuietDues
      <4>4. \A b \in Admins : payoutPc[b] \in {"unset", "finish"} =>
               payout'[payoutLoc[b].id].status = "pending"
        BY <4>1 DEF ReachInv
      <4>5. \A n \in 1..MaxPayouts : DocSound(payout[n])' BY <4>1, <4>3, RowsKept
      <4> QED BY <4>1, <4>2, <4>3, <4>4, <4>5, ReachMoves
    <3> QED BY <2>1, <3>1, ReadReach, CreateReach, StampReach, OutcomeReach, FinishReach
            DEF AdminStep
  <2>2. CASE DeliverSale
    <3>1. UNCHANGED <<payout, payoutPc, payoutLoc>> BY <2>2 DEF DeliverSale
    <3> QED BY <2>2, <3>1, DeliverDues, ReachKept
  <2>3. CASE RefundSettles
    <3>1. UNCHANGED <<payout, payoutPc, payoutLoc>> BY <2>3 DEF RefundSettles
    <3> QED BY <2>3, <3>1, RefundDues, ReachKept
  <2>4. CASE NextDate
    <3>1. UNCHANGED <<sale, payout, payoutPc, payoutLoc>> BY <2>4 DEF NextDate
    <3>2. PayoutShape' BY <3>1 DEF ReachInv, PayoutShape, HeldForPayout
    <3> QED BY <2>4, <3>1, <3>2, DayDues, ReachKept
  <2>5. CASE RecordAdjustment \/ PaymentLapses \/ UNCHANGED payoutVars
    <3>1. UNCHANGED <<sale, refunded, payout, today, payoutPc, payoutLoc>>
      BY <2>5 DEF RecordAdjustment, PaymentLapses, payoutVars
    <3>2. PayoutShape' BY <3>1 DEF ReachInv, PayoutShape, HeldForPayout
    <3>3. Dates' /\ DuesKept BY <3>1, QuietDues
    <3> QED BY <3>1, <3>2, <3>3, ReachKept
  <2> QED BY <2>1, <2>2, <2>3, <2>4, <2>5 DEF NextPayouts
<1>3. ReachInv => RefundsReachAPayout
  <2> SUFFICES ASSUME ReachInv, NEW r \in Refunds, NEW o \in Sales, Due(r, o),
                      refunded[r].at < PaidThrough(MerchantOf[o]) - HoldDays
               PROVE  Paid(r, o)
    BY DEF RefundsReachAPayout, Due, Paid, RefundLine
  <2>1. CoveredTo(MerchantOf[o], PaidThrough(MerchantOf[o])) BY PaidThroughCovered
  <2> QED BY <2>1 DEF CoveredTo
<1> QED BY <1>1, <1>2, <1>3, PTL DEF SpecPayouts

-------------------------------------------------------------------------------
(* What a refund hands back: the shares of its orders add up to it.        *)

(* Weights that are not all zero have a positive sum.                      *)
LEMMA PositiveSum ==
    ASSUME NEW w, NEW S, IsFiniteSet(S), \A i \in S : w[i] \in Nat, NEW p \in S, w[p] > 0
    PROVE  SumFunctionOnSet(w, S) \in Nat /\ SumFunctionOnSet(w, S) > 0
<1>1. \A i \in S : w[i] \in Int OBVIOUS
<1>2. SumFunctionOnSet(w, S) = w[p] + SumFunctionOnSet(w, S \ {p}) BY <1>1, SumPeel
<1>3. SumFunctionOnSet(w, S \ {p}) \in Nat
  <2> DEFINE t == S \ {p}
  <2>1. IsFiniteSet(t) BY FS_Subset
  <2>2. \A i \in t : w[i] \in Nat OBVIOUS
  <2> HIDE DEF t
  <2>3. SumFunctionOnSet(w, t) \in Nat BY <2>1, <2>2, SumNat
  <2> QED BY <2>3 DEF t
<1>4. w[p] \in Nat OBVIOUS
<1> QED BY <1>2, <1>3, <1>4

(* What splitProRata computes, once the weights have been chosen.          *)
Splits(total, S, w, sum, part, frac, left, ahead, share) ==
    /\ total \in Nat /\ S \subseteq Nat /\ IsFiniteSet(S) /\ \A i \in S : w[i] \in Nat
    /\ sum = SumFunctionOnSet(w, S) /\ sum \in Nat /\ sum > 0
    /\ \A i \in S : part[i] = (total * w[i]) \div sum /\ frac[i] = (total * w[i]) % sum
    /\ left = total - SumFunctionOnSet(part, S)
    /\ \A i \in S : ahead[i] \subseteq S
    /\ \A i, j \in S : i \in ahead[j] <=> frac[i] > frac[j] \/ (frac[i] = frac[j] /\ i < j)
    /\ \A i \in S : share[i] = part[i] + IF Cardinality(ahead[i]) < left THEN 1 ELSE 0

Proportional(total, S, w, sum, share) ==
    \A i \in S : /\ 0 - sum < share[i] * sum - total * w[i]
                 /\ share[i] * sum - total * w[i] < sum

LEMMA SharesOfWeights ==
    ASSUME NEW total, NEW S, NEW w, NEW sum, NEW part, NEW frac, NEW left, NEW ahead, NEW share,
           Splits(total, S, w, sum, part, frac, left, ahead, share)
    PROVE  SumFunctionOnSet(share, S) = total /\ Proportional(total, S, w, sum, share)
<1>0. total \in Nat /\ sum \in Nat /\ sum > 0 /\ \A i \in S : w[i] \in Nat BY DEF Splits
<1>1. \A i \in S : /\ part[i] \in Nat /\ frac[i] \in Nat /\ frac[i] < sum
                   /\ total * w[i] = sum * part[i] + frac[i]
  <2> SUFFICES ASSUME NEW i \in S
               PROVE  /\ part[i] \in Nat /\ frac[i] \in Nat /\ frac[i] < sum
                      /\ total * w[i] = sum * part[i] + frac[i]
    OBVIOUS
  <2>0. w[i] \in Nat BY <1>0
  <2>1. PICK x : x = total * w[i] OBVIOUS
  <2>2. x \in Nat BY <1>0, <2>0, <2>1
  <2>3. part[i] = (total * w[i]) \div sum /\ frac[i] = (total * w[i]) % sum BY DEF Splits
  <2>4. part[i] = x \div sum /\ frac[i] = x % sum BY ONLY <2>1, <2>3
  <2>5. /\ x \div sum \in Nat /\ x % sum \in Nat /\ x % sum < sum
        /\ x = sum * (x \div sum) + (x % sum)
    BY <1>0, <2>2, DivisionFacts
  <2> QED BY ONLY <2>1, <2>4, <2>5
<1>2. Ranking(S, ahead)
  <2>1. \A i, j \in S : i \in ahead[j] <=> frac[i] > frac[j] \/ (frac[i] = frac[j] /\ i < j)
    BY DEF Splits
  <2>2. \A i \in S : ahead[i] \subseteq S BY DEF Splits
  <2>i. \A i \in S : i \in Nat /\ frac[i] \in Nat BY <1>1 DEF Splits
  <2>3. \A i \in S : i \notin ahead[i] BY <2>1, <2>i
  <2>4. \A i, j \in S : i = j \/ i \in ahead[j] \/ j \in ahead[i]
    <3> SUFFICES ASSUME NEW i \in S, NEW j \in S PROVE i = j \/ i \in ahead[j] \/ j \in ahead[i]
      OBVIOUS
    <3>1. i \in Nat /\ j \in Nat /\ frac[i] \in Nat /\ frac[j] \in Nat BY <2>i
    <3> QED BY <2>1, <3>1
  <2>5. \A i, j, k \in S : i \in ahead[j] /\ j \in ahead[k] => i \in ahead[k]
    <3> SUFFICES ASSUME NEW i \in S, NEW j \in S, NEW k \in S, i \in ahead[j], j \in ahead[k]
                 PROVE  i \in ahead[k]
      OBVIOUS
    <3>1. /\ i \in Nat /\ j \in Nat /\ k \in Nat
          /\ frac[i] \in Nat /\ frac[j] \in Nat /\ frac[k] \in Nat
      BY <2>i
    <3> QED BY <2>1, <3>1
  <2> QED BY <2>2, <2>3, <2>4, <2>5 DEF Ranking
<1>3. \A i, j \in S : frac[j] > frac[i] => j \in ahead[i] BY DEF Splits
<1>4. \A i \in S : share[i] = part[i] + IF Cardinality(ahead[i]) < left THEN 1 ELSE 0 BY DEF Splits
<1>5. left = total - SumFunctionOnSet(part, S) BY DEF Splits
<1>6. sum = SumFunctionOnSet(w, S) /\ IsFiniteSet(S) BY DEF Splits
<1>7. /\ SumFunctionOnSet(share, S) = total
      /\ \A i \in S : /\ 0 - sum < share[i] * sum - total * w[i]
                      /\ share[i] * sum - total * w[i] < sum
  BY ONLY <1>0, <1>1, <1>2, <1>3, <1>4, <1>5, <1>6, LargestRemainder
<1> QED BY <1>7 DEF Proportional

LEMMA SplitAddsUp ==
    ASSUME NEW total \in Nat, NEW S, S \subseteq Nat, IsFiniteSet(S), S # {},
           NEW weight \in [S -> Nat], NEW worth, worth = SumFunctionOnSet(weight, S),
           NEW share, share = SplitProRata(total, weight)
    PROVE  /\ SumFunction(share) = total
           /\ worth > 0 => Proportional(total, S, weight, worth, share)
<1> DEFINE flat  == \A i \in S : weight[i] = 0
           w     == [i \in S |-> IF flat THEN 1 ELSE weight[i]]
           sum   == SumFunction(w)
           part  == [i \in S |-> (total * w[i]) \div sum]
           frac  == [i \in S |-> (total * w[i]) % sum]
           left  == total - SumFunction(part)
           ahead == [i \in S |-> {j \in S : frac[j] > frac[i] \/ (frac[j] = frac[i] /\ j < i)}]
<1>1. share = [i \in S |-> part[i] + IF Cardinality(ahead[i]) < left THEN 1 ELSE 0]
  <2>1. DOMAIN weight = S OBVIOUS
  <2> QED BY <2>1 DEF SplitProRata
<1>2. /\ DOMAIN w = S /\ \A i \in S : w[i] \in Nat
      /\ \E p \in S : w[p] > 0
  <2>1. CASE flat
    <3>1. w = [i \in S |-> 1] BY <2>1
    <3>2. PICK p \in S : TRUE OBVIOUS
    <3>3. DOMAIN w = S /\ \A i \in S : w[i] = 1 BY <3>1
    <3> HIDE DEF w
    <3> QED BY <3>2, <3>3
  <2>2. CASE ~ flat
    <3>1. w = weight BY <2>2
    <3>2. \E p \in S : weight[p] # 0 BY <2>2
    <3>3. PICK p \in S : weight[p] # 0 BY <3>2
    <3>4. weight[p] > 0 /\ \A i \in S : weight[i] \in Nat BY <3>3
    <3>5. DOMAIN weight = S OBVIOUS
    <3> HIDE DEF w
    <3> QED BY <3>1, <3>4, <3>5
  <2> QED BY <2>1, <2>2
<1>3. ~ flat => w = weight OBVIOUS
<1>4. DOMAIN part = S /\ DOMAIN share = S BY <1>1
<1>5. flat => worth = 0 BY SumZero
<1> HIDE DEF w
<1>6. sum = SumFunctionOnSet(w, S) BY <1>2, SumOfFunction
<1>7. sum \in Nat /\ sum > 0 BY <1>2, <1>6, PositiveSum
<1> HIDE DEF sum
<1>p. PICK c : c = part OBVIOUS
<1>q. PICK f : f = frac OBVIOUS
<1>8. left = total - SumFunctionOnSet(c, S) BY <1>4, <1>p, SumOfFunction
<1>r. PICK l : l = left OBVIOUS
<1>s. PICK g : g = ahead OBVIOUS
<1>a. c = [i \in S |-> (total * w[i]) \div sum] BY <1>p
<1>b. f = [i \in S |-> (total * w[i]) % sum] BY <1>q
<1>c. l = total - SumFunctionOnSet(c, S) BY <1>8, <1>r
<1>d. g = [i \in S |-> {j \in S : f[j] > f[i] \/ (f[j] = f[i] /\ j < i)}] BY <1>q, <1>s
<1>e. share = [i \in S |-> c[i] + IF Cardinality(g[i]) < l THEN 1 ELSE 0]
  BY <1>1, <1>p, <1>r, <1>s
<1>w. \A i \in S : w[i] \in Nat BY <1>2
<1> HIDE DEF part, frac, left, ahead, flat
<1>f. PICK n : n = sum OBVIOUS
<1>g. n = SumFunctionOnSet(w, S) /\ n \in Nat /\ n > 0 BY <1>6, <1>7, <1>f
<1>h. \A i \in S : c[i] = (total * w[i]) \div n /\ f[i] = (total * w[i]) % n
  BY <1>a, <1>b, <1>f
<1>i. \A i \in S : g[i] \subseteq S BY <1>d
<1>j. \A i, j \in S : i \in g[j] <=> f[i] > f[j] \/ (f[i] = f[j] /\ i < j) BY <1>d
<1>k. \A i \in S : share[i] = c[i] + IF Cardinality(g[i]) < l THEN 1 ELSE 0 BY <1>e
<1>m. Splits(total, S, w, n, c, f, l, g, share)
  BY ONLY total \in Nat, S \subseteq Nat, IsFiniteSet(S), <1>w, <1>g, <1>h, <1>c, <1>i, <1>j, <1>k
     DEF Splits
<1>10. SumFunctionOnSet(share, S) = total /\ Proportional(total, S, w, sum, share)
  BY <1>f, <1>m, SharesOfWeights
<1>11. SumFunction(share) = total BY <1>4, <1>10, SumOfFunction
<1>12. worth > 0 => sum = worth /\ w = weight BY <1>3, <1>5, <1>6
<1> QED BY <1>10, <1>11, <1>12

(* A refund is divided over some orders of the group.                      *)
SharesInv ==
    /\ DOMAIN refunded = Refunds
    /\ \A r \in Refunds : /\ refunded[r].amount \in Nat /\ refunded[r].of \subseteq Sales
                          /\ refunded[r] # NotRefunded => refunded[r].of # {}

LEMMA SharesInvSuffices == ASSUME SharesInv PROVE SharesAddUp
<1> SUFFICES ASSUME NEW r \in Refunds, refunded[r] # NotRefunded,
                    NEW S, S = refunded[r].of, NEW total, total = refunded[r].amount,
                    NEW worth, worth = SumFunctionOnSet(Price, S),
                    NEW share, share = SharesOf(r)
             PROVE  /\ SumFunction(share) = total
                    /\ worth > 0 => Proportional(total, S, Price, worth, share)
  <2>1. \A x \in Int : -x = 0 - x OBVIOUS
  <2>2. \A r \in Refunds : SumFunctionOnSet(Price, refunded[r].of) \in Int
    <3> SUFFICES ASSUME NEW r \in Refunds PROVE SumFunctionOnSet(Price, refunded[r].of) \in Int
      OBVIOUS
    <3>1. PICK S : S = refunded[r].of OBVIOUS
    <3>2. S \subseteq Sales BY <3>1 DEF SharesInv
    <3>3. IsFiniteSet(S) BY <3>2, FS_Subset, PayoutAssumption
    <3>4. \A o \in Sales : Price[o] \in Int BY PayoutAssumption
    <3>5. \A o \in S : Price[o] \in Int BY <3>2, <3>4
    <3> QED BY <3>1, <3>3, <3>5, SumInt
  <2> QED BY <2>1, <2>2 DEF SharesAddUp, Proportional
<1>1. /\ S \subseteq Sales /\ S # {} /\ total \in Nat
  BY DEF SharesInv
<1>2. S \subseteq Nat /\ IsFiniteSet(S) /\ \A o \in S : Price[o] \in Nat
  BY <1>1, FS_Subset, PayoutAssumption
<1> DEFINE weight == [o \in S |-> Price[o]]
<1>3. weight \in [S -> Nat] /\ \A o \in S : Price[o] = weight[o] BY <1>2
<1>4. share = SplitProRata(total, weight) BY DEF SharesOf
<1> HIDE DEF weight
<1>5. worth = SumFunctionOnSet(weight, S) BY <1>2, <1>3, SumAgree
<1>6. /\ SumFunction(share) = total
      /\ worth > 0 => Proportional(total, S, weight, worth, share)
  BY <1>1, <1>2, <1>3, <1>4, <1>5, SplitAddsUp
<1> QED BY <1>3, <1>6 DEF Proportional

LEMMA AmountsNat ==
    ASSUME SharesInv PROVE GroupPrice \in Nat /\ MovedBack \in Nat /\ (Sales = {} => GroupPrice = 0)
<1>1. GroupPrice \in Nat
  <2>1. IsFiniteSet(Sales) /\ \A o \in Sales : Price[o] \in Nat BY PayoutAssumption
  <2> QED BY <2>1, SumNat DEF GroupPrice
<1>2. MovedBack \in Nat
  <2> DEFINE f == [r \in Refunds |-> refunded[r].amount]
  <2>1. DOMAIN f = Refunds /\ \A r \in Refunds : f[r] \in Nat BY DEF SharesInv
  <2>2. IsFiniteSet(Refunds) BY PayoutAssumption
  <2>3. MovedBack = SumFunction(f) BY DEF MovedBack
  <2> HIDE DEF f
  <2>4. SumFunction(f) = SumFunctionOnSet(f, Refunds) BY <2>1, SumOfFunction
  <2> QED BY <2>1, <2>2, <2>3, <2>4, SumNat
<1> QED BY <1>1, <1>2, SumEmpty DEF GroupPrice

LEMMA SharesInvRefund ==
    ASSUME SharesInv, RefundSettles PROVE SharesInv'
<1>1. PICK r \in Refunds, of \in {Sales} \cup {{o} : o \in Sales}, isLine \in BOOLEAN :
         \E amount \in RefundableAmounts(of, isLine) :
            /\ isLine => Cardinality(of) = 1
            /\ amount > 0
            /\ refunded' = [refunded EXCEPT ![r] = [of |-> of, amount |-> amount, at |-> today]]
  BY DEF RefundSettles
<1>2. PICK amount \in RefundableAmounts(of, isLine) :
            /\ isLine => Cardinality(of) = 1
            /\ amount > 0
            /\ refunded' = [refunded EXCEPT ![r] = [of |-> of, amount |-> amount, at |-> today]]
  BY <1>1
<1>3. of \subseteq Sales OBVIOUS
<1>n. GroupPrice \in Nat /\ MovedBack \in Nat /\ (Sales = {} => GroupPrice = 0) BY AmountsNat
<1>4. amount \in Int
  <2>1. CASE isLine BY <2>1, PayoutAssumption DEF RefundableAmounts
  <2>2. CASE ~ isLine /\ of # Sales
    <3>1. \A o \in of : Price[o] \in Int BY <1>3, PayoutAssumption
    <3> QED BY <2>2, <3>1 DEF RefundableAmounts
  <2>3. CASE ~ isLine /\ of = Sales BY <1>n, <2>3 DEF RefundableAmounts
  <2> QED BY <2>1, <2>2, <2>3
<1>5. amount \in Nat BY <1>2, <1>4
<1>6. of # {}
  <2> SUFFICES ASSUME of = {} PROVE FALSE OBVIOUS
  <2>1. Sales = {} OBVIOUS
  <2>2. ~ isLine BY <1>2, FS_EmptySet
  <2>3. amount \in {GroupPrice, GroupPrice - MovedBack} BY <2>1, <2>2 DEF RefundableAmounts
  <2> QED BY <1>2, <1>n, <2>1, <2>3
<1> QED BY <1>2, <1>3, <1>5, <1>6 DEF SharesInv

(* The shares of every refund add up to it, to the piaster, and each is    *)
(* the exact proportion rounded up or down.                                *)
THEOREM SharesCorrect == SpecPayouts => []SharesAddUp
<1>1. InitPayouts => SharesInv BY DEF InitPayouts, SharesInv, NotRefunded
<1>2. SharesInv /\ [NextPayouts]_payoutVars => SharesInv'
  <2> SUFFICES ASSUME SharesInv, [NextPayouts]_payoutVars PROVE SharesInv' OBVIOUS
  <2>1. CASE RefundSettles BY <2>1, SharesInvRefund
  <2>2. CASE UNCHANGED refunded BY <2>2 DEF SharesInv
  <2>3. NextPayouts => RefundSettles \/ UNCHANGED refunded
    BY DEF NextPayouts, AdminStep, ReadStatement, CreatePayout, StampSettledOrders, ReadPayout,
           UnsetOrders, FinishPayout, ProcessDies, RecordAdjustment, DeliverSale, PaymentLapses,
           NextDate
  <2> QED BY <2>1, <2>2, <2>3 DEF payoutVars
<1>3. SharesInv => SharesAddUp BY SharesInvSuffices
<1> QED BY <1>1, <1>2, <1>3, PTL DEF SpecPayouts

===============================================================================
