------------------------------ MODULE Onboarding ------------------------------
(***************************************************************************)
(* How a restaurant joins: an application is submitted, reviewed, rejected *)
(* or approved; approval creates the manager's account and the restaurant; *)
(* the owner follows a mailed link and the trial begins.                   *)
(*                                                                         *)
(* approveApplication opens a transaction but hands its session to nobody, *)
(* so its three writes are three steps and a failure or a crash keeps the  *)
(* ones that were done.                                                    *)
(***************************************************************************)
EXTENDS Subscriptions

CONSTANTS
    Forms,          \* bound: applications
    Emails, Phones, Names,
    Applicants,     \* submissions at once
    Reviewers,      \* platform admins
    Owners,         \* owners setting up their account at once
    EarlyBirdCap,   \* settings.earlyBirdCap
    LinkDays        \* a setup link is valid for 72 hours

ASSUME OnboardingAssumption ==
    /\ EarlyBirdCap \in Nat /\ LinkDays \in Nat
    /\ "none" \notin Restaurants \cup Emails

VARIABLES
    form,       \* form[f]: [email, phone, name, status, merchant]
    account,    \* account[m]: the manager of restaurant m, [email, phone, ready]
    branch,     \* branch[m]: the name under which m was opened
    link,       \* link[m]: the last day a setup link of m works
    crashed,    \* the process has died in the middle of an approval
    joinPc, joinLoc

onboardingVars == <<form, account, branch, link, crashed, joinPc, joinLoc>>

-------------------------------------------------------------------------------
NoForm == [email |-> "none", phone |-> "none", name |-> "none", status |-> "none", merchant |-> "none"]

NoAccount == [email |-> "none", phone |-> "none", ready |-> FALSE]

JoinNothing == [form |-> "none", doc |-> NoForm, merchant |-> "none", trials |-> FALSE, seat |-> FALSE]

Joiners == UNION {Applicants, Reviewers, Owners}

InitOnboarding ==
    /\ form = [f \in Forms |-> NoForm]
    /\ account = [m \in Restaurants |-> NoAccount]
    /\ branch = [m \in Restaurants |-> "none"]
    /\ link = [m \in Restaurants |-> Absent]
    /\ crashed = FALSE
    /\ joinPc = [x \in Joiners |-> "idle"]
    /\ joinLoc = [x \in Joiners |-> JoinNothing]

JoinGo(x, label, held) == /\ joinPc' = [joinPc EXCEPT ![x] = label]
                          /\ joinLoc' = [joinLoc EXCEPT ![x] = held]

JoinDone(x) == JoinGo(x, "idle", JoinNothing)

Undecided == {"PENDING", "UNDER_REVIEW"}

(* submitApplication: nobody with this email or phone is waiting, ... *)
ReadSubmission(x) ==
    /\ x \in Applicants /\ joinPc[x] = "idle"
    /\ \E e \in Emails, p \in Phones, n \in Names :
          /\ \A f \in Forms : form[f].status \in Undecided => form[f].email # e /\ form[f].phone # p
          /\ JoinGo(x, "submit", [JoinNothing EXCEPT
                !.doc = [email |-> e, phone |-> p, name |-> n, status |-> "PENDING", merchant |-> "none"]])
    /\ UNCHANGED <<form, account, branch, link, crashed, subscriptionVars>>

(* ... and the application is created. *)
SubmitApplication(x) ==
    /\ joinPc[x] = "submit"
    /\ \E f \in Forms : form[f] = NoForm /\ form' = [form EXCEPT ![f] = joinLoc[x].doc]
    /\ JoinDone(x)
    /\ UNCHANGED <<account, branch, link, crashed, subscriptionVars>>

(* markUnderReview and rejectApplication: undecided as read, ... *)
ReadApplication(a) ==
    /\ a \in Reviewers /\ joinPc[a] = "idle"
    /\ \E f \in Forms, status \in {"UNDER_REVIEW", "REJECTED"} :
          /\ form[f].status \in Undecided
          /\ form[f].status # status
          /\ JoinGo(a, "decide", [JoinNothing EXCEPT !.form = f, !.doc.status = status])
    /\ UNCHANGED <<form, account, branch, link, crashed, subscriptionVars>>

(* ... then written by _id. *)
Decide(a) ==
    /\ joinPc[a] = "decide"
    /\ form' = [form EXCEPT ![joinLoc[a].form].status = joinLoc[a].doc.status]
    /\ JoinDone(a)
    /\ UNCHANGED <<account, branch, link, crashed, subscriptionVars>>

-------------------------------------------------------------------------------
Taken(e, p) == \E m \in Restaurants : account[m].email = e \/ account[m].phone = p

(* approveApplication: undecided, and no user has this email or phone, ... *)
ReadApproval(a) ==
    /\ a \in Reviewers /\ joinPc[a] = "idle"
    /\ \E f \in Forms :
          /\ form[f].status \in Undecided
          /\ ~Taken(form[f].email, form[f].phone)
          /\ JoinGo(a, "createUser", [JoinNothing EXCEPT !.form = f, !.doc = form[f]])
    /\ UNCHANGED <<form, account, branch, link, crashed, subscriptionVars>>

(* ... the manager (email and phone are unique), ... *)
CreateManager(a) ==
    LET doc == joinLoc[a].doc
    IN  /\ joinPc[a] = "createUser"
        /\ IF Taken(doc.email, doc.phone)
           THEN JoinDone(a) /\ UNCHANGED account
           ELSE \E m \in Restaurants :
                  /\ account[m] = NoAccount
                  /\ account' = [account EXCEPT ![m] = [email |-> doc.email, phone |-> doc.phone,
                                                        ready |-> FALSE]]
                  /\ JoinGo(a, "open", [joinLoc[a] EXCEPT !.merchant = m])
        /\ UNCHANGED <<form, branch, link, crashed, subscriptionVars>>

(* Mutant: the refusal is swallowed. *)
OpenRestaurantAnyhow(a) ==
    LET m     == joinLoc[a].merchant
        taken == \E n \in Restaurants : branch[n] = joinLoc[a].doc.name
    IN  /\ joinPc[a] = "open"
        /\ branch' = IF taken THEN branch ELSE [branch EXCEPT ![m] = joinLoc[a].doc.name]
        /\ opened' = IF taken THEN opened ELSE opened \cup {m}
        /\ JoinGo(a, "approve", joinLoc[a])
        /\ UNCHANGED <<form, account, link, crashed, plan, sub, products, bill, platform, clock, subPc, subLoc>>

(* ... the restaurant (name is unique; a refusal keeps the manager), ... *)
OpenRestaurant(a) ==
    LET m == joinLoc[a].merchant
    IN  /\ joinPc[a] = "open"
        /\ IF \E n \in Restaurants : branch[n] = joinLoc[a].doc.name
           THEN JoinDone(a) /\ UNCHANGED <<branch, opened>>
           ELSE /\ branch' = [branch EXCEPT ![m] = joinLoc[a].doc.name]
                /\ opened' = opened \cup {m}
                /\ JoinGo(a, "approve", joinLoc[a])
        /\ UNCHANGED <<form, account, link, crashed, plan, sub, products, bill, platform, clock, subPc, subLoc>>

(* ... the application, by _id, and the mail with the setup link. *)
ApproveApplication(a) ==
    /\ joinPc[a] = "approve"
    /\ form' = [form EXCEPT ![joinLoc[a].form].status = "APPROVED",
                            ![joinLoc[a].form].merchant = joinLoc[a].merchant]
    /\ link' = [link EXCEPT ![joinLoc[a].merchant] = clock + LinkDays]
    /\ JoinDone(a)
    /\ UNCHANGED <<account, branch, crashed, subscriptionVars>>

(* resendApprovalEmail *)
ResendApprovalEmail ==
    /\ \E f \in Forms : /\ form[f].status = "APPROVED" /\ form[f].merchant # "none"
                        /\ link' = [link EXCEPT ![form[f].merchant] = clock + LinkDays]
    /\ UNCHANGED <<form, account, branch, crashed, joinPc, joinLoc, subscriptionVars>>

ApprovalDies(a) ==
    /\ joinPc[a] \in {"createUser", "open", "approve"} /\ ~crashed
    /\ crashed' = TRUE
    /\ JoinDone(a)
    /\ UNCHANGED <<form, account, branch, link, subscriptionVars>>

-------------------------------------------------------------------------------
(* setupAccount: a link works for 72 hours, as often as it is followed.    *)
(* The account is made ready, ...                                          *)
SetPassword(o) ==
    /\ o \in Owners /\ joinPc[o] = "idle"
    /\ \E m \in Restaurants :
          /\ clock <= link[m] /\ account[m] # NoAccount
          /\ account' = [account EXCEPT ![m].ready = TRUE]
          /\ JoinGo(o, "onboard", [JoinNothing EXCEPT !.merchant = m])
    /\ UNCHANGED <<form, branch, link, crashed, subscriptionVars>>

(* ... the application of this user is marked, ... *)
MarkOnboarded(o) ==
    /\ joinPc[o] = "onboard"
    /\ \E f \in Forms :
          /\ form[f].merchant = joinLoc[o].merchant
          /\ form' = [form EXCEPT ![f].status = "ONBOARDED"]
    /\ JoinGo(o, "readSettings", joinLoc[o])
    /\ UNCHANGED <<account, branch, link, crashed, subscriptionVars>>

SeatsTaken == Cardinality({m \in Restaurants : sub[m].seat})

(* ... settings and the number of taken seats are read, ... *)
ReadSettings(o) ==
    /\ joinPc[o] = "readSettings"
    /\ JoinGo(o, "grant", [joinLoc[o] EXCEPT !.trials = platform.trials,
                                             !.seat = platform.seats /\ SeatsTaken < EarlyBirdCap])
    /\ UNCHANGED <<form, account, branch, link, crashed, subscriptionVars>>

(* ... and the restaurant gets its trial and its seat: an end, no cap. *)
GrantTrial(o) ==
    LET m == joinLoc[o].merchant
    IN  /\ joinPc[o] = "grant"
        /\ sub' = [sub EXCEPT ![m].trial = IF joinLoc[o].trials THEN clock + TrialDays ELSE @,
                              ![m].seat = @ \/ joinLoc[o].seat]
        /\ JoinDone(o)
        /\ UNCHANGED <<form, account, branch, link, crashed, plan, opened, products, bill, platform,
                       clock, subPc, subLoc>>

ReviewerStep(a) == \/ ReadApplication(a) \/ Decide(a) \/ ReadApproval(a) \/ CreateManager(a)
                   \/ OpenRestaurant(a) \/ ApproveApplication(a) \/ ApprovalDies(a)

OwnerStep(o) == SetPassword(o) \/ MarkOnboarded(o) \/ ReadSettings(o) \/ GrantTrial(o)

NextOnboarding ==
    \/ \E x \in Applicants : ReadSubmission(x) \/ SubmitApplication(x)
    \/ \E a \in Reviewers : ReviewerStep(a)
    \/ \E o \in Owners : OwnerStep(o)
    \/ ResendApprovalEmail
    \/ (BackfillTrials \/ SetEarlyBird \/ UpdateSettings \/ ClockTicks) /\ UNCHANGED onboardingVars

(* A platform that begins without a plan and without a restaurant.         *)
InitJoining == /\ InitSubscriptions /\ InitOnboarding
               /\ plan = [s \in Slugs |-> NoPlan]
               /\ opened = {}

NextJoining == \/ NextOnboarding
               \/ (NextPlans \/ NextBilling) /\ UNCHANGED onboardingVars

joiningVars == <<subscriptionVars, onboardingVars>>

SpecJoining == InitJoining /\ [][NextJoining]_joiningVars

-------------------------------------------------------------------------------
(* However approvals interleave, fail on a taken name or die half way: an  *)
(* approved or onboarded application has a manager and an open restaurant  *)
(* of its own, and nobody else's.                                          *)
ApprovedHasMerchant ==
    /\ \A f \in Forms : form[f].status \in {"APPROVED", "ONBOARDED"} =>
          /\ form[f].merchant \in opened
          /\ account[form[f].merchant].email = form[f].email
          /\ branch[form[f].merchant] = form[f].name
    /\ \A f, g \in Forms : form[f].merchant = form[g].merchant /\ form[f].merchant # "none" => f = g
===============================================================================
