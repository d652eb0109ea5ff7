------------------------------- MODULE Users --------------------------------
(***************************************************************************)
(* Users, their approval and the onboarding of fleet owners: the user        *)
(* entity, its repository and the application services of src/src/iam that   *)
(* write user rows.                                                        *)
(*                                                                         *)
(* An API request reads rows into entities, decides on what it read and      *)
(* writes whole rows back.  Each step of a request below ends at an await,   *)
(* so two requests meet between any two steps.  A request may also end at    *)
(* any step, because the call it awaits rejects or the process dies.         *)
(***************************************************************************)
EXTENDS FiniteSets, Naturals

CONSTANTS
    UserIds,        \* identifiers rows may take
    FirstAdmin,     \* the administrator the database is seeded with
    Emails,         \* addresses people register with
    Phones,         \* phone numbers, in full form
    ApiRequests,    \* requests the server handles at one time
    Nobody          \* no user, no entity, a NULL column

ASSUME UsersAssumption ==
    /\ FirstAdmin \in UserIds
    /\ Nobody \notin UserIds \cup Phones
    /\ IsFiniteSet(UserIds)

VARIABLES
    userRow,        \* [UserIds -> the row, or Nobody]
    bankRow,        \* users with a row in BankDetails
    certificate,    \* users with a certificate among the documents
    api,            \* [ApiRequests -> progress of the request]
    interfered      \* history: users whose onboarding was cut short or overwritten

usersVars == <<userRow, bankRow, certificate, api, interfered>>

-----------------------------------------------------------------------------
(* Value objects and the entity.                                            *)

UserRoles == {"admin", "staff", "fleetOwner", "chauffeur", "customer"}
ApprovalStatuses == {"PENDING", "PROCESSING", "APPROVED", "REJECTED", "ON_HOLD", "ARCHIVED"}

\* Mutant: what was rejected may still be approved.
CanBeApprovedAgain(status) == status # "APPROVED"
CanBeApproved(status) == status \in {"PENDING", "PROCESSING"}
CanBeRejected(status) == status \in {"PENDING", "PROCESSING", "ON_HOLD"}

\* Chauffeurs have no address of their own: theirs is made of their phone number.
ChauffeurEmail(phone) == <<"chauffeur", phone>>
Addresses == Emails \cup {ChauffeurEmail(p) : p \in Phones} \cup {Nobody}

PlaceholderPhone == "0000000000"

UserProps ==
    [id : UserIds \cup {Nobody}, userType : {"REGISTERED", "GUEST"}, role : UserRoles,
     email : Addresses, phone : Phones \cup {PlaceholderPhone},
     fleetOwnerId : UserIds \cup {Nobody}, status : ApprovalStatuses, onboarded : BOOLEAN]

Entity(userType, role, email, phone, owner, status) ==
    [id |-> Nobody, userType |-> userType, role |-> role, email |-> email, phone |-> phone,
     fleetOwnerId |-> owner, status |-> status, onboarded |-> FALSE]

RegisterAsCustomer(email, phone) ==
    Entity("REGISTERED", "customer", email, phone, Nobody, "APPROVED")
CreateGuest(email, phone) ==
    Entity("GUEST", "customer", email, phone, Nobody, "APPROVED")
RegisterAsFleetOwner(email, phone) ==
    Entity("REGISTERED", "fleetOwner", email, phone, Nobody, "PENDING")
CreateChauffeur(owner, phone) ==
    Entity("REGISTERED", "chauffeur", ChauffeurEmail(phone), phone, owner, "PENDING")
CreateStaff(email, phone) ==
    Entity("REGISTERED", "staff", email, phone, Nobody, "APPROVED")

IsApproved(user) == user.status = "APPROVED"
IsFleetOwner(user) == user.role = "fleetOwner"
IsRegistered(user) == user.userType = "REGISTERED"
CanApproveDocuments(user) == user.role \in {"admin", "staff"} /\ IsApproved(user)

Approve(user) == [user EXCEPT !.status = "APPROVED"]
Reject(user) == [user EXCEPT !.status = "REJECTED"]
CompleteOnboarding(user) == [user EXCEPT !.onboarded = TRUE]

-----------------------------------------------------------------------------
(* The repository: two status columns stand for one status, and the type of  *)
(* the user, guest or registered, has no column at all.                     *)

FleetOwnerColumn ==
    [PENDING |-> "PROCESSING", PROCESSING |-> "PROCESSING", APPROVED |-> "APPROVED",
     REJECTED |-> "ARCHIVED", ON_HOLD |-> "ON_HOLD", ARCHIVED |-> "ARCHIVED"]
\* Mutant: the two columns share one set of words.
ChauffeurColumnShared == FleetOwnerColumn
ChauffeurColumn ==
    [PENDING |-> "PENDING", PROCESSING |-> "PENDING", APPROVED |-> "APPROVED",
     REJECTED |-> "REJECTED", ON_HOLD |-> "PENDING", ARCHIVED |-> "REJECTED"]

FleetOwnerStatusOf(column) ==
    CASE column = "PROCESSING" -> "PROCESSING"
      [] column = "APPROVED" -> "APPROVED"
      [] column = "ON_HOLD" -> "ON_HOLD"
      [] column = "ARCHIVED" -> "REJECTED"
      [] OTHER -> "PENDING"
ChauffeurStatusOf(column) ==
    IF column \in {"APPROVED", "REJECTED"} THEN column ELSE "PENDING"

UserRow ==
    [role : UserRoles, email : Addresses, phone : Phones \cup {PlaceholderPhone},
     fleetOwnerId : UserIds \cup {Nobody},
     fleetOwnerStatus : {"PROCESSING", "APPROVED", "ON_HOLD", "ARCHIVED", Nobody},
     chauffeurApprovalStatus : {"PENDING", "APPROVED", "REJECTED", Nobody},
     hasOnboarded : BOOLEAN]

\* NULL is none of the words of a column, and no row.
ASSUME NobodyAssumption ==
    /\ Nobody \notin UserRow
    /\ Nobody \notin UserRoles \cup ApprovalStatuses

MapUserToPrisma(user) ==
    [role |-> user.role, email |-> user.email, phone |-> user.phone,
     fleetOwnerId |-> user.fleetOwnerId,
     fleetOwnerStatus |->
        IF user.role = "fleetOwner" THEN FleetOwnerColumn[user.status] ELSE Nobody,
     chauffeurApprovalStatus |->
        IF user.role = "chauffeur" THEN ChauffeurColumn[user.status] ELSE Nobody,
     hasOnboarded |-> user.onboarded]

MapPrismaToUser(id, row) ==
    [id |-> id, userType |-> "REGISTERED", role |-> row.role, email |-> row.email,
     phone |-> row.phone, fleetOwnerId |-> row.fleetOwnerId,
     status |-> CASE row.role = "fleetOwner" -> FleetOwnerStatusOf(row.fleetOwnerStatus)
                  [] row.role = "chauffeur" -> ChauffeurStatusOf(row.chauffeurApprovalStatus)
                  [] OTHER -> "APPROVED",
     onboarded |-> row.hasOnboarded]

Stored == {u \in UserIds : userRow[u] # Nobody}
FindById(u) == MapPrismaToUser(u, userRow[u])

EmailTaken(email) == \E u \in Stored : userRow[u].email = email
PhoneTaken(phone) == \E u \in Stored : userRow[u].phone = phone

HasRole(role) == {u \in Stored : role = Nobody \/ userRow[u].role = role}
FindByRole(role) == HasRole(role)
FindFleetOwners == FindByRole("fleetOwner")
FindAdminAndStaff == {u \in Stored : userRow[u].role \in {"admin", "staff"}}
FindChauffeurs(owner) ==
    {u \in HasRole("chauffeur") : owner = Nobody \/ userRow[u].fleetOwnerId = owner}
FindFleetOwnerByChauffeur(u) == userRow[u].fleetOwnerId

FindPendingApprovals(role) ==
    {u \in HasRole(role) : \/ userRow[u].fleetOwnerStatus = "PROCESSING"
                           \/ userRow[u].chauffeurApprovalStatus = "PENDING"}
FindApprovedUsers(role) ==
    {u \in HasRole(role) : \/ userRow[u].fleetOwnerStatus = "APPROVED"
                           \/ userRow[u].chauffeurApprovalStatus = "APPROVED"
                           \/ userRow[u].role \in {"customer", "admin", "staff"}}
FindRejectedUsers(role) ==
    {u \in HasRole(role) : \/ userRow[u].fleetOwnerStatus = "ARCHIVED"
                           \/ userRow[u].chauffeurApprovalStatus = "REJECTED"}
FindOnboardedUsers(role) == {u \in HasRole(role) : userRow[u].hasOnboarded}
FindUsersWithBankDetails == Stored \cap bankRow

\* Only these two statuses narrow a search or a count.
StatusFilter(status, u) ==
    CASE status = "PENDING" -> \/ userRow[u].fleetOwnerStatus = "PROCESSING"
                               \/ userRow[u].chauffeurApprovalStatus = "PENDING"
      [] status = "APPROVED" -> \/ userRow[u].fleetOwnerStatus = "APPROVED"
                                \/ userRow[u].chauffeurApprovalStatus = "APPROVED"
      [] OTHER -> TRUE
Search(role, owner, status) ==
    {u \in HasRole(role) : /\ owner # Nobody => userRow[u].fleetOwnerId = owner
                           /\ StatusFilter(status, u)}
CountByApprovalStatus(status) == Cardinality({u \in Stored : StatusFilter(status, u)})
CountPendingApprovals == Cardinality(FindPendingApprovals(Nobody))

-----------------------------------------------------------------------------
(* Verifying a bank account, an external call between two checks.            *)

BankAccounts ==
    [wellFormed : BOOLEAN, bank : {"listed", "listedLongCode", "unknown"},
     answer : {"resolved", "noName", "refused", "unreachable"}, sameName : BOOLEAN]

ValidateVerificationInputs(account) ==
    account.wellFormed /\ account.bank # "listedLongCode"
ProviderResolves(account) == account.answer \in {"resolved", "noName"}
VerifyBankAccount(account) ==
    IF ~ValidateVerificationInputs(account) \/ account.bank = "unknown" THEN "throws"
    ELSE IF ProviderResolves(account) /\ account.answer # "noName" /\ account.sameName
         THEN "valid" ELSE "invalid"

-----------------------------------------------------------------------------
(* Requests.  step names what the request awaits; user is the entity it      *)
(* holds and seen the status it read into it.                               *)

Operations == {"none", "signIn", "guest", "chauffeur", "staff", "decide", "profile", "onboard"}
Steps == {"idle", "email", "phone", "create", "save", "verify", "upload", "bank", "user", "document"}

Free == [op |-> "none", step |-> "idle", user |-> Nobody, seen |-> Nobody]
Awaiting(op, step, user, seen) == [op |-> op, step |-> step, user |-> user, seen |-> seen]

ApiAt(r, step) == api[r].step = step
GoTo(r, step) == api' = [api EXCEPT ![r].step = step]
Ends(r) == api' = [api EXCEPT ![r] = Free]

\* JwtAuthGuard reads the row of the caller, RolesGuard looks at its roles.
GuardAdmits(caller, roles) == caller \in Stored /\ userRow[caller].role \in roles

Rows == <<userRow, bankRow, certificate, interfered>>

\* A verified code of an address nobody has: the account is created.
SignIn(r, email, role) ==
    /\ ApiAt(r, "idle")
    /\ ~EmailTaken(email)
    /\ api' = [api EXCEPT ![r] = Awaiting("signIn", "create",
                IF role = "fleetOwner" THEN RegisterAsFleetOwner(email, PlaceholderPhone)
                                       ELSE RegisterAsCustomer(email, PlaceholderPhone), Nobody)]
    /\ UNCHANGED Rows

\* A booking without an account.  Every user read back is a registered one, so an
\* address that is known is refused, a returning guest's included.
BookAsGuest(r, email, phone) ==
    /\ ApiAt(r, "idle")
    /\ ~EmailTaken(email)
    /\ api' = [api EXCEPT ![r] = Awaiting("guest", "create", CreateGuest(email, phone), Nobody)]
    /\ UNCHANGED Rows

AddChauffeur(r, owner, phone) ==
    /\ ApiAt(r, "idle")
    /\ GuardAdmits(owner, {"fleetOwner"})
    /\ IsFleetOwner(FindById(owner)) /\ IsApproved(FindById(owner))
    /\ api' = [api EXCEPT ![r] =
                 Awaiting("chauffeur", "phone", CreateChauffeur(owner, phone), Nobody)]
    /\ UNCHANGED Rows

\* The administrator of the path need not be the caller, and only has to be approved.
CreateStaffAccount(r, caller, admin, email, phone) ==
    /\ ApiAt(r, "idle")
    /\ GuardAdmits(caller, {"admin"})
    /\ admin \in Stored /\ IsApproved(FindById(admin))
    /\ api' = [api EXCEPT ![r] = Awaiting("staff", "email", CreateStaff(email, phone), Nobody)]
    /\ UNCHANGED Rows

ValidateUniqueEmail(r) ==
    /\ ApiAt(r, "email")
    /\ IF EmailTaken(api[r].user.email) THEN Ends(r) ELSE GoTo(r, "phone")
    /\ UNCHANGED Rows

ValidateUniquePhoneNumber(r) ==
    /\ ApiAt(r, "phone")
    /\ IF PhoneTaken(api[r].user.phone) THEN Ends(r) ELSE GoTo(r, "create")
    /\ UNCHANGED Rows

\* Mutant: the database lets one address be taken twice.
CreateRowUnchecked(r, id) ==
    /\ ApiAt(r, "create")
    /\ id \in UserIds \ Stored
    /\ userRow' = [userRow EXCEPT ![id] = MapUserToPrisma(api[r].user)]
    /\ Ends(r)
    /\ UNCHANGED <<bankRow, certificate, interfered>>
\* The database holds addresses apart, and nothing else.
CreateRow(r, id) ==
    /\ ApiAt(r, "create")
    /\ id \in UserIds \ Stored
    /\ ~EmailTaken(api[r].user.email)
    /\ userRow' = [userRow EXCEPT ![id] = MapUserToPrisma(api[r].user)]
    /\ Ends(r)
    /\ UNCHANGED <<bankRow, certificate, interfered>>

CanApproverProcessUser(approver, user) ==
    /\ CanApproveDocuments(approver)
    /\ ~(user.role = "STAFF" /\ approver.role # "ADMIN")
    /\ approver.id # user.id

ProcessApprovalDecision(user, decision) ==
    IF decision = "approve" THEN Approve(user) ELSE Reject(user)

\* Both rows are read, the decision is taken on what was read.  The role of an
\* approver, and with it the approver's status, never changes.
Decide(r, id, approver, decision) ==
    /\ ApiAt(r, "idle")
    /\ GuardAdmits(approver, {"admin", "staff"})
    /\ id \in Stored
    /\ CanApproverProcessUser(FindById(approver), FindById(id))
    /\ IF decision = "approve" THEN CanBeApproved(FindById(id).status)
                               ELSE CanBeRejected(FindById(id).status)
    /\ api' = [api EXCEPT ![r] =
                 Awaiting("decide", "save", ProcessApprovalDecision(FindById(id), decision),
                          FindById(id).status)]
    /\ UNCHANGED Rows

UpdateUserProfile(r, id) ==
    /\ ApiAt(r, "idle")
    /\ id \in Stored
    /\ api' = [api EXCEPT ![r] = Awaiting("profile", "save", FindById(id), FindById(id).status)]
    /\ UNCHANGED Rows

\* An update writes every column but the roles.
StoreUser(user) ==
    /\ userRow' = [userRow EXCEPT ![user.id] =
                     [MapUserToPrisma(user) EXCEPT !.role = userRow[user.id].role]]
    /\ interfered' = IF userRow[user.id].hasOnboarded /\ ~user.onboarded
                    THEN interfered \cup {user.id} ELSE interfered

SaveUser(r) ==
    /\ ApiAt(r, "save")
    /\ StoreUser(api[r].user)
    /\ Ends(r)
    /\ UNCHANGED <<bankRow, certificate>>

-----------------------------------------------------------------------------
(* Onboarding.                                                              *)

ValidateUserForOnboarding(user) ==
    IsFleetOwner(user) /\ ~user.onboarded /\ IsApproved(user)

ProcessOnboarding(r, id) ==
    /\ ApiAt(r, "idle")
    /\ GuardAdmits(id, {"fleetOwner"})
    /\ ValidateUserForOnboarding(FindById(id))
    /\ api' = [api EXCEPT ![r] = Awaiting("onboard", "verify", FindById(id), FindById(id).status)]
    /\ UNCHANGED Rows

\* Whatever is not valid ends the request.
BankAccountAnswered(r) ==
    /\ ApiAt(r, "verify")
    /\ \E account \in BankAccounts :
          IF VerifyBankAccount(account) = "valid" THEN GoTo(r, "upload") ELSE Ends(r)
    /\ UNCHANGED Rows

CertificateUploaded(r) ==
    /\ ApiAt(r, "upload")
    /\ GoTo(r, "bank")
    /\ UNCHANGED Rows

\* Not a transaction: three writes, each awaited on its own.
SaveBankDetails(r) ==
    /\ ApiAt(r, "bank")
    /\ IF api[r].user.id \in bankRow
       THEN Ends(r) /\ UNCHANGED bankRow
       ELSE /\ bankRow' = bankRow \cup {api[r].user.id}
            /\ api' = [api EXCEPT ![r].step = "user", ![r].user = CompleteOnboarding(@)]
    /\ UNCHANGED <<userRow, certificate, interfered>>

\* Mutant: the request ends with the flag, and saves no certificate.
SaveOnboardedUserOnly(r) ==
    /\ ApiAt(r, "user")
    /\ StoreUser(api[r].user)
    /\ Ends(r)
    /\ UNCHANGED <<bankRow, certificate>>
SaveOnboardedUser(r) ==
    /\ ApiAt(r, "user")
    /\ StoreUser(api[r].user)
    /\ GoTo(r, "document")
    /\ UNCHANGED <<bankRow, certificate>>

SaveCertificate(r) ==
    /\ ApiAt(r, "document")
    /\ certificate' = certificate \cup {api[r].user.id}
    /\ Ends(r)
    /\ UNCHANGED <<userRow, bankRow, interfered>>

\* The awaited call rejects, or the process dies.
RequestFails(r) ==
    /\ ~ApiAt(r, "idle")
    /\ Ends(r)
    /\ interfered' = IF api[r].step \in {"user", "document"}
                    THEN interfered \cup {api[r].user.id} ELSE interfered
    /\ UNCHANGED <<userRow, bankRow, certificate>>

-----------------------------------------------------------------------------
UsersInit ==
    /\ userRow = [u \in UserIds |->
                    IF u = FirstAdmin
                    THEN MapUserToPrisma(Entity("REGISTERED", "admin", Nobody, PlaceholderPhone,
                                                Nobody, "APPROVED"))
                    ELSE Nobody]
    /\ bankRow = {}
    /\ certificate = {}
    /\ api = [r \in ApiRequests |-> Free]
    /\ interfered = {}

UsersNext ==
    \E r \in ApiRequests :
      \/ \E email \in Emails, role \in {"customer", "fleetOwner"} : SignIn(r, email, role)
      \/ \E email \in Emails, phone \in Phones : BookAsGuest(r, email, phone)
      \/ \E owner \in UserIds, phone \in Phones : AddChauffeur(r, owner, phone)
      \/ \E caller, admin \in UserIds, email \in Emails, phone \in Phones :
            CreateStaffAccount(r, caller, admin, email, phone)
      \/ ValidateUniqueEmail(r)
      \/ ValidateUniquePhoneNumber(r)
      \/ \E id \in UserIds : CreateRow(r, id)
      \/ \E id, approver \in UserIds, decision \in {"approve", "reject"} :
            Decide(r, id, approver, decision)
      \/ \E id \in UserIds : UpdateUserProfile(r, id)
      \/ SaveUser(r)
      \/ \E id \in UserIds : ProcessOnboarding(r, id)
      \/ BankAccountAnswered(r)
      \/ CertificateUploaded(r)
      \/ SaveBankDetails(r)
      \/ SaveOnboardedUser(r)
      \/ SaveCertificate(r)
      \/ RequestFails(r)

UsersSpec == UsersInit /\ [][UsersNext]_usersVars

-----------------------------------------------------------------------------
ApiRequest ==
    [op : Operations, step : Steps, user : UserProps \cup {Nobody},
     seen : ApprovalStatuses \cup {Nobody}]

\* The request holds a user that has no row yet, or one it read from a row.
Creates(r) == api[r].step \in {"email", "phone", "create"}
Reads(r) == api[r].step \in {"save", "verify", "upload", "bank", "user", "document"}

UsersTypeOK ==
    /\ userRow \in [UserIds -> UserRow \cup {Nobody}]
    /\ bankRow \subseteq UserIds
    /\ certificate \subseteq UserIds
    /\ interfered \subseteq UserIds
    /\ api \in [ApiRequests -> ApiRequest]
    /\ \A r \in ApiRequests :
          /\ ~ApiAt(r, "idle") => api[r].user \in UserProps
          /\ Reads(r) => api[r].user.id \in Stored /\ api[r].seen \in ApprovalStatuses

\* The status columns and the entity's status say the same.  A user is in the list
\* of those who await a decision, in the approved list or in the rejected list, as
\* the entity read back says, whichever query is asked, and the counts agree.
ListsAgree ==
    /\ FindPendingApprovals(Nobody) = {u \in Stored : CanBeApproved(FindById(u).status)}
    /\ FindApprovedUsers(Nobody) = {u \in Stored : IsApproved(FindById(u))}
    /\ FindRejectedUsers(Nobody) = {u \in Stored : FindById(u).status = "REJECTED"}
    /\ CountPendingApprovals = CountByApprovalStatus("PENDING")
    /\ \A role \in {"fleetOwner", "chauffeur"} :
          /\ Search(role, Nobody, "PENDING") = FindPendingApprovals(role)
          /\ Search(role, Nobody, "APPROVED") = FindApprovedUsers(role)

\* Chauffeurs are told apart and belong to somebody.  Whether a phone number is in use
\* is asked before the row is written, so two requests may both find it free; the
\* address made of the number lets only one of them through.
ChauffeursIdentified ==
    /\ \A c, d \in FindChauffeurs(Nobody) : userRow[c].phone = userRow[d].phone => c = d
    /\ \A c \in FindChauffeurs(Nobody) : FindFleetOwnerByChauffeur(c) \in FindFleetOwners

InOnboarding(u) ==
    \E r \in ApiRequests : api[r].step \in {"user", "document"} /\ api[r].user.id = u

\* Bank details, the flag and the certificate come together: they come apart for good
\* only when an onboarding ended between its writes or a request that had read the user
\* before overwrote it.
OnboardingWhole ==
    \A u \in UserIds \ interfered :
        \/ InOnboarding(u)
        \/ u \in FindUsersWithBankDetails \cap certificate \cap FindOnboardedUsers(Nobody)
        \/ u \notin bankRow \cup certificate \cup FindOnboardedUsers(Nobody)

\* A decision on a user is reversed only by a request that had read the user before it
\* was taken; nobody decides again on what is decided.
DecisionsStand ==
    [][\A u \in Stored :
          LET before == FindById(u).status IN
          before \in {"APPROVED", "REJECTED"} =>
             \/ userRow[u]' = userRow[u]
             \/ FindById(u)'.status = before
             \/ \E r \in ApiRequests : /\ api[r].step \in {"save", "user"}
                                       /\ api[r].user.id = u
                                       /\ api[r].seen # before]_usersVars

-----------------------------------------------------------------------------
(* What the requests and the rows keep to between two steps: the invariants   *)
(* the properties above follow from.                                        *)

\* The column of the other role is NULL, the column of the own role never is.
ColumnsInv ==
    \A u \in Stored :
        /\ IsFleetOwner(userRow[u]) <=> userRow[u].fleetOwnerStatus # Nobody
        /\ userRow[u].role = "chauffeur" <=> userRow[u].chauffeurApprovalStatus # Nobody

\* A chauffeur, about to be stored or stored, has the address made of the phone number
\* and an employer among the fleet owners.
Employed(user) ==
    user.role = "chauffeur" =>
        /\ user.email = ChauffeurEmail(user.phone)
        /\ user.fleetOwnerId \in FindFleetOwners

\* What a request read still is what the row says of who the user is.  The status may
\* have moved on, but what the request writes is the status it read, or a verdict on a
\* status that was open to one.
SameUser(user, row) ==
    /\ user.role = row.role /\ user.email = row.email
    /\ user.phone = row.phone /\ user.fleetOwnerId = row.fleetOwnerId

IdentityInv ==
    /\ \A c, d \in Stored : userRow[c].email = userRow[d].email => c = d
    /\ \A u \in Stored : Employed(userRow[u])
    /\ \A r \in ApiRequests :
          /\ Creates(r) => Employed(api[r].user)
          /\ Reads(r) => SameUser(api[r].user, userRow[api[r].user.id])

VerdictsInv ==
    \A r \in ApiRequests :
        Reads(r) => api[r].user.status = api[r].seen \/ CanBeRejected(api[r].seen)

\* How far an onboarding has come, seen from the request and from the rows.
Onboarded(u) == userRow[u].hasOnboarded \/ u \in interfered
OnboardingInv ==
    \A r \in ApiRequests :
        LET user == api[r].user IN
        /\ Creates(r) \/ api[r].step \in {"verify", "upload", "bank"} => ~user.onboarded
        /\ ApiAt(r, "save") /\ user.onboarded => Onboarded(user.id)
        /\ ApiAt(r, "user") => user.onboarded /\ user.id \in bankRow
        /\ ApiAt(r, "document") => user.id \in bankRow /\ Onboarded(user.id)

UsersInv == ColumnsInv /\ IdentityInv /\ VerdictsInv /\ OnboardingInv
=============================================================================
