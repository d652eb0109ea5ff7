-------------------------------- MODULE Fleet --------------------------------
(***************************************************************************)
(* Cars of fleet owners, their approval, and the lists of cars kept in Redis:  *)
(* src/src/fleet.                                                          *)
(*                                                                         *)
(* A request reads a car, decides on what it read, writes the whole row and   *)
(* then deletes the cached lists, awaiting each call.  A request may end at   *)
(* any await, because the call rejects or the process dies.                  *)
(***************************************************************************)
EXTENDS Naturals

CONSTANTS
    Cars,           \* identifiers of car rows, given in order
    Owners,         \* fleet owners
    Plates,         \* registration numbers
    AskedStatuses,  \* statuses owners ask for
    FleetRequests,  \* requests the server handles at one time
    NoCar           \* no row, no list, NULL

ASSUME FleetAssumption ==
    /\ Cars \subseteq Nat
    /\ AskedStatuses \subseteq {"AVAILABLE", "BOOKED", "HOLD", "IN_SERVICE"}
    /\ NoCar \notin Owners

VARIABLES
    carRow,         \* [Cars -> the row, or NoCar]
    carList,        \* [CarLists -> the cars in the cached list, or NoCar]
    fleetRequest,   \* [FleetRequests -> progress]
    rivals,         \* history: plates asked about while another upload of them went on
    torn            \* history: lists stored after a change, or whose deletion was cut short

fleetVars == <<carRow, carList, fleetRequest, rivals, torn>>

-----------------------------------------------------------------------------
CarStatuses == {"AVAILABLE", "BOOKED", "HOLD", "IN_SERVICE"}
CarApprovals == {"PENDING", "APPROVED", "REJECTED"}
CarLists == {"available", "pending"}

CarProps == [owner : Owners, plate : Plates, status : CarStatuses, approval : CarApprovals]

\* NULL is no row.
ASSUME NullAssumption == NoCar \notin CarProps

NewCar(owner, plate) ==
    [owner |-> owner, plate |-> plate, status |-> "AVAILABLE", approval |-> "PENDING"]

IsAvailable(car) == car.status = "AVAILABLE" /\ car.approval = "APPROVED"

ValidTransitions ==
    [AVAILABLE |-> {"BOOKED", "HOLD", "IN_SERVICE"}, BOOKED |-> {"AVAILABLE", "IN_SERVICE"},
     HOLD |-> {"AVAILABLE", "IN_SERVICE"}, IN_SERVICE |-> {"AVAILABLE"}]

UpdateStatus(car, status) == [car EXCEPT !.status = status]
ApproveCar(car) == [car EXCEPT !.approval = "APPROVED"]
RejectCar(car) == [car EXCEPT !.approval = "REJECTED"]

-----------------------------------------------------------------------------
CarsStored == {c \in Cars : carRow[c] # NoCar}
PlateTaken(plate) == \E c \in CarsStored : carRow[c].plate = plate

FindAvailableCars == {c \in CarsStored : IsAvailable(carRow[c])}
FindPendingApprovalCars == {c \in CarsStored : carRow[c].approval = "PENDING"}
FindList(list) == IF list = "available" THEN FindAvailableCars ELSE FindPendingApprovalCars

\* A fleet is read from the row of its owner; its owner id is that row's fleetOwnerId,
\* which only chauffeurs have.
FleetOf(owner) == [id |-> owner, ownerId |-> NoCar]

NoRequest == [step |-> "none"]
Stands(r, step) == fleetRequest[r].step = step
Proceed(r, state) == fleetRequest' = [fleetRequest EXCEPT ![r] = state]
Finish(r) == Proceed(r, NoRequest)

Uploading(r, plate) == Stands(r, "files") /\ fleetRequest[r].car.plate = plate

-----------------------------------------------------------------------------
(* Uploading a car: the plate is looked up, the files are stored elsewhere,   *)
(* the row is written.  Rows do not hold plates apart.                       *)

\* Mutant: the plate is not looked up.
UploadUnchecked(r, owner, plate) ==
    /\ Stands(r, "none")
    /\ Proceed(r, [step |-> "files", car |-> NewCar(owner, plate)])
    /\ rivals' = IF \E s \in FleetRequests : Uploading(s, plate) THEN rivals \cup {plate}
                                                                   ELSE rivals
    /\ UNCHANGED <<carRow, carList, torn>>

UploadCar(r, owner, plate) ==
    /\ Stands(r, "none")
    /\ ~PlateTaken(plate)
    /\ Proceed(r, [step |-> "files", car |-> NewCar(owner, plate)])
    /\ rivals' = IF \E s \in FleetRequests : Uploading(s, plate) THEN rivals \cup {plate}
                                                                   ELSE rivals
    /\ UNCHANGED <<carRow, carList, torn>>

\* After all images and both certificates; one that fails ends the request, and what was
\* stored stays.
InsertCar(r, c) ==
    /\ Stands(r, "files")
    /\ c \in Cars \ CarsStored /\ \A d \in Cars \ CarsStored : c <= d
    /\ carRow' = [carRow EXCEPT ![c] = fleetRequest[r].car]
    /\ Proceed(r, [step |-> "delAvailable"])
    /\ UNCHANGED <<carList, rivals, torn>>

-----------------------------------------------------------------------------
(* Changing a car.                                                          *)

UpdateCar(r, c, owner) ==
    /\ Stands(r, "none")
    /\ c \in CarsStored
    /\ carRow[c].owner = owner
    /\ \E status \in AskedStatuses \cup {carRow[c].status} :
          /\ status = carRow[c].status \/ status \in ValidTransitions[carRow[c].status]
          /\ Proceed(r, [step |-> "save", id |-> c,
                         car |-> UpdateStatus(carRow[c], status)])
    /\ UNCHANGED <<carRow, carList, rivals, torn>>

DecideCar(r, c, decided) ==
    /\ Stands(r, "none")
    /\ c \in CarsStored
    /\ carRow[c].approval = "PENDING"
    /\ Proceed(r, [step |-> "save", id |-> c, car |-> decided])
    /\ UNCHANGED <<carRow, carList, rivals, torn>>

\* Mutant: only a decision deletes the lists.
SaveCarQuietly(r) ==
    /\ Stands(r, "save")
    /\ carRow' = [carRow EXCEPT ![fleetRequest[r].id] = fleetRequest[r].car]
    /\ Proceed(r, IF fleetRequest[r].car.status = carRow[fleetRequest[r].id].status
                  THEN [step |-> "delAvailable"] ELSE NoRequest)
    /\ UNCHANGED <<carList, rivals, torn>>
\* The whole row, the approval status included, is written over what is there.
SaveCar(r) ==
    /\ Stands(r, "save")
    /\ carRow' = [carRow EXCEPT ![fleetRequest[r].id] = fleetRequest[r].car]
    /\ Proceed(r, [step |-> "delAvailable"])
    /\ UNCHANGED <<carList, rivals, torn>>

DeleteCar(r, c, owner) ==
    /\ Stands(r, "none")
    /\ c \in CarsStored
    /\ carRow[c].owner = owner
    /\ Proceed(r, [step |-> "remove", id |-> c, fleetOwner |-> FleetOf(owner).ownerId])
    /\ UNCHANGED <<carRow, carList, rivals, torn>>

\* The owner of the car is compared with the owner of the fleet.
RemoveCarFromFleet(r) ==
    /\ Stands(r, "remove")
    /\ LET c == fleetRequest[r].id IN
       IF carRow[c].owner # fleetRequest[r].fleetOwner
       THEN Finish(r) /\ UNCHANGED carRow
       ELSE /\ carRow' = [carRow EXCEPT ![c] = NoCar]
            /\ Proceed(r, [step |-> "delAvailable"])
    /\ UNCHANGED <<carList, rivals, torn>>

-----------------------------------------------------------------------------
(* The cached lists.  Keys are deleted one after the other.                  *)

DeleteAvailableList(r) ==
    /\ Stands(r, "delAvailable")
    /\ carList' = [carList EXCEPT !["available"] = NoCar]
    /\ torn' = torn \ {"available"}
    /\ Proceed(r, [step |-> "delPending"])
    /\ UNCHANGED <<carRow, rivals>>

DeletePendingList(r) ==
    /\ Stands(r, "delPending")
    /\ carList' = [carList EXCEPT !["pending"] = NoCar]
    /\ torn' = torn \ {"pending"}
    /\ Finish(r)
    /\ UNCHANGED <<carRow, rivals>>

\* A reader that finds no list reads the rows and stores them; a list that is there is
\* served as it is.
FetchList(r, list) ==
    /\ Stands(r, "none")
    /\ carList[list] = NoCar
    /\ Proceed(r, [step |-> "store", list |-> list, cars |-> FindList(list)])
    /\ UNCHANGED <<carRow, carList, rivals, torn>>

StoreList(r) ==
    /\ Stands(r, "store")
    /\ LET list == fleetRequest[r].list
           cars == fleetRequest[r].cars IN
       /\ carList' = [carList EXCEPT ![list] = cars]
       /\ torn' = IF cars = FindList(list) THEN torn \ {list} ELSE torn \cup {list}
    /\ Finish(r)
    /\ UNCHANGED <<carRow, rivals>>

\* Seven days on, Redis forgets.
ListExpires(list) ==
    /\ carList[list] # NoCar
    /\ carList' = [carList EXCEPT ![list] = NoCar]
    /\ torn' = torn \ {list}
    /\ UNCHANGED <<carRow, fleetRequest, rivals>>

\* An error of Redis is logged and the request succeeds: lists keep what they hold.
FleetRequestFails(r) ==
    /\ ~Stands(r, "none")
    /\ Finish(r)
    /\ torn' = torn \cup CASE Stands(r, "delAvailable") -> CarLists
                           [] Stands(r, "delPending") -> {"pending"}
                           [] OTHER -> {}
    /\ UNCHANGED <<carRow, carList, rivals>>

-----------------------------------------------------------------------------
FleetInit ==
    /\ carRow = [c \in Cars |-> NoCar]
    /\ carList = [list \in CarLists |-> NoCar]
    /\ fleetRequest = [r \in FleetRequests |-> NoRequest]
    /\ rivals = {} /\ torn = {}

FleetNext ==
    \/ \E list \in CarLists : ListExpires(list)
    \/ \E r \in FleetRequests :
          \/ \E owner \in Owners, plate \in Plates : UploadCar(r, owner, plate)
          \/ \E c \in Cars :
                \/ InsertCar(r, c)
                \/ \E owner \in Owners : UpdateCar(r, c, owner) \/ DeleteCar(r, c, owner)
                \/ DecideCar(r, c, ApproveCar(carRow[c])) \/ DecideCar(r, c, RejectCar(carRow[c]))
          \/ SaveCar(r)
          \/ RemoveCarFromFleet(r)
          \/ DeleteAvailableList(r)
          \/ DeletePendingList(r)
          \/ \E list \in CarLists : FetchList(r, list)
          \/ StoreList(r)
          \/ FleetRequestFails(r)

FleetSpec == FleetInit /\ [][FleetNext]_fleetVars

-----------------------------------------------------------------------------
FleetRequest ==
    [step : {"none", "delAvailable", "delPending"}]
    \cup [step : {"files"}, car : CarProps]
    \cup [step : {"save"}, id : Cars, car : CarProps]
    \cup [step : {"remove"}, id : Cars, fleetOwner : Owners \cup {NoCar}]
    \cup [step : {"store"}, list : CarLists, cars : SUBSET Cars]

FleetTypeOK ==
    /\ carRow \in [Cars -> CarProps \cup {NoCar}]
    /\ carList \in [CarLists -> (SUBSET Cars) \cup {NoCar}]
    /\ rivals \subseteq Plates
    /\ torn \subseteq CarLists
    /\ fleetRequest \in [FleetRequests -> FleetRequest]

\* A cached list shows what the table holds as soon as the requests that changed it have
\* deleted their keys.  It may differ only when a reader stored what it had read before a
\* change, or when a deletion never happened; the next change puts it right.
CarListsFresh ==
    \A list \in CarLists :
        \/ carList[list] \in {NoCar, FindList(list)}
        \/ list \in torn
        \/ \E r \in FleetRequests :
              Stands(r, "delAvailable") \/ (Stands(r, "delPending") /\ list = "pending")

\* Two cars share a registration number only if their uploads overlapped: the number is
\* looked up before the files go out, and the table does not forbid it.
RegistrationsDistinct ==
    \A c, d \in CarsStored :
        carRow[c].plate = carRow[d].plate => c = d \/ carRow[c].plate \in rivals

-----------------------------------------------------------------------------
(* What the requests on cars keep to between two steps.                      *)

\* The car a request is about has a row of that registration number; a fleet read from
\* the row of its owner has no owner, so no car is its.
ChangesInv ==
    \A r \in FleetRequests :
        /\ Stands(r, "save") \/ Stands(r, "remove") => fleetRequest[r].id \in CarsStored
        /\ Stands(r, "save") => fleetRequest[r].car.plate = carRow[fleetRequest[r].id].plate
        /\ Stands(r, "remove") => fleetRequest[r].fleetOwner = NoCar

\* An upload without a rival is of a number no car has and no other upload asks for.
UploadsInv ==
    \A r \in FleetRequests, plate \in Plates :
        Uploading(r, plate) =>
            \/ plate \in rivals
            \/ ~PlateTaken(plate) /\ \A s \in FleetRequests : Uploading(s, plate) => s = r

FleetInv == ChangesInv /\ UploadsInv
=============================================================================
