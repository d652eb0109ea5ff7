---------------------------- MODULE FleetProofs -----------------------------
(***************************************************************************)
(* What Fleet.tla promises, proved for any cars, owners, plates and number   *)
(* of requests: its type invariant, the cached lists and the registration    *)
(* numbers.                                                                *)
(***************************************************************************)
EXTENDS Fleet, TLAPS

-----------------------------------------------------------------------------
(* Requests and what they hold.                                             *)

LEMMA RequestHolds ==
    ASSUME NEW request \in FleetRequest
    PROVE  /\ request.step = "files" => request.car \in CarProps
           /\ request.step = "save" => request.id \in Cars /\ request.car \in CarProps
           /\ request.step = "remove" => request.id \in Cars
           /\ request.step = "store" => request.list \in CarLists /\ request.cars \subseteq Cars
  BY DEF FleetRequest

LEMMA PlainRequest ==
    ASSUME NEW step \in {"none", "delAvailable", "delPending"}
    PROVE  [step |-> step] \in FleetRequest
  BY DEF FleetRequest

LEMMA FilesRequest ==
    ASSUME NEW car \in CarProps
    PROVE  [step |-> "files", car |-> car] \in FleetRequest
  BY DEF FleetRequest

LEMMA SaveRequest ==
    ASSUME NEW c \in Cars, NEW car \in CarProps
    PROVE  [step |-> "save", id |-> c, car |-> car] \in FleetRequest
  BY DEF FleetRequest

LEMMA RemoveRequest ==
    ASSUME NEW c \in Cars
    PROVE  [step |-> "remove", id |-> c, fleetOwner |-> NoCar] \in FleetRequest
  BY DEF FleetRequest

LEMMA StoreRequest ==
    ASSUME NEW list \in CarLists, NEW cars \in SUBSET Cars
    PROVE  [step |-> "store", list |-> list, cars |-> cars] \in FleetRequest
  BY DEF FleetRequest

LEMMA RowOfCar ==
    ASSUME FleetTypeOK, NEW c \in CarsStored
    PROVE  c \in Cars /\ carRow[c] \in CarProps
  BY DEF FleetTypeOK, CarsStored

LEMMA NewCars ==
    ASSUME NEW owner \in Owners, NEW plate \in Plates
    PROVE  NewCar(owner, plate) \in CarProps /\ NewCar(owner, plate).plate = plate
  BY DEF NewCar, CarProps, CarStatuses, CarApprovals

\* No change of a car touches its number.
LEMMA ChangedCars ==
    ASSUME NEW car \in CarProps, NEW status \in CarStatuses
    PROVE  /\ UpdateStatus(car, status) \in CarProps /\ UpdateStatus(car, status).plate = car.plate
           /\ ApproveCar(car) \in CarProps /\ ApproveCar(car).plate = car.plate
           /\ RejectCar(car) \in CarProps /\ RejectCar(car).plate = car.plate
  BY DEF UpdateStatus, ApproveCar, RejectCar, CarProps, CarApprovals

-----------------------------------------------------------------------------
(* Types.                                                                   *)

LEMMA Proceeds ==
    ASSUME FleetTypeOK, NEW r \in FleetRequests, NEW request \in FleetRequest,
           Proceed(r, request)
    PROVE  /\ fleetRequest' \in [FleetRequests -> FleetRequest]
           /\ fleetRequest'[r] = request
           /\ \A s \in FleetRequests : s # r => fleetRequest'[s] = fleetRequest[s]
  BY DEF FleetTypeOK, Proceed

LEMMA FinishTyped ==
    ASSUME FleetTypeOK, NEW r \in FleetRequests, Finish(r)
    PROVE  /\ fleetRequest' \in [FleetRequests -> FleetRequest]
           /\ fleetRequest'[r] = NoRequest
           /\ \A s \in FleetRequests : s # r => fleetRequest'[s] = fleetRequest[s]
  BY PlainRequest, Proceeds DEF Finish, NoRequest

LEMMA UploadTyped ==
    ASSUME FleetTypeOK, NEW r \in FleetRequests, NEW owner \in Owners, NEW plate \in Plates,
           UploadCar(r, owner, plate)
    PROVE  FleetTypeOK'
<1>1. [step |-> "files", car |-> NewCar(owner, plate)] \in FleetRequest
  BY NewCars, FilesRequest
<1>2. fleetRequest' \in [FleetRequests -> FleetRequest]
  BY <1>1, Proceeds DEF UploadCar
<1> QED
  BY <1>2 DEF FleetTypeOK, UploadCar

LEMMA InsertTyped ==
    ASSUME FleetTypeOK, NEW r \in FleetRequests, NEW c \in Cars, InsertCar(r, c)
    PROVE  FleetTypeOK'
<1>1. fleetRequest[r].car \in CarProps
  BY RequestHolds DEF FleetTypeOK, InsertCar, Stands
<1>2. fleetRequest' \in [FleetRequests -> FleetRequest]
  BY PlainRequest, Proceeds DEF InsertCar
<1>3. (carRow \in [Cars -> CarProps \cup {NoCar}])'
  BY <1>1 DEF FleetTypeOK, InsertCar
<1> QED
  BY <1>2, <1>3 DEF FleetTypeOK, InsertCar

\* A request that is about to save a car of the same number.
LEMMA Saving ==
    ASSUME FleetTypeOK, NEW r \in FleetRequests, NEW c \in CarsStored, NEW car \in CarProps,
           Proceed(r, [step |-> "save", id |-> c, car |-> car]),
           UNCHANGED <<carRow, carList, rivals, torn>>
    PROVE  FleetTypeOK'
<1>1. [step |-> "save", id |-> c, car |-> car] \in FleetRequest
  BY SaveRequest, RowOfCar
<1>2. fleetRequest' \in [FleetRequests -> FleetRequest]
  BY <1>1, Proceeds
<1> QED
  BY <1>2 DEF FleetTypeOK

LEMMA Asked ==
    ASSUME FleetTypeOK, NEW c \in CarsStored, NEW status \in AskedStatuses \cup {carRow[c].status}
    PROVE  status \in CarStatuses
<1>1. carRow[c].status \in CarStatuses
  BY RowOfCar DEF CarProps
<1> QED
  BY <1>1, FleetAssumption DEF CarStatuses

LEMMA SaveTyped ==
    ASSUME FleetTypeOK, NEW r \in FleetRequests, SaveCar(r)
    PROVE  FleetTypeOK'
<1>1. fleetRequest[r].id \in Cars /\ fleetRequest[r].car \in CarProps
  BY RequestHolds DEF FleetTypeOK, SaveCar, Stands
<1>2. fleetRequest' \in [FleetRequests -> FleetRequest]
  BY PlainRequest, Proceeds DEF SaveCar
<1>3. (carRow \in [Cars -> CarProps \cup {NoCar}])'
  BY <1>1 DEF FleetTypeOK, SaveCar
<1> QED
  BY <1>2, <1>3 DEF FleetTypeOK, SaveCar

LEMMA DeleteTyped ==
    ASSUME FleetTypeOK, NEW r \in FleetRequests, NEW c \in Cars, NEW owner \in Owners,
           DeleteCar(r, c, owner)
    PROVE  FleetTypeOK'
<1>1. Proceed(r, [step |-> "remove", id |-> c, fleetOwner |-> NoCar])
  BY DEF DeleteCar, FleetOf
<1>2. fleetRequest' \in [FleetRequests -> FleetRequest]
  BY <1>1, RemoveRequest, Proceeds
<1> QED
  BY <1>2 DEF FleetTypeOK, DeleteCar

LEMMA RemoveTyped ==
    ASSUME FleetTypeOK, NEW r \in FleetRequests, RemoveCarFromFleet(r)
    PROVE  FleetTypeOK'
<1>1. fleetRequest[r].id \in Cars
  BY RequestHolds DEF FleetTypeOK, RemoveCarFromFleet, Stands
<1>2. fleetRequest' \in [FleetRequests -> FleetRequest]
  BY PlainRequest, Proceeds, FinishTyped DEF RemoveCarFromFleet
<1>3. (carRow \in [Cars -> CarProps \cup {NoCar}])'
  BY <1>1 DEF FleetTypeOK, RemoveCarFromFleet
<1> QED
  BY <1>2, <1>3 DEF FleetTypeOK, RemoveCarFromFleet

LEMMA DeleteListsTyped ==
    ASSUME FleetTypeOK, NEW r \in FleetRequests,
           DeleteAvailableList(r) \/ DeletePendingList(r)
    PROVE  FleetTypeOK'
<1>1. fleetRequest' \in [FleetRequests -> FleetRequest]
  BY PlainRequest, Proceeds, FinishTyped DEF DeleteAvailableList, DeletePendingList
<1>2. (carList \in [CarLists -> (SUBSET Cars) \cup {NoCar}])'
  BY DEF FleetTypeOK, DeleteAvailableList, DeletePendingList, CarLists
<1>3. (torn \subseteq CarLists)' /\ carRow' = carRow /\ rivals' = rivals
  BY DEF FleetTypeOK, DeleteAvailableList, DeletePendingList
<1> QED
  BY <1>1, <1>2, <1>3 DEF FleetTypeOK

LEMMA FetchTyped ==
    ASSUME FleetTypeOK, NEW r \in FleetRequests, NEW list \in CarLists, FetchList(r, list)
    PROVE  FleetTypeOK'
<1>1. FindList(list) \in SUBSET Cars
  BY DEF FindList, FindAvailableCars, FindPendingApprovalCars, CarsStored
<1>2. fleetRequest' \in [FleetRequests -> FleetRequest]
  BY <1>1, StoreRequest, Proceeds DEF FetchList
<1> QED
  BY <1>2 DEF FleetTypeOK, FetchList

LEMMA StoreListTyped ==
    ASSUME FleetTypeOK, NEW r \in FleetRequests, StoreList(r)
    PROVE  FleetTypeOK'
<1>1. fleetRequest[r].list \in CarLists /\ fleetRequest[r].cars \subseteq Cars
  BY RequestHolds DEF FleetTypeOK, StoreList, Stands
<1>2. fleetRequest' \in [FleetRequests -> FleetRequest]
  BY FinishTyped DEF StoreList
<1>3. (carList \in [CarLists -> (SUBSET Cars) \cup {NoCar}])' /\ (torn \subseteq CarLists)'
  BY <1>1 DEF FleetTypeOK, StoreList
<1> QED
  BY <1>2, <1>3 DEF FleetTypeOK, StoreList

LEMMA ExpiresTyped ==
    ASSUME FleetTypeOK, NEW list \in CarLists, ListExpires(list)
    PROVE  FleetTypeOK'
  BY DEF FleetTypeOK, ListExpires

LEMMA FailsTyped ==
    ASSUME FleetTypeOK, NEW r \in FleetRequests, FleetRequestFails(r)
    PROVE  FleetTypeOK'
<1>1. fleetRequest' \in [FleetRequests -> FleetRequest]
  BY FinishTyped DEF FleetRequestFails
<1>2. (torn \subseteq CarLists)'
  BY DEF FleetTypeOK, FleetRequestFails, CarLists
<1> QED
  BY <1>1, <1>2 DEF FleetTypeOK, FleetRequestFails

LEMMA UpdateTyped ==
    ASSUME FleetTypeOK, NEW r \in FleetRequests, NEW c \in Cars, NEW owner \in Owners,
           UpdateCar(r, c, owner)
    PROVE  FleetTypeOK'
<1> PICK status \in AskedStatuses \cup {carRow[c].status} :
        Proceed(r, [step |-> "save", id |-> c, car |-> UpdateStatus(carRow[c], status)])
  BY DEF UpdateCar
<1>1. c \in CarsStored /\ UNCHANGED <<carRow, carList, rivals, torn>>
  BY DEF UpdateCar
<1>2. UpdateStatus(carRow[c], status) \in CarProps
  BY <1>1, RowOfCar, Asked, ChangedCars
<1> QED
  BY <1>1, <1>2, Saving

LEMMA DecideTyped ==
    ASSUME FleetTypeOK, NEW r \in FleetRequests, NEW c \in Cars,
           DecideCar(r, c, ApproveCar(carRow[c])) \/ DecideCar(r, c, RejectCar(carRow[c]))
    PROVE  FleetTypeOK'
<1>1. c \in CarsStored /\ UNCHANGED <<carRow, carList, rivals, torn>>
  BY DEF DecideCar
<1>2. ApproveCar(carRow[c]) \in CarProps /\ RejectCar(carRow[c]) \in CarProps
  BY <1>1, RowOfCar, ChangedCars DEF CarStatuses
<1> QED
  BY <1>1, <1>2, Saving DEF DecideCar

LEMMA FleetTypeStep ==
    ASSUME FleetTypeOK, [FleetNext]_fleetVars
    PROVE  FleetTypeOK'
<1>1. CASE UNCHANGED fleetVars
  BY <1>1 DEF fleetVars, FleetTypeOK
<1>2. CASE FleetNext
  BY <1>2, UploadTyped, InsertTyped, UpdateTyped, DecideTyped, SaveTyped, DeleteTyped,
     RemoveTyped, DeleteListsTyped, FetchTyped, StoreListTyped, ExpiresTyped, FailsTyped
     DEF FleetNext
<1> QED
  BY <1>1, <1>2

\* The type invariant of Fleet.
THEOREM FleetTypeCorrect == FleetSpec => []FleetTypeOK
<1>1. FleetInit => FleetTypeOK
  BY PlainRequest DEF FleetInit, FleetTypeOK, NoRequest
<1>2. FleetTypeOK /\ [FleetNext]_fleetVars => FleetTypeOK'
  BY FleetTypeStep
<1> QED
  BY <1>1, <1>2, PTL DEF FleetSpec

-----------------------------------------------------------------------------
(* Registration numbers.                                                    *)

\* Rows stay, and keep their numbers.
RowsStay ==
    /\ CarsStored \subseteq CarsStored'
    /\ \A c \in CarsStored : carRow'[c].plate = carRow[c].plate

ChangeOK(request) ==
    /\ request.step \in {"save", "remove"} => request.id \in CarsStored
    /\ request.step = "save" => request.car.plate = carRow[request.id].plate
    /\ request.step = "remove" => request.fleetOwner = NoCar

LEMMA ChangesByRequest ==
    ChangesInv <=> \A r \in FleetRequests : ChangeOK(fleetRequest[r])
  BY DEF ChangesInv, ChangeOK, Stands

LEMMA ChangesByRequestNext ==
    (ChangesInv <=> \A r \in FleetRequests : ChangeOK(fleetRequest[r]))'
  BY ChangesByRequest, PTL

LEMMA ChangesKept ==
    ASSUME FleetTypeOK, ChangesInv, RowsStay, NEW r \in FleetRequests,
           NEW request \in FleetRequest, Proceed(r, request), ChangeOK(request)
    PROVE  ChangesInv'
<1>1. ASSUME NEW s \in FleetRequests PROVE ChangeOK(fleetRequest[s])'
  <2> PICK asked : asked = fleetRequest'[s]
    OBVIOUS
  <2>1. ChangeOK(asked)
    BY Proceeds, ChangesByRequest
  <2>2. /\ asked.step \in {"save", "remove"} => asked.id \in CarsStored'
        /\ asked.step = "save" => asked.car.plate = carRow'[asked.id].plate
        /\ asked.step = "remove" => asked.fleetOwner = NoCar
    BY <2>1 DEF ChangeOK, RowsStay
  <2> QED
    BY <2>2 DEF ChangeOK
<1> QED
  BY <1>1, ChangesByRequestNext

\* A step of a request that neither is nor becomes an upload, and that writes no new
\* number.
LEMMA NoUpload ==
    ASSUME FleetTypeOK, ChangesInv, UploadsInv, RegistrationsDistinct,
           NEW r \in FleetRequests, NEW request \in FleetRequest, Proceed(r, request),
           ChangeOK(request), request.step # "files",
           CarsStored' = CarsStored, rivals' = rivals,
           \A c \in CarsStored : carRow'[c].plate = carRow[c].plate
    PROVE  ChangesInv' /\ UploadsInv' /\ RegistrationsDistinct'
<1>1. ChangesInv'
  BY ChangesKept DEF RowsStay
<1>2. /\ fleetRequest'[r] = request
      /\ \A s \in FleetRequests : s # r => fleetRequest'[s] = fleetRequest[s]
  BY Proceeds
<1>3. \A s \in FleetRequests, plate \in Plates : Uploading(s, plate)' => Uploading(s, plate)
  BY <1>2 DEF Uploading, Stands
<1>4. \A plate \in Plates : PlateTaken(plate)' => PlateTaken(plate)
  BY DEF PlateTaken
<1>5. UploadsInv'
  BY <1>3, <1>4 DEF UploadsInv
<1>6. RegistrationsDistinct'
  BY DEF RegistrationsDistinct
<1> QED
  BY <1>1, <1>5, <1>6

LEMMA NoUploadNoWrite ==
    ASSUME FleetTypeOK, ChangesInv, UploadsInv, RegistrationsDistinct,
           NEW r \in FleetRequests, NEW request \in FleetRequest, Proceed(r, request),
           ChangeOK(request), request.step # "files", carRow' = carRow, rivals' = rivals
    PROVE  ChangesInv' /\ UploadsInv' /\ RegistrationsDistinct'
  BY NoUpload DEF CarsStored

LEMMA PlainChange ==
    ASSUME NEW step \in {"none", "delAvailable", "delPending"}
    PROVE  ChangeOK([step |-> step])
  BY DEF ChangeOK

LEMMA UploadDistinct ==
    ASSUME FleetTypeOK, ChangesInv, UploadsInv, RegistrationsDistinct,
           NEW r \in FleetRequests, NEW owner \in Owners, NEW plate \in Plates,
           UploadCar(r, owner, plate)
    PROVE  ChangesInv' /\ UploadsInv' /\ RegistrationsDistinct'
<1> PICK request : request = [step |-> "files", car |-> NewCar(owner, plate)]
  OBVIOUS
<1>1. /\ request \in FleetRequest /\ request.step = "files" /\ request.car.plate = plate
      /\ Proceed(r, request)
      /\ Stands(r, "none") /\ ~PlateTaken(plate)
      /\ carRow' = carRow
      /\ rivals' = IF \E s \in FleetRequests : Uploading(s, plate) THEN rivals \cup {plate}
                                                                   ELSE rivals
  BY NewCars, FilesRequest DEF UploadCar
<1>2. ChangesInv'
  BY <1>1, ChangesKept DEF ChangeOK, RowsStay, CarsStored
<1>3. /\ fleetRequest'[r] = request
      /\ \A s \in FleetRequests : s # r => fleetRequest'[s] = fleetRequest[s]
  BY <1>1, Proceeds
<1>4. /\ \A p \in Plates : Uploading(r, p)' => p = plate
      /\ \A s \in FleetRequests, p \in Plates :
            s # r => (Uploading(s, p)' <=> Uploading(s, p))
      /\ \A p \in Plates : PlateTaken(p)' <=> PlateTaken(p)
      /\ \A p \in Plates : ~Uploading(r, p)
  BY <1>1, <1>3 DEF Uploading, Stands, PlateTaken, CarsStored
<1>5. UploadsInv'
  <2>1. ASSUME NEW s \in FleetRequests, NEW p \in Plates, Uploading(s, p)', p \notin rivals'
        PROVE  ~PlateTaken(p)' /\ \A t \in FleetRequests : Uploading(t, p)' => t = s
    <3>1. p \notin rivals
      BY <1>1, <2>1
    <3>2. CASE p = plate
      <4>1. \A t \in FleetRequests : ~Uploading(t, plate)
        BY <1>1, <2>1, <3>2
      <4> QED
        BY <1>1, <1>4, <2>1, <3>2, <4>1
    <3>3. CASE p # plate
      <4>1. s # r /\ Uploading(s, p)
        BY <1>4, <2>1, <3>3
      <4> QED
        BY <1>4, <3>1, <3>3, <4>1 DEF UploadsInv
    <3> QED
      BY <3>2, <3>3
  <2> QED
    BY <2>1 DEF UploadsInv
<1>6. RegistrationsDistinct'
  BY <1>1 DEF RegistrationsDistinct, CarsStored
<1> QED
  BY <1>2, <1>5, <1>6

\* The number of the new row has rivals, or no other row and no other upload has it.
LEMMA InsertDistinct ==
    ASSUME FleetTypeOK, ChangesInv, UploadsInv, RegistrationsDistinct,
           NEW r \in FleetRequests, NEW c \in Cars, InsertCar(r, c)
    PROVE  ChangesInv' /\ UploadsInv' /\ RegistrationsDistinct'
<1> DEFINE car == fleetRequest[r].car
<1>1. /\ Stands(r, "files") /\ c \notin CarsStored
      /\ carRow' = [carRow EXCEPT ![c] = car]
      /\ Proceed(r, [step |-> "delAvailable"])
      /\ rivals' = rivals
  BY DEF InsertCar
<1>2. car \in CarProps /\ car # NoCar /\ car.plate \in Plates
  BY <1>1, RequestHolds, NullAssumption DEF FleetTypeOK, Stands, CarProps
<1>3. Uploading(r, car.plate)
  BY <1>1 DEF Uploading
<1> HIDE DEF car
<1>4. /\ CarsStored' = CarsStored \cup {c}
      /\ carRow'[c] = car
      /\ \A d \in CarsStored : carRow'[d] = carRow[d]
  BY <1>1, <1>2 DEF FleetTypeOK, CarsStored
<1>5. /\ fleetRequest'[r] = [step |-> "delAvailable"]
      /\ \A s \in FleetRequests : s # r => fleetRequest'[s] = fleetRequest[s]
  BY <1>1, PlainRequest, Proceeds
<1>6. ChangesInv'
  BY <1>1, <1>4, PlainRequest, PlainChange, ChangesKept DEF RowsStay
<1>7. UploadsInv'
  <2>1. ASSUME NEW s \in FleetRequests, NEW p \in Plates, Uploading(s, p)', p \notin rivals
        PROVE  ~PlateTaken(p)' /\ \A t \in FleetRequests : Uploading(t, p)' => t = s
    <3>1. \A t \in FleetRequests : Uploading(t, p)' => t # r /\ Uploading(t, p)
      BY <1>5 DEF Uploading, Stands
    <3>2. s # r /\ Uploading(s, p)
      BY <2>1, <3>1
    <3>3. ~PlateTaken(p) /\ \A t \in FleetRequests : Uploading(t, p) => t = s
      BY <2>1, <3>2 DEF UploadsInv
    <3>4. p # car.plate
      BY <1>3, <3>2, <3>3
    <3>5. ~PlateTaken(p)'
      BY <1>4, <3>3, <3>4 DEF PlateTaken
    <3> QED
      BY <3>1, <3>3, <3>5
  <2> QED
    BY <1>1, <2>1 DEF UploadsInv
<1>8. RegistrationsDistinct'
  <2>1. car.plate \in rivals \/ \A d \in CarsStored : carRow[d].plate # car.plate
    BY <1>2, <1>3 DEF UploadsInv, PlateTaken
  <2> QED
    BY <1>1, <1>4, <2>1 DEF RegistrationsDistinct
<1> QED
  BY <1>6, <1>7, <1>8

LEMMA SavingDistinct ==
    ASSUME FleetTypeOK, ChangesInv, UploadsInv, RegistrationsDistinct,
           NEW r \in FleetRequests, NEW c \in CarsStored, NEW car \in CarProps,
           car.plate = carRow[c].plate,
           Proceed(r, [step |-> "save", id |-> c, car |-> car]),
           carRow' = carRow, rivals' = rivals
    PROVE  ChangesInv' /\ UploadsInv' /\ RegistrationsDistinct'
<1> DEFINE request == [step |-> "save", id |-> c, car |-> car]
<1>1. request \in FleetRequest
  BY SaveRequest, RowOfCar
<1>2. ChangeOK(request) /\ request.step # "files"
  BY DEF ChangeOK
<1> HIDE DEF request
<1> QED
  BY <1>1, <1>2, NoUploadNoWrite DEF request

LEMMA UpdateDistinct ==
    ASSUME FleetTypeOK, ChangesInv, UploadsInv, RegistrationsDistinct,
           NEW r \in FleetRequests, NEW c \in Cars, NEW owner \in Owners, UpdateCar(r, c, owner)
    PROVE  ChangesInv' /\ UploadsInv' /\ RegistrationsDistinct'
<1> PICK status \in AskedStatuses \cup {carRow[c].status} :
        Proceed(r, [step |-> "save", id |-> c, car |-> UpdateStatus(carRow[c], status)])
  BY DEF UpdateCar
<1>1. c \in CarsStored /\ carRow' = carRow /\ rivals' = rivals
  BY DEF UpdateCar
<1>2. /\ UpdateStatus(carRow[c], status) \in CarProps
      /\ UpdateStatus(carRow[c], status).plate = carRow[c].plate
  BY <1>1, RowOfCar, Asked, ChangedCars
<1> QED
  BY <1>1, <1>2, SavingDistinct

LEMMA DecideDistinct ==
    ASSUME FleetTypeOK, ChangesInv, UploadsInv, RegistrationsDistinct,
           NEW r \in FleetRequests, NEW c \in Cars,
           DecideCar(r, c, ApproveCar(carRow[c])) \/ DecideCar(r, c, RejectCar(carRow[c]))
    PROVE  ChangesInv' /\ UploadsInv' /\ RegistrationsDistinct'
<1>1. c \in CarsStored /\ carRow' = carRow /\ rivals' = rivals
  BY DEF DecideCar
<1>2. /\ ApproveCar(carRow[c]) \in CarProps /\ ApproveCar(carRow[c]).plate = carRow[c].plate
      /\ RejectCar(carRow[c]) \in CarProps /\ RejectCar(carRow[c]).plate = carRow[c].plate
  BY <1>1, RowOfCar, ChangedCars DEF CarStatuses
<1> QED
  BY <1>1, <1>2, SavingDistinct DEF DecideCar

LEMMA SaveDistinct ==
    ASSUME FleetTypeOK, ChangesInv, UploadsInv, RegistrationsDistinct,
           NEW r \in FleetRequests, SaveCar(r)
    PROVE  ChangesInv' /\ UploadsInv' /\ RegistrationsDistinct'
<1> DEFINE c == fleetRequest[r].id
           car == fleetRequest[r].car
<1>1. /\ Stands(r, "save")
      /\ carRow' = [carRow EXCEPT ![c] = car]
      /\ Proceed(r, [step |-> "delAvailable"])
      /\ rivals' = rivals
  BY DEF SaveCar
<1>2. /\ car \in CarProps /\ car # NoCar
      /\ c \in CarsStored /\ c \in Cars
      /\ car.plate = carRow[c].plate
  BY <1>1, RequestHolds, NullAssumption DEF FleetTypeOK, Stands, ChangesInv, CarsStored
<1> HIDE DEF c, car
<1>3. /\ CarsStored' = CarsStored
      /\ \A d \in CarsStored : carRow'[d].plate = carRow[d].plate
  BY <1>1, <1>2 DEF FleetTypeOK, CarsStored
<1> QED
  BY <1>1, <1>3, PlainRequest, PlainChange, NoUpload

LEMMA DeleteDistinct ==
    ASSUME FleetTypeOK, ChangesInv, UploadsInv, RegistrationsDistinct,
           NEW r \in FleetRequests, NEW c \in Cars, NEW owner \in Owners, DeleteCar(r, c, owner)
    PROVE  ChangesInv' /\ UploadsInv' /\ RegistrationsDistinct'
<1> DEFINE request == [step |-> "remove", id |-> c, fleetOwner |-> NoCar]
<1>1. /\ c \in CarsStored
      /\ Proceed(r, request)
      /\ carRow' = carRow /\ rivals' = rivals
  BY DEF DeleteCar, FleetOf
<1>2. request \in FleetRequest
  BY RemoveRequest
<1>3. ChangeOK(request) /\ request.step # "files"
  BY <1>1 DEF ChangeOK
<1> HIDE DEF request
<1> QED
  BY <1>1, <1>2, <1>3, NoUploadNoWrite

\* A car belongs to an owner, and a fleet read from the row of its owner to nobody: what
\* is asked to be removed stays.
LEMMA RemovesNothing ==
    ASSUME FleetTypeOK, ChangesInv, NEW r \in FleetRequests, RemoveCarFromFleet(r)
    PROVE  Finish(r) /\ carRow' = carRow
<1>1. /\ Stands(r, "remove")
      /\ fleetRequest[r].fleetOwner = NoCar
      /\ fleetRequest[r].id \in CarsStored
  BY DEF RemoveCarFromFleet, ChangesInv
<1>2. carRow[fleetRequest[r].id].owner # fleetRequest[r].fleetOwner
  BY <1>1, RowOfCar, FleetAssumption DEF CarProps
<1> QED
  BY <1>2 DEF RemoveCarFromFleet

LEMMA FinishDistinct ==
    ASSUME FleetTypeOK, ChangesInv, UploadsInv, RegistrationsDistinct,
           NEW r \in FleetRequests, Finish(r), carRow' = carRow, rivals' = rivals
    PROVE  ChangesInv' /\ UploadsInv' /\ RegistrationsDistinct'
  BY PlainRequest, PlainChange, NoUploadNoWrite DEF Finish, NoRequest

LEMMA ListsDistinct ==
    ASSUME FleetTypeOK, ChangesInv, UploadsInv, RegistrationsDistinct,
           NEW r \in FleetRequests,
           \/ DeleteAvailableList(r)
           \/ \E list \in CarLists : FetchList(r, list)
    PROVE  ChangesInv' /\ UploadsInv' /\ RegistrationsDistinct'
<1>1. CASE DeleteAvailableList(r)
  BY <1>1, PlainRequest, PlainChange, NoUploadNoWrite DEF DeleteAvailableList
<1>2. ASSUME NEW list \in CarLists, FetchList(r, list)
      PROVE  ChangesInv' /\ UploadsInv' /\ RegistrationsDistinct'
  <2> DEFINE request == [step |-> "store", list |-> list, cars |-> FindList(list)]
  <2>1. Proceed(r, request) /\ carRow' = carRow /\ rivals' = rivals
    BY <1>2 DEF FetchList
  <2>2. request \in FleetRequest
    BY StoreRequest DEF FindList, FindAvailableCars, FindPendingApprovalCars, CarsStored
  <2>3. ChangeOK(request) /\ request.step # "files"
    BY DEF ChangeOK
  <2> HIDE DEF request
  <2> QED
    BY <2>1, <2>2, <2>3, NoUploadNoWrite
<1> QED
  BY <1>1, <1>2

LEMMA DistinctStep ==
    ASSUME FleetTypeOK, ChangesInv, UploadsInv, RegistrationsDistinct, [FleetNext]_fleetVars
    PROVE  ChangesInv' /\ UploadsInv' /\ RegistrationsDistinct'
<1>1. ASSUME UNCHANGED <<carRow, fleetRequest, rivals>>
      PROVE  ChangesInv' /\ UploadsInv' /\ RegistrationsDistinct'
  BY <1>1 DEF ChangesInv, UploadsInv, RegistrationsDistinct, Stands, Uploading, PlateTaken,
              CarsStored
<1>2. ASSUME NEW list \in CarLists, ListExpires(list)
      PROVE  ChangesInv' /\ UploadsInv' /\ RegistrationsDistinct'
  BY <1>1, <1>2 DEF ListExpires
<1>3. ASSUME NEW r \in FleetRequests,
             RemoveCarFromFleet(r) \/ DeletePendingList(r) \/ StoreList(r)
                \/ FleetRequestFails(r)
      PROVE  ChangesInv' /\ UploadsInv' /\ RegistrationsDistinct'
  <2>1. Finish(r) /\ carRow' = carRow /\ rivals' = rivals
    BY <1>3, RemovesNothing DEF RemoveCarFromFleet, DeletePendingList, StoreList,
                                FleetRequestFails
  <2> QED
    BY <2>1, FinishDistinct
<1>4. CASE FleetNext
  BY <1>2, <1>3, <1>4, UploadDistinct, InsertDistinct, UpdateDistinct, DecideDistinct,
     SaveDistinct, DeleteDistinct, ListsDistinct
     DEF FleetNext
<1>5. CASE UNCHANGED fleetVars
  BY <1>1, <1>5 DEF fleetVars
<1> QED
  BY <1>4, <1>5

\* What requests on cars keep to between two steps, with the distinct numbers.
THEOREM FleetInvariant == FleetSpec => [](FleetInv /\ RegistrationsDistinct)
<1>1. FleetInit => ChangesInv /\ UploadsInv /\ RegistrationsDistinct
  BY DEF FleetInit, ChangesInv, UploadsInv, RegistrationsDistinct, Stands, Uploading,
         NoRequest, CarsStored
<1>2. /\ FleetTypeOK /\ ChangesInv /\ UploadsInv /\ RegistrationsDistinct
      /\ [FleetNext]_fleetVars
      => (ChangesInv /\ UploadsInv /\ RegistrationsDistinct)'
  BY DistinctStep
<1> QED
  BY <1>1, <1>2, FleetTypeCorrect, PTL DEF FleetSpec, FleetInv

\* Two cars share a registration number only if their uploads overlapped, for any
\* number of cars, plates and requests.
THEOREM RegistrationsStayDistinct == FleetSpec => []RegistrationsDistinct
  BY FleetInvariant, PTL

\* No request ever takes a car out of the table, those that ask for it included.
THEOREM CarsStayStored == FleetSpec => [][CarsStored \subseteq CarsStored']_fleetVars
<1>1. ASSUME FleetTypeOK, ChangesInv, FleetNext PROVE CarsStored \subseteq CarsStored'
  <2>1. ASSUME carRow' = carRow PROVE CarsStored \subseteq CarsStored'
    BY <2>1 DEF CarsStored
  <2>2. ASSUME NEW r \in FleetRequests, RemoveCarFromFleet(r)
        PROVE  CarsStored \subseteq CarsStored'
    BY <1>1, <2>1, <2>2, RemovesNothing
  <2>3. ASSUME NEW r \in FleetRequests, NEW c \in Cars, InsertCar(r, c)
        PROVE  CarsStored \subseteq CarsStored'
    BY <1>1, <2>3 DEF InsertCar, CarsStored, FleetTypeOK
  <2>4. ASSUME NEW r \in FleetRequests, SaveCar(r)
        PROVE  CarsStored \subseteq CarsStored'
    <3>1. fleetRequest[r].car # NoCar
      BY <1>1, <2>4, RequestHolds, NullAssumption DEF FleetTypeOK, SaveCar, Stands
    <3> QED
      BY <1>1, <2>4, <3>1 DEF SaveCar, CarsStored, FleetTypeOK
  <2> QED
    BY <1>1, <2>1, <2>2, <2>3, <2>4 DEF FleetNext, ListExpires, UploadCar, UpdateCar, DeleteCar,
       DecideCar, DeleteAvailableList, DeletePendingList, FetchList, StoreList,
       FleetRequestFails
<1> QED
  BY <1>1, FleetTypeCorrect, FleetInvariant, PTL DEF FleetSpec, FleetInv

-----------------------------------------------------------------------------
(* The cached lists.                                                        *)

\* A request is on its way to delete the key of the list.
Deleting(r, list) ==
    Stands(r, "delAvailable") \/ (Stands(r, "delPending") /\ list = "pending")

FreshList(list) ==
    \/ carList[list] \in {NoCar, FindList(list)}
    \/ list \in torn
    \/ \E r \in FleetRequests : Deleting(r, list)

LEMMA FreshLists ==
    CarListsFresh <=> \A list \in CarLists : FreshList(list)
  BY DEF CarListsFresh, FreshList, Deleting

LEMMA FreshListsNext ==
    (CarListsFresh <=> \A list \in CarLists : FreshList(list))'
  BY FreshLists, PTL

\* A step of a request that deletes no keys, or goes on to delete them, and changes
\* neither rows nor lists.
LEMMA StaysFresh ==
    ASSUME FleetTypeOK, NEW list \in CarLists, FreshList(list), NEW r \in FleetRequests,
           NEW request \in FleetRequest, Proceed(r, request),
           Deleting(r, list) => request.step = "delAvailable",
           carRow' = carRow, carList'[list] = carList[list],
           list \in torn => list \in torn'
    PROVE  FreshList(list)'
<1>1. /\ fleetRequest'[r] = request
      /\ \A s \in FleetRequests : s # r => fleetRequest'[s] = fleetRequest[s]
  BY Proceeds
<1>2. FindList(list)' = FindList(list)
  BY DEF FindList, FindAvailableCars, FindPendingApprovalCars, CarsStored
<1>3. ASSUME NEW s \in FleetRequests, Deleting(s, list) PROVE FreshList(list)'
  <2>1. Deleting(s, list)'
    BY <1>1, <1>3 DEF Deleting, Stands
  <2> QED
    BY <2>1 DEF FreshList
<1> QED
  BY <1>2, <1>3 DEF FreshList

\* Whoever changes the rows goes on to delete both keys.
LEMMA GoesDeleting ==
    ASSUME FleetTypeOK, NEW list \in CarLists, NEW r \in FleetRequests,
           Proceed(r, [step |-> "delAvailable"])
    PROVE  FreshList(list)'
<1>1. fleetRequest'[r] = [step |-> "delAvailable"]
  BY PlainRequest, Proceeds
<1> QED
  BY <1>1 DEF FreshList, Deleting, Stands

LEMMA DeleteAvailableFresh ==
    ASSUME FleetTypeOK, NEW list \in CarLists, FreshList(list), NEW r \in FleetRequests,
           DeleteAvailableList(r)
    PROVE  FreshList(list)'
<1>1. CASE list = "available"
  BY <1>1 DEF DeleteAvailableList, FreshList, FleetTypeOK
<1>2. CASE list = "pending"
  <2>1. fleetRequest'[r] = [step |-> "delPending"]
    BY PlainRequest, Proceeds DEF DeleteAvailableList
  <2> QED
    BY <1>2, <2>1 DEF FreshList, Deleting, Stands
<1> QED
  BY <1>1, <1>2 DEF CarLists

LEMMA DeletePendingFresh ==
    ASSUME FleetTypeOK, NEW list \in CarLists, FreshList(list), NEW r \in FleetRequests,
           DeletePendingList(r)
    PROVE  FreshList(list)'
<1>1. CASE list = "pending"
  BY <1>1 DEF DeletePendingList, FreshList, FleetTypeOK
<1>2. CASE list = "available"
  <2>1. ~Deleting(r, list)
    BY <1>2 DEF DeletePendingList, Deleting, Stands
  <2>2. carList'[list] = carList[list] /\ (list \in torn => list \in torn')
    BY <1>2 DEF DeletePendingList, FleetTypeOK
  <2> QED
    BY <2>1, <2>2, PlainRequest, StaysFresh DEF DeletePendingList, Finish, NoRequest
<1> QED
  BY <1>1, <1>2 DEF CarLists

\* What a reader stores is the list of now, or torn.
LEMMA StoreListFresh ==
    ASSUME FleetTypeOK, NEW list \in CarLists, FreshList(list), NEW r \in FleetRequests,
           StoreList(r)
    PROVE  FreshList(list)'
<1> DEFINE stored == fleetRequest[r].list
           cars == fleetRequest[r].cars
<1>1. /\ Stands(r, "store") /\ Finish(r) /\ carRow' = carRow
      /\ carList' = [carList EXCEPT ![stored] = cars]
      /\ torn' = IF cars = FindList(stored) THEN torn \ {stored} ELSE torn \cup {stored}
  BY DEF StoreList
<1>2. stored \in CarLists
  BY <1>1, RequestHolds DEF FleetTypeOK, Stands
<1> HIDE DEF stored, cars
<1>3. CASE list = stored
  <2>1. FindList(list)' = FindList(list)
    BY <1>1 DEF FindList, FindAvailableCars, FindPendingApprovalCars, CarsStored
  <2>2. carList'[list] = cars
    BY <1>1, <1>2, <1>3 DEF FleetTypeOK
  <2> QED
    BY <1>1, <1>3, <2>1, <2>2 DEF FreshList
<1>4. CASE list # stored
  <2>1. carList'[list] = carList[list] /\ (list \in torn => list \in torn')
    BY <1>1, <1>4 DEF FleetTypeOK
  <2>2. ~Deleting(r, list)
    BY <1>1 DEF Deleting, Stands
  <2> QED
    BY <1>1, <2>1, <2>2, PlainRequest, StaysFresh DEF Finish, NoRequest
<1> QED
  BY <1>3, <1>4

LEMMA ExpiresFresh ==
    ASSUME FleetTypeOK, NEW list \in CarLists, FreshList(list), NEW gone \in CarLists,
           ListExpires(gone)
    PROVE  FreshList(list)'
<1>1. CASE list = gone
  BY <1>1 DEF ListExpires, FreshList, FleetTypeOK
<1>2. CASE list # gone
  BY <1>2 DEF ListExpires, FreshList, FleetTypeOK, Deleting, Stands, FindList,
              FindAvailableCars, FindPendingApprovalCars, CarsStored
<1> QED
  BY <1>1, <1>2

\* A deletion cut short is remembered.
LEMMA FailsFresh ==
    ASSUME FleetTypeOK, NEW list \in CarLists, FreshList(list), NEW r \in FleetRequests,
           FleetRequestFails(r)
    PROVE  FreshList(list)'
<1>1. Finish(r) /\ carRow' = carRow /\ carList' = carList
  BY DEF FleetRequestFails
<1>2. torn \subseteq torn' /\ (Deleting(r, list) => list \in torn')
  BY DEF FleetRequestFails, Deleting, Stands, CarLists
<1>3. CASE Deleting(r, list)
  BY <1>2, <1>3 DEF FreshList
<1>4. CASE ~Deleting(r, list)
  BY <1>1, <1>2, <1>4, PlainRequest, StaysFresh DEF Finish, NoRequest
<1> QED
  BY <1>3, <1>4

\* Requests that begin here stand nowhere near a deletion.
LEMMA BeginFresh ==
    ASSUME FleetTypeOK, NEW list \in CarLists, FreshList(list), NEW r \in FleetRequests,
           Stands(r, "none"), NEW request \in FleetRequest, Proceed(r, request),
           carRow' = carRow, carList' = carList, torn' = torn
    PROVE  FreshList(list)'
<1>1. ~Deleting(r, list)
  BY DEF Deleting, Stands
<1> QED
  BY <1>1, StaysFresh

LEMMA FreshStep ==
    ASSUME FleetTypeOK, ChangesInv, [FleetNext]_fleetVars, NEW list \in CarLists, FreshList(list)
    PROVE  FreshList(list)'
<1>1. ASSUME NEW r \in FleetRequests, NEW owner \in Owners, NEW plate \in Plates,
             UploadCar(r, owner, plate)
      PROVE  FreshList(list)'
  BY <1>1, NewCars, FilesRequest, BeginFresh DEF UploadCar
<1>2. ASSUME NEW r \in FleetRequests, NEW c \in Cars, InsertCar(r, c)
      PROVE  FreshList(list)'
  BY <1>2, GoesDeleting DEF InsertCar
<1>3. ASSUME NEW r \in FleetRequests, NEW c \in Cars, NEW owner \in Owners,
             UpdateCar(r, c, owner)
      PROVE  FreshList(list)'
  <2> PICK status \in AskedStatuses \cup {carRow[c].status} :
        Proceed(r, [step |-> "save", id |-> c, car |-> UpdateStatus(carRow[c], status)])
    BY <1>3 DEF UpdateCar
  <2>1. /\ c \in CarsStored /\ Stands(r, "none")
        /\ carRow' = carRow /\ carList' = carList /\ torn' = torn
    BY <1>3 DEF UpdateCar
  <2>2. UpdateStatus(carRow[c], status) \in CarProps
    BY <2>1, RowOfCar, Asked, ChangedCars
  <2> QED
    BY <2>1, <2>2, SaveRequest, BeginFresh
<1>4. ASSUME NEW r \in FleetRequests, NEW c \in Cars,
             DecideCar(r, c, ApproveCar(carRow[c])) \/ DecideCar(r, c, RejectCar(carRow[c]))
      PROVE  FreshList(list)'
  <2>1. /\ c \in CarsStored /\ Stands(r, "none")
        /\ carRow' = carRow /\ carList' = carList /\ torn' = torn
    BY <1>4 DEF DecideCar
  <2>2. ApproveCar(carRow[c]) \in CarProps /\ RejectCar(carRow[c]) \in CarProps
    BY <2>1, RowOfCar, ChangedCars DEF CarStatuses
  <2> QED
    BY <1>4, <2>1, <2>2, SaveRequest, BeginFresh DEF DecideCar
<1>5. ASSUME NEW r \in FleetRequests, SaveCar(r)
      PROVE  FreshList(list)'
  BY <1>5, GoesDeleting DEF SaveCar
<1>6. ASSUME NEW r \in FleetRequests, NEW c \in Cars, NEW owner \in Owners,
             DeleteCar(r, c, owner)
      PROVE  FreshList(list)'
  BY <1>6, RemoveRequest, BeginFresh DEF DeleteCar, FleetOf
<1>7. ASSUME NEW r \in FleetRequests, RemoveCarFromFleet(r)
      PROVE  FreshList(list)'
  <2>1. ~Deleting(r, list)
    BY <1>7 DEF RemoveCarFromFleet, Deleting, Stands
  <2> QED
    BY <1>7, <2>1, RemovesNothing, PlainRequest, StaysFresh
       DEF RemoveCarFromFleet, Finish, NoRequest
<1>8. ASSUME NEW r \in FleetRequests, NEW asked \in CarLists, FetchList(r, asked)
      PROVE  FreshList(list)'
  <2>1. FindList(asked) \in SUBSET Cars
    BY DEF FindList, FindAvailableCars, FindPendingApprovalCars, CarsStored
  <2> QED
    BY <1>8, <2>1, StoreRequest, BeginFresh DEF FetchList
<1>9. CASE FleetNext
  BY <1>1, <1>2, <1>3, <1>4, <1>5, <1>6, <1>7, <1>8, <1>9, DeleteAvailableFresh,
     DeletePendingFresh, StoreListFresh, ExpiresFresh, FailsFresh
     DEF FleetNext
<1>10. CASE UNCHANGED fleetVars
  BY <1>10 DEF fleetVars, FreshList, Deleting, Stands, FindList, FindAvailableCars,
               FindPendingApprovalCars, CarsStored
<1> QED
  BY <1>9, <1>10

\* Once the keys are deleted a cached list shows the table, unless a reader overtook the
\* change or a deletion was cut short, for any number of readers and writers.
THEOREM ListsStayFresh == FleetSpec => []CarListsFresh
<1>1. FleetInit => CarListsFresh
  BY DEF FleetInit, CarListsFresh
<1>2. FleetTypeOK /\ ChangesInv /\ CarListsFresh /\ [FleetNext]_fleetVars => CarListsFresh'
  BY FreshLists, FreshListsNext, FreshStep
<1> QED
  BY <1>1, <1>2, FleetTypeCorrect, FleetInvariant, PTL DEF FleetSpec, FleetInv
=============================================================================
