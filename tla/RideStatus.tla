----------------------------- MODULE RideStatus -----------------------------
(***************************************************************************)
(* The statuses the rows of the database go through, shared by the modules *)
(* that move them, and what a passenger or a driver sees of one.           *)
(***************************************************************************)
RequestStatus == {"NONE", "WAITING", "MATCHED", "IN_PROGRESS",
                  "COMPLETED", "CANCELLED", "EXPIRED"}
Availability == {"OFFLINE", "AVAILABLE", "RESERVED", "ON_RIDE"}
RiderStatus == {"NONE", "ASSIGNED", "PICKED_UP", "DROPPED_OFF"}
PoolStatus == {"NONE", "FORMING", "DRIVER_EN_ROUTE", "ARRIVED",
               "IN_PROGRESS", "COMPLETED"}
ActivePool == {"FORMING", "DRIVER_EN_ROUTE", "ARRIVED", "IN_PROGRESS"}
(* The phase of a ride and the duty of a driver, as RidePromise names them. *)
PhaseName(status) ==
    CASE status = "NONE" -> "new"
      [] status = "WAITING" -> "searching"
      [] status = "MATCHED" -> "matched"
      [] status = "IN_PROGRESS" -> "riding"
      [] status = "COMPLETED" -> "delivered"
      [] OTHER -> "ended"
DutyName(availability) ==
    CASE availability = "OFFLINE" -> "off"
      [] availability = "AVAILABLE" -> "free"
      [] availability = "RESERVED" -> "gathering"
      [] OTHER -> "driving"

=============================================================================
