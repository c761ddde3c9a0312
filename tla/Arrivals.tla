------------------------------- MODULE Arrivals -------------------------------
(***************************************************************************)
(* The requests that RateLimiter and Capacity are about: each is one HTTP  *)
(* request, handled by a goroutine of its own.                             *)
(***************************************************************************)
CONSTANTS Requests, None

ASSUME ArrivalsAssumption == None \notin Requests

=============================================================================
