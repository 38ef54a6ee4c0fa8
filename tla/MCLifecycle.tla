---------------------------- MODULE MCLifecycle ----------------------------
(* One line of the route file more than the matrix has rows.               *)
EXTENDS Lifecycle

MCRouteFile == << <<1, 2>>, <<2, 1>>, <<1, 1>> >>
=============================================================================
