---------------------------- MODULE MCRouteFile ----------------------------
EXTENDS RouteFile
=============================================================================
