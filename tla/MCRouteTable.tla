---------------------------- MODULE MCRouteTable ----------------------------
EXTENDS RouteTable
=============================================================================
