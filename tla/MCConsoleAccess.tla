---------------------------- MODULE MCConsoleAccess ----------------------------
EXTENDS ConsoleAccess

\* The hosted demo, and a production deployment.
DemoAndProduction == {<<"open", "memory">>, <<"required", "redis">>}
================================================================================
