--------------------------- MODULE MCAuthentication ---------------------------
(* The two drivers of src/db.hpp, of which the configuration takes one.    *)
EXTENDS Authentication

Mysql == INSTANCE Authentication WITH UsePg <- FALSE

VARIABLE driver

InitDriver == Init /\ driver \in {"Postgres", "MySQL"}

Driven(PgStep, MysqlStep) ==
    /\ \/ driver = "Postgres" /\ PgStep
       \/ driver = "MySQL" /\ MysqlStep
    /\ UNCHANGED driver

HandlerOfDriver == Driven(Handler, Mysql!Handler)

NextOfDriver ==
    \/ HandlerOfDriver
    \/ Driven(Sessions \/ Requests \/ Services, Mysql!Sessions \/ Mysql!Requests \/ Mysql!Services)

(* The fairness of FairSpec, with either driver. *)
FairSpecOfDriver ==
    /\ InitDriver /\ [][NextOfDriver]_<<vars, driver>>
    /\ WF_<<vars, driver>>(HandlerOfDriver)

=============================================================================
