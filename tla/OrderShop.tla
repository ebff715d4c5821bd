-------------------------------- MODULE OrderShop --------------------------------
(***************************************************************************)
(* ECommerceApp as one system: the requests of OrderIntake in front of the *)
(* services of OrderFlow.  OrderFlow lets any order be placed at any time; *)
(* here it is a request that places it, after the lookup and the check of  *)
(* its key.  The two meet in the outbox and in the restart of OrderService,*)
(* which hits the requests, the outbox and the saga at once.               *)
(***************************************************************************)
EXTENDS OrderFlow, OrderIntake

\* What only the requests use, and what only the services behind the broker use.
deskVars == <<requestVars, orders, cached, minute>>
serviceVars == <<saga, captures, parcels, emails>>

shopVars == <<intakeVars, serviceVars>>

ShopInit ==
    /\ IntakeInit
    /\ SagaInit
    /\ PaymentInit
    /\ ShipmentInit
    /\ NotificationInit

Desk ==
    /\ \/ \E r \in Orders : Arrive(r) \/ Handler(r) \/ Deliver(r)
       \/ \E p \in Products : Expire(p)
       \/ Tick
    /\ UNCHANGED serviceVars

Services ==
    /\ \E o \in Orders : Orchestrate(o) \/ Pay(o) \/ Ship(o) \/ Notify(o)
    /\ UNCHANGED deskVars

RestartShop ==
    /\ RestartOrderService
    /\ LoseRequests

ShopNext == Desk \/ Services \/ RestartShop

ShopSpec == ShopInit /\ [][ShopNext]_shopVars

--------------------------------------------------------------------------------
(***************************************************************************)
(* Properties.                                                             *)
(***************************************************************************)

\* Behind its requests the shop is the order process that OrderFlow describes:
\* whatever holds of OrderFlow holds of the shop.
ImplementsFlow == Spec

\* PaymentService, ShipmentService or NotificationService has done something for r.
Acted(r) ==
    \/ captures[r] > 0
    \/ parcels[r] > 0
    \/ \E n \in Notices : emails[r][n] > 0

\* A refusal has no consequences: nobody is charged, sent a parcel or an e-mail for a
\* request that was answered 404, 400, 409 or 500, whatever is redelivered or
\* restarted, only for one whose order was stored, its 201 heard, still to come or
\* lost; and the goods are in stock unless nobody could tell (CreateOrder).
RefusalsHaveNoConsequences ==
    \A r \in Orders : Acted(r) =>
        /\ step[r] \notin Refusals \cup {"lookup", "stockChecked", "keyChecked"}
        /\ Product(r) \in Listed \ SoldOut \/ found[r] = "unknown"

\* A second click costs nothing: of two requests with one key that were both
\* charged, neither came after the other was stored, unless a restart has emptied the
\* Orders table that the idempotency key is looked up in.  So a client whose 201 was
\* lost may click again within the minute.
LateClickNeverPays ==
    restarts = 0 =>
        \A r, s \in Orders :
            /\ r # s
            /\ key[r] = key[s]
            /\ captures[r] > 0
            /\ captures[s] > 0
            => s \notin ahead[r]

\* "This order is already being processed, please wait" (the 409 of CreateOrder) is
\* true, also for a client whose only answer it is: another request stored that order,
\* and until a restart its customer has been told the outcome, or the outbox or a
\* queue holds what leads to it.
ConflictIsTrue ==
    \A r \in Orders : step[r] = "conflict" =>
        \E s \in placed \ {r} :
            /\ form[s] = form[r]
            /\ key[s] = key[r]
            /\ restarts = 0 => Decided(s) \/ Pending(s)

\* Nobody with a 201 is left alone: until a restart, whoever got one has been told the
\* outcome, or the outbox or a queue holds what leads to it.
NoCustomerForgotten ==
    restarts = 0 =>
        \A r \in Orders : step[r] = "created" => Decided(r) \/ Pending(r)

--------------------------------------------------------------------------------
(***************************************************************************)
(* The inductive invariant behind them: what holds of the order process, of*)
(* the requests, and of the row that both share.                           *)
(***************************************************************************)

\* Until a restart every order that was ever stored is in the Orders table.
OrdersAreStored == restarts = 0 => orders = placed

ShopInv == TypeOK /\ NothingFromNothing /\ IntakeInv /\ OrdersAreStored

================================================================================
