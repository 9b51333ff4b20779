------------------------------ MODULE MCInbox ------------------------------
(* Small instances of Inbox for TLC. *)
EXTENDS Inbox, TLC

CONSTANTS c1, c2, u1, u2, e1, e2, e3

Msg(channel, user, event) ==
    [channel |-> channel, oversized |-> FALSE, wellFormed |-> TRUE, user |-> user,
     event |-> event, signature |-> <<>>]

(* kyc.status_changed as the kyc service publishes it. *)
KYC(user, event) ==
    [Msg("kyc.status_changed", user, event) EXCEPT
        !.signature = <<KYCSecret, event, user>>]

(* One event, published again and again, one of another user with the same *)
(* event id.                                                               *)
SharedEvent ==
    {Msg("workspace.contract_signed", u1, e1), KYC(u2, e1),
     Msg("workspace.contract_signed", NoUser, e1)}

(* Three events of one user. *)
ThreeEvents == {Msg("marketplace.bid_received", u1, e) : e \in {e1, e2, e3}}

(* Those, and every way a message can end without a notification. *)
EventsAndRejects ==
    ThreeEvents \cup
    {[Msg("user.suspended", u1, e1) EXCEPT !.oversized = TRUE],
     [Msg("user.suspended", u1, e1) EXCEPT !.wellFormed = FALSE],
     [KYC(u1, e1) EXCEPT !.signature = <<>>],
     Msg("kyc.tier_changed", NoUser, e1),
     Msg("comms.send_requested", NoUser, NoEventId)}

(* Consumers are interchangeable where only safety is checked. *)
ConsumerSymmetry == Permutations({c1, c2})
=============================================================================
