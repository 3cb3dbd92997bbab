-------------------------------- MODULE Access --------------------------------
(***************************************************************************)
(* What lets people in: guest codes, guest tokens, rate limits, two-factor,  *)
(* single sign-on, roles and the scopes of agents.  They share no state, so  *)
(* a behaviour is of one of them, `part`, and the variables of the others    *)
(* stand still.                                                              *)
(* GuestCodes is extended; the others are instances with variables of their  *)
(* own, but for the clock.                                                   *)
(***************************************************************************)
EXTENDS GuestCodes, Sequences

CONSTANTS
  Tickets, Chats, Guests, GrantTTL, RejectLegacy, MaxIssued, TokensTime,
  Keys, Limit, Paths, Strict, Window, SweepAfter, Errors, MaxHits, LimitsTime,
  RecoveryCodes, MaxRows, FactorTime,
  Browsers, SamlRequests, Messages, Emails, HostRoles, Untils, Skew, TTL, SignOnTime, MaxSignIns,
  Users, Ids, Slugs, System, Perms, Manage,
  ScopeRequests, Viewers, Departments, ScopeOptions, Identities, Filings, RowIds, Picks, ForeignKeys, Reuses

VARIABLES
  part, clock,
  tokenRows, sessions, nonces, grants, tokenReq, tokenCrashes,
  windows, left, admitted, due,
  enrolments, factorReq, accepted, used, told, raced,
  settings, messageIds, issued, cookie, callback, users, signedIn, answered,
  role, has, job,
  db, drawn, members, directory, work, overlapped

tokensVars == <<tokenRows, sessions, nonces, grants, tokenReq, tokenCrashes>>
limitsVars == <<windows, left, admitted, due>>
factorVars == <<enrolments, factorReq, accepted, used, told, raced>>
signOnVars == <<settings, messageIds, issued, cookie, callback, users, signedIn, answered>>
staffVars == <<role, has, job>>
scopeVars == <<db, drawn, members, directory, work, overlapped>>
accessVars == <<vars, part, clock, tokensVars, limitsVars, factorVars, signOnVars, staffVars, scopeVars>>

Tokens == INSTANCE GuestTokens WITH
  Mailboxes <- Guests, MaxTime <- TokensTime,
  rows <- tokenRows, issued <- nonces, now <- clock, req <- tokenReq, crashes <- tokenCrashes

Limits == INSTANCE RateLimit WITH MaxTime <- LimitsTime, now <- clock

Factor == INSTANCE TwoFactor WITH MaxTime <- FactorTime, rows <- enrolments, now <- clock, req <- factorReq

SSO == INSTANCE SignOn WITH
  Callbacks <- Requests, Requests <- SamlRequests, Roles <- HostRoles, MaxTime <- SignOnTime,
  now <- clock, ids <- messageIds

Staff == INSTANCE Roles WITH Workers <- Requests

Scope == INSTANCE TicketScope WITH Requests <- ScopeRequests, Users <- Viewers, Options <- ScopeOptions

ASSUME AccessConstants ==
  /\ Tokens!TokensConstants /\ Limits!RateConstants /\ Factor!TwoFactorConstants
  /\ SSO!SignOnConstants /\ Staff!RolesConstants /\ Scope!ScopeConstants
-----------------------------------------------------------------------------
\* The variables of a part that does not run.
TokensOff == /\ tokenRows = Nil /\ sessions = Nil /\ nonces = Nil /\ grants = Nil /\ tokenReq = Nil /\ tokenCrashes = Nil
LimitsOff == windows = Nil /\ left = Nil /\ admitted = Nil /\ due = Nil
FactorOff == /\ enrolments = Nil /\ factorReq = Nil /\ accepted = Nil /\ used = Nil /\ told = Nil /\ raced = Nil
SignOnOff == /\ settings = Nil /\ messageIds = Nil /\ issued = Nil /\ cookie = Nil /\ callback = Nil
             /\ users = Nil /\ signedIn = Nil /\ answered = Nil
StaffOff == role = Nil /\ has = Nil /\ job = Nil
ScopeOff == /\ db = Nil /\ drawn = Nil /\ members = Nil /\ directory = Nil /\ work = Nil /\ overlapped = Nil

AccessInit ==
  /\ Init
  /\ \/ /\ part = "codes" /\ clock = 0
        /\ TokensOff /\ LimitsOff /\ FactorOff /\ SignOnOff /\ StaffOff /\ ScopeOff
     \/ part = "tokens" /\ Tokens!Init /\ LimitsOff /\ FactorOff /\ SignOnOff /\ StaffOff /\ ScopeOff
     \/ part = "limits" /\ Limits!Init /\ TokensOff /\ FactorOff /\ SignOnOff /\ StaffOff /\ ScopeOff
     \/ part = "factor" /\ Factor!Init /\ TokensOff /\ LimitsOff /\ SignOnOff /\ StaffOff /\ ScopeOff
     \/ part = "sso" /\ SSO!Init /\ TokensOff /\ LimitsOff /\ FactorOff /\ StaffOff /\ ScopeOff
     \/ /\ part = "staff" /\ Staff!Init /\ clock = 0
        /\ TokensOff /\ LimitsOff /\ FactorOff /\ SignOnOff /\ ScopeOff
     \/ /\ part = "scope" /\ Scope!Init /\ clock = 0
        /\ TokensOff /\ LimitsOff /\ FactorOff /\ SignOnOff /\ StaffOff

AccessNext ==
  /\ UNCHANGED part
  /\ \/ part = "codes" /\ Next /\ UNCHANGED <<clock, tokensVars, limitsVars, factorVars, signOnVars, staffVars, scopeVars>>
     \/ part = "tokens" /\ Tokens!Next /\ UNCHANGED <<vars, limitsVars, factorVars, signOnVars, staffVars, scopeVars>>
     \/ part = "limits" /\ Limits!Next /\ UNCHANGED <<vars, tokensVars, factorVars, signOnVars, staffVars, scopeVars>>
     \/ part = "factor" /\ Factor!Next /\ UNCHANGED <<vars, tokensVars, limitsVars, signOnVars, staffVars, scopeVars>>
     \/ part = "sso" /\ SSO!Next /\ UNCHANGED <<vars, tokensVars, limitsVars, factorVars, staffVars, scopeVars>>
     \/ part = "staff" /\ Staff!Next /\ UNCHANGED <<vars, clock, tokensVars, limitsVars, factorVars, signOnVars, scopeVars>>
     \/ part = "scope" /\ Scope!Next /\ UNCHANGED <<vars, clock, tokensVars, limitsVars, factorVars, signOnVars, staffVars>>

AccessSpec == AccessInit /\ [][AccessNext]_accessVars
-----------------------------------------------------------------------------
\* The types of every part.
AccessTypeOK ==
  /\ TypeOK
  /\ part = "tokens" => Tokens!TypeOK
  /\ part = "limits" => Limits!TypeOK
  /\ part = "factor" => Factor!TypeOK
  /\ part = "sso" => SSO!TypeOK
  /\ part = "staff" => Staff!TypeOK
  /\ part = "scope" => Scope!TypeOK

\* One credential at most opens a ticket to a guest, and none that was moved or
\* ended; a client over its own limit uses up nobody else's.
GuestsHold ==
  /\ part = "tokens" => Tokens!OneKey /\ Tokens!MovedTokenGone
  /\ part = "limits" => Limits!WithinLimit /\ Limits!OnlyAdmittedGoOn

\* A code or an assertion works once, who enrolled is challenged, who has a role
\* has one that exists, and a restricted agent reads what is in scope, no less.
StaffHolds ==
  /\ part = "factor" => Factor!EnrolmentHolds
  /\ part = "sso" => SSO!AnsweredOnce
  /\ part = "staff" => Staff!RolesHold
  /\ part = "scope" => Scope!ScopeHolds

\* No step ends a grant of a mailbox but a lookup of it, accepts a message
\* twice, takes a user's last role that manages roles by their own hand, or
\* writes out of an agent's scope.
StepsKeepAccess ==
  [][/\ part = "tokens" => Tokens!GrantKeptForMailbox
     /\ part = "sso" => SSO!ClaimedOnce
     /\ part = "staff" => Staff!ManagementKept
     /\ part = "scope" => Scope!StatementsHold]_accessVars

\* The map of rate-limit windows with its sweep is a counter a key.
AreFixedWindows ==
  /\ part = "limits" => Limits!StartsFresh
  /\ [][part = "limits" => Limits!IsFixedWindows]_accessVars
=============================================================================
