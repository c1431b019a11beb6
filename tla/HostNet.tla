------------------------------- MODULE HostNet -------------------------------
(***************************************************************************)
(* The host-wide network state pvpnd edits: the nftables kill switch table *)
(* and its boot flag (internal/vpn/killswitch.go, preboot.go), the tunnel  *)
(* device pvpn0 (wireguard.go, stealth/stealth.go), the policy rules and   *)
(* the VPN routing table (routes.go), the resolver file with its backup    *)
(* (network/direct.go) and the hardening sysctls (sysctl.go).              *)
(*                                                                         *)
(* There is one of each on a host, named by constants of the code (table   *)
(* "pvpn_killswitch", device "pvpn0", table id RouteTable), so whichever   *)
(* Connection object runs an operation last decides what the host has.     *)
(* Every operation is a function from host state to host state; modules    *)
(* that own the state write  host' = Operation(host).                      *)
(***************************************************************************)
EXTENDS Naturals

CONSTANTS Conn,       \* Connection objects; a table is named for the one whose server it admits
          NoTable,    \* no pvpn_killswitch table is loaded
          BootTable,  \* the table of preboot.nft, pinned to an earlier server
          IfIndex     \* indexes the kernel gives to pvpn0

ASSUME HostNetAssumption ==
    /\ NoTable \notin Conn
    /\ BootTable \notin Conn
    /\ NoTable # BootTable
    /\ IfIndex \subseteq Nat \ {0}

NoLink == 0           \* pvpn0 does not exist
Link   == IfIndex \cup {NoLink}

HostState ==
    [ table  : Conn \cup {NoTable, BootTable},
      flag   : BOOLEAN,                   \* killswitch.state exists on disk
      link   : Link,                      \* ifindex of pvpn0
      rules  : BOOLEAN,                   \* the policy rules at 9999 and 10000
      route  : Link,                      \* device of the VPN table's default route
      resolv : {"host", "vpn"},           \* whose resolv.conf is in place
      backup : {"none", "host", "vpn"},   \* content of the backup file
      arp    : {"own", "hard"} ]          \* the host's own sysctls, or hardened

CleanHost ==
    [ table |-> NoTable, flag |-> FALSE, link |-> NoLink,
      rules |-> FALSE, route |-> NoLink, resolv |-> "host", backup |-> "none",
      arp |-> "own" ]

-----------------------------------------------------------------------------
(* Kill switch table and boot flag. *)

\* KillSwitch.Disable, and the no-kill-switch branch of doConnect's step 0.
ShieldOff(h) == [h EXCEPT !.table = NoTable, !.flag = FALSE]

\* The nft transaction of KillSwitch.Enable, for c's server.
ShieldOn(h, c) == [h EXCEPT !.table = c]

\* WritePrebootKillSwitch; the flag file is its last write.
WriteFlag(h) == [h EXCEPT !.flag = TRUE]

-----------------------------------------------------------------------------
(* Tunnel device.  Deleting it purges the default route that points at it. *)

LinkDel(h) ==
    [h EXCEPT !.link  = NoLink,
              !.route = IF @ = h.link THEN NoLink ELSE @]

LinkAdd(h, i) == [h EXCEPT !.link = i]

\* WireGuardManager.Down and StealthManager.Close delete the device they made.
LinkDrop(h, i) == IF h.link = i THEN LinkDel(h) ELSE h

-----------------------------------------------------------------------------
(* Policy rules and the VPN table: flushed by table id, whoever filled it. *)

RoutesOff(h)   == [h EXCEPT !.rules = FALSE, !.route = NoLink]
RoutesOn(h, i) == [h EXCEPT !.rules = TRUE, !.route = i]

-----------------------------------------------------------------------------
(* Resolver file of the direct backend. *)

DNSOn(h) == [h EXCEPT !.backup = h.resolv, !.resolv = "vpn"]

DNSOff(h) ==
    IF h.backup = "none"
    THEN h
    ELSE [h EXCEPT !.resolv = h.backup, !.backup = "none"]

-----------------------------------------------------------------------------
(* sysctl hardening.  A hardener remembers only the values it changed. *)

Hardener == {"nil", "unchanged", "own"}

ApplySaves(h)      == IF h.arp = "hard" THEN "unchanged" ELSE "own"
Harden(h)          == [h EXCEPT !.arp = "hard"]
Relax_Mutant(h, saved) == [h EXCEPT !.arp = saved]
Relax(h, saved)    == IF saved = "own" THEN [h EXCEPT !.arp = "own"] ELSE h

-----------------------------------------------------------------------------
(* What an application's packet for the internet meets. *)

\* Unmarked traffic leaves through the physical NIC: no drop policy, and no
\* policy rule that would have sent it to the VPN table.
Exposed(h) == h.table = NoTable /\ ~h.rules

\* Nothing of a session is left in the datapath.
Restored(h) ==
    /\ h.link = NoLink
    /\ ~h.rules
    /\ h.route = NoLink
    /\ h.resolv = "host"
    /\ h.arp = "own"
=============================================================================
