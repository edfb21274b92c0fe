---------------------------- MODULE MCGuestAgent ----------------------------
(***************************************************************************)
(* One home share and one printer; the limits of asking and mounting are   *)
(* the code's.  Replies are right, too long for the guest's buffer, or     *)
(* encrypted with the keys of another daemon.  The settings take every     *)
(* remap mode with every kind of shares.dat that matters to it.            *)
(***************************************************************************)
EXTENDS GuestAgent

MCDatagrams == {Encrypted(8, "k1"), Encrypted(300, "k1"), Encrypted(8, "k2")}

Setting(sh, rm, p, nw) ==
    [share |-> sh, key |-> "k1", remap |-> rm, persistent |-> p, noHomeWarn |-> nw]

MCConfigs == {
    Setting("ok", RM_NONE, FALSE, FALSE),
    Setting("ok", RM_NATIVE, FALSE, TRUE),
    Setting("ok", RM_NATIVE_FALLBACK, FALSE, FALSE),
    Setting("ok", RM_VMWARE, TRUE, FALSE),
    Setting("demo", RM_NATIVE_FALLBACK, FALSE, FALSE),
    Setting("bad", RM_VMWARE, FALSE, TRUE),
    Setting("bad", RM_NONE, FALSE, FALSE)}
=============================================================================
