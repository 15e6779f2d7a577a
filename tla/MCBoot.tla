------------------------------- MODULE MCBoot -------------------------------
(***************************************************************************)
(* Two mask settings, all lines masked and none; and a boot with all it    *)
(* needs, one without each.                                                *)
(***************************************************************************)
EXTENDS Boot

MCFirmwareMasks == { <<255, 255>>, <<0, 0>> }
MCResponses ==
  { [framebuffers |-> 1, modules |-> 1, drive |-> TRUE],
    [framebuffers |-> NULL, modules |-> 1, drive |-> TRUE],
    [framebuffers |-> 1, modules |-> NULL, drive |-> TRUE],
    [framebuffers |-> 1, modules |-> 0, drive |-> TRUE],
    [framebuffers |-> 1, modules |-> 1, drive |-> FALSE] }
=============================================================================
