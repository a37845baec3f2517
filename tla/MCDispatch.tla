------------------------------ MODULE MCDispatch ------------------------------
EXTENDS Dispatch, TLC

CONSTANTS owner, wellness, block, create, ask, button, form

MCPluginOf == (create :> wellness) @@ (ask :> wellness) @@ (button :> wellness) @@ (form :> NoPlugin)
MCRootOf == (block :> "block") @@ (create :> "remind") @@ (ask :> "remind")
MCOverride == (create :> 1)
==============================================================================
