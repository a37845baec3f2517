---------------------------- MODULE MCMarketplace ----------------------------
EXTENDS Marketplace, TLC

CONSTANTS dashboard, cli, bot, tool

OneManager == dashboard :> bot
==============================================================================
