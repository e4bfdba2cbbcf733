------------------------------ MODULE MCCampaign ------------------------------
EXTENDS Campaign
===============================================================================
