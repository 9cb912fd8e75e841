\* Channels of two events, so that a third is lost; two failures of any kind.
SPECIFICATION FairSpec
CONSTANTS
  Cap = 2
  Buffer = 2
  MaxDrops = 2
  MaxVersion = 4
 
PROPERTIES
  ListNeverGoesBack
  
