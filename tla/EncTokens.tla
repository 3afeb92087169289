----------------------------- MODULE EncTokens -----------------------------
(***************************************************************************)
(* The table of load_params() (enc.cpp): the names an encoder              *)
(* configuration may assign, each with the parameter it is put into, and   *)
(* the configuration in the program (default_enc_cfg.cpp) as its           *)
(* assignments.  ParamFile has the parser that uses them.                  *)
(***************************************************************************)
EXTENDS Integers, Sequences, SequencesExt

(* Picture, rates, quality. *)
CodingTokens ==
  <<<<"FramesToEncode", "numFramesToBeEncoded">>, <<"ImageHeight", "inputHeight">>,
    <<"ImageWidth", "inputWidth">>, <<"FrameRate", "targetFrameRate">>,
    <<"BitRate", "targetBitRate">>, <<"ChromaFormat", "inputChromaFormat">>,
    <<"InterlacedVideo", "inputContentType">>, <<"IntraPeriod", "intraFrameInterval">>,
    <<"IDRFramePeriod", "idrFrameInterval">>, <<"ME_Type", "meAlgo">>,
    <<"RC_PRESET", "rateControlPreset">>, <<"ENC_PRESET", "encodingPreset">>,
    <<"SliceSize", "sliceSize">>, <<"RateControl", "rcAlgo">>, <<"MaxDelay", "maxDelay">>,
    <<"AspectRatioWidth", "aspectRatioX">>, <<"AspectRatioHeight", "aspectRatioY">>,
    <<"EnableVUIParam", "enableVUIparams">>, <<"EnableBufSEI", "enableBufSEI">>,
    <<"QPInit", "initQ">>, <<"QPISlice", "intraFrameQP">>, <<"QPSlice", "interPFrameQP">>,
    <<"MaxQP", "rcQMax">>, <<"MinQP", "rcQMin">>, <<"MaxQPI", "rcQMaxI">>,
    <<"MinQPI", "rcQMinI">>, <<"ProfileIDC", "profileIdc">>, <<"LevelIDC", "levelIdc">>,
    <<"Log2MaxFrameNumMinus4", "Log2MaxFrameNumMinus4">>,
    <<"ConstraintFlag", "ConstraintSetFlag">>, <<"AirRate", "airRate">>,
    <<"LoopFilterDisable", "lfDisableIdc">>, <<"PerceptualRC", "perceptualRC">>,
    <<"EntropyCodingMode", "entropyMode">>,
    <<"Transform8x8FlagIntra", "transform8x8FlagIntraFrame">>>>

(* Scaling, memories, regions, slices, layers, refresh. *)
SpecialTokens ==
  <<<<"Transform8x8FlagInter", "transform8x8FlagInterFrame">>,
    <<"SequenceScalingFlag", "seqScalingFlag">>, <<"EncoderQuality", "encQuality">>,
    <<"mvSADout", "mvSADoutFlag">>, <<"useARM926Tcm", "enableARM926Tcm">>,
    <<"enableROI", "enableROI">>, <<"mapIMCOPtoDDR", "enableDDRbuff">>,
    <<"NumOfROI", "numOfROI">>, <<"ROI_1_Xmin", "listROI[0].topLeft.x">>,
    <<"ROI_1_Ymin", "listROI[0].topLeft.y">>, <<"ROI_1_Xmax", "listROI[0].bottomRight.x">>,
    <<"ROI_1_Ymax", "listROI[0].bottomRight.y">>, <<"ROI_1_prty", "roiPriority[0]">>,
    <<"ROI_1_type", "roiType[0]">>, <<"ROI_2_Xmin", "listROI[1].topLeft.x">>,
    <<"ROI_2_Ymin", "listROI[1].topLeft.y">>, <<"ROI_2_Xmax", "listROI[1].bottomRight.x">>,
    <<"ROI_2_Ymax", "listROI[1].bottomRight.y">>, <<"ROI_2_prty", "roiPriority[1]">>,
    <<"ROI_2_type", "roiType[1]">>,
    <<"metaDataGenerateConsume", "metaDataGenerateConsume">>, <<"sliceMode", "sliceMode">>,
    <<"numTemporalLayers", "numTemporalLayers">>, <<"svcSyntaxEnable", "svcSyntaxEnable">>,
    <<"outputDataMode", "outputDataMode">>, <<"sliceFormat", "sliceFormat">>,
    <<"interlaceRefMode", "interlaceRefMode">>, <<"maxBitrateCVBR", "maxBitrateCVBR">>,
    <<"enableGDR", "enableGDR">>, <<"GDRinterval", "GDRinterval">>,
    <<"GDRduration", "GDRduration">>,
    <<"LongTermRefreshInterval", "LongTermRefreshInterval">>,
    <<"EnableLongTermFrame", "EnableLongTermFrame">>>>

sTokenMap == CodingTokens \o SpecialTokens
Names == {sTokenMap[i][1] : i \in DOMAIN sTokenMap}
Places == {sTokenMap[i][2] : i \in DOMAIN sTokenMap}

(* The lines of DefaultEncCfg that are not empty. *)
DefaultEncCfg ==
  <<<<"ImageWidth", 320>>, <<"ImageHeight", 128>>, <<"FrameRate", 8500>>,
    <<"BitRate", 12000>>, <<"ChromaFormat", 9>>, <<"InterlacedVideo", 0>>,
    <<"EnableVUIParam", 0>>, <<"EnableBufSEI", 0>>, <<"ME_Type", 1>>, <<"RC_PRESET", 5>>,
    <<"ENC_PRESET", 1>>, <<"ProfileIDC", 77>>, <<"LevelIDC", 40>>,
    <<"Log2MaxFrameNumMinus4", 0>>, <<"ConstraintFlag", 0>>, <<"IntraPeriod", 0>>,
    <<"IDRFramePeriod", 90>>, <<"LongTermRefreshInterval", 0>>,
    <<"EnableLongTermFrame", 0>>, <<"FramesToEncode", 0>>, <<"SliceSize", 0>>,
    <<"RateControl", 1>>, <<"MaxDelay", 5000>>, <<"QPInit", 51>>, <<"QPISlice", 51>>,
    <<"QPSlice", 27>>, <<"MaxQP", 31>>, <<"MinQP", 8>>, <<"MaxQPI", 33>>, <<"MinQPI", 0>>,
    <<"AirRate", 0>>, <<"EntropyCodingMode", 1>>, <<"Transform8x8FlagIntra", 0>>,
    <<"Transform8x8FlagInter", 0>>, <<"SequenceScalingFlag", 0>>, <<"PerceptualRC", 1>>,
    <<"EncoderQuality", 2>>, <<"mvSADout", 0>>, <<"useARM926Tcm", 0>>, <<"enableROI", 0>>,
    <<"mapIMCOPtoDDR", 0>>, <<"metaDataGenerateConsume", 0>>, <<"sliceMode", 0>>,
    <<"numTemporalLayers", 0>>, <<"svcSyntaxEnable", 0>>, <<"outputDataMode", 1>>,
    <<"sliceFormat", 1>>, <<"interlaceRefMode", 0>>, <<"maxBitrateCVBR", 0>>,
    <<"enableGDR", 0>>, <<"GDRduration", 4>>, <<"GDRinterval", 100>>,
    <<"LoopFilterDisable", 0>>>>

(* ParameterNameToMapIndex(): the first entry of that name.                *)
ParameterNameToMapIndex(name) ==
  LET at == {i \in DOMAIN sTokenMap : sTokenMap[i][1] = name}
  IN  CHOOSE i \in at : \A j \in at : i <= j

(* What a configuration of known names leaves in a parameter: the last     *)
(* assignment to it counts, and without one it stays unset.                *)
Assigned(cfg, place) ==
  SelectSeq(cfg, LAMBDA a : sTokenMap[ParameterNameToMapIndex(a[1])][2] = place)
Value(cfg, place) == Last(Assigned(cfg, place))[2]
=============================================================================
